----------------------------- MODULE GuestBridge -----------------------------
(***************************************************************************)
(* A WebSocket between a client and a guest, through a chain of hops: the  *)
(* api-service or a gateway, and the gateway that owns the sandbox.  Every *)
(* hop connects to the next one before it accepts, and then runs two       *)
(* pumps, one in each direction, until the first of them has ended.        *)
(*                                                                         *)
(* Link i is between node i - 1 and node i; node 0 is the client and node  *)
(* Hops + 1 the guest.  A link that was closed still delivers what was     *)
(* sent before.  Messages are numbered from one; a close is its code,      *)
(* below zero.                                                             *)
(***************************************************************************)
EXTENDS Integers, Sequences

CONSTANTS
  Hops,
  Tries,      \* attempts of a hop to connect
  MaxAsked,   \* bound: messages of the client
  MaxSent,    \* bound: messages of the guest, no fewer
  MaxFaults   \* bound: connections that fail and links that break

BridgeBounds == Hops \in Nat \ {0}

VARIABLES
  up, down,  \* what is under way to the guest and to the client, by link
  shut,      \* the ends of a link that closed it
  hop,
  client, guest,
  faults

vars == <<up, down, shut, hop, client, guest, faults>>

Links == 1..(Hops + 1)
Chain == 1..Hops
Normal == -1000
InternalError == -1011
Abnormal == -1006
Open == 0
Left == -1
Refused == -2
Codes == {Normal, InternalError, Abnormal}
Packets == 1..MaxSent \cup Codes

TypeOK ==
  /\ \A i \in Links : up[i] \in Seq(Packets) /\ down[i] \in Seq(Packets)
  /\ shut \in [Links -> SUBSET {"near", "far"}]
  /\ hop \in [Chain -> [pc : {"idle", "connect", "pump", "ended"}, tries : 0..Tries,
                        out : {"run", "closing", "done"}, back : {"run", "closing", "done"},
                        left : BOOLEAN, failed : BOOLEAN]]
  /\ client.sent \in 0..MaxAsked /\ client.got \in 0..MaxSent
  /\ client.end \in {Open, Left, Refused} \cup Codes
  /\ guest.sent \in 0..MaxSent /\ guest.heard \in 0..MaxAsked
  /\ guest.end \in {Open, Left} \cup Codes /\ faults \in 0..MaxFaults

Still == [pc |-> "idle", tries |-> 0, out |-> "run", back |-> "run", left |-> FALSE,
          failed |-> FALSE]

NewEnd == [sent |-> 0, heard |-> 0, end |-> Open]

Init ==
  /\ up = [i \in Links |-> << >>] /\ down = up /\ shut = [i \in Links |-> {}]
  /\ hop = [h \in Chain |-> IF h = 1 THEN [Still EXCEPT !.pc = "connect"] ELSE Still]
  /\ client = [sent |-> 0, got |-> 0, end |-> Open]
  /\ guest = NewEnd
  /\ faults = 0

Fault == faults < MaxFaults /\ faults' = faults + 1
Put(queue, i, packet) == [queue EXCEPT ![i] = Append(@, packet)]
Took(queue, i) == [queue EXCEPT ![i] = Tail(@)]

-----------------------------------------------------------------------------
(* Connecting *)

Dial(h) ==
  /\ h < Hops /\ hop[h].pc = "connect" /\ hop[h + 1].pc = "idle"
  /\ hop' = [hop EXCEPT ![h + 1].pc = "connect"]
  /\ UNCHANGED <<up, down, shut, client, guest, faults>>

Accept(h) ==
  /\ hop[h].pc = "connect" /\ (h < Hops => hop[h + 1].pc = "pump")
  /\ hop' = [hop EXCEPT ![h].pc = "pump"]
  /\ UNCHANGED <<up, down, shut, client, guest, faults>>

\* The next hop refused, or the attempt failed or took too long.  What it left behind
\* is not used any more; the last attempt's failure is handed on.
AttemptFails(h) ==
  /\ hop[h].pc = "connect"
  /\ IF h < Hops /\ hop[h + 1].pc = "ended" THEN UNCHANGED faults ELSE Fault
  /\ hop' = [g \in Chain |->
               IF g > h THEN Still
               ELSE IF g = h THEN [hop[h] EXCEPT !.tries = @ + 1,
                                     !.pc = IF @ = "connect" /\ hop[h].tries + 1 >= Tries
                                            THEN "ended" ELSE @]
               ELSE hop[g]]
  /\ up' = [i \in Links |-> IF i > h THEN << >> ELSE up[i]]
  /\ down' = [i \in Links |-> IF i > h THEN << >> ELSE down[i]]
  /\ shut' = [i \in Links |-> IF i > h THEN {} ELSE shut[i]]
  /\ client' = [client EXCEPT !.end = IF hop'[1].pc = "ended" /\ @ = Open THEN Refused ELSE @]
  /\ guest' = NewEnd

-----------------------------------------------------------------------------
(* The pumps; the event downstream_closed is the hop's "left" *)

Pumping(h) == hop[h].pc = "pump"

\* Once the guest's end is closed a send raises, or is lost while the close is on its way.
Outward(h) ==
  /\ Pumping(h) /\ hop[h].out = "run" /\ up[h] # << >>
  /\ up[h][1] \notin Codes
  /\ \/ /\ "far" \notin shut[h + 1] /\ "near" \notin shut[h + 1]
        /\ up' = Put(Took(up, h), h + 1, Head(up[h])) /\ UNCHANGED <<hop, shut>>
     \/ /\ "far" \in shut[h + 1] /\ up' = Took(up, h) /\ UNCHANGED <<hop, shut>>
     \/ /\ shut[h + 1] # {} /\ up' = Took(up, h)
        /\ hop' = [hop EXCEPT ![h].out = "closing", ![h].left = TRUE, ![h].failed = TRUE]
        /\ shut' = [shut EXCEPT ![h + 1] = @ \cup {"near"}]
  /\ UNCHANGED <<down, client, guest, faults>>

\* The client is gone: the pump ends and closes the link ahead.
Disconnected(h) ==
  /\ Pumping(h) /\ hop[h].out = "run" /\ up[h] # << >> /\ up[h][1] \in Codes
  /\ up' = IF "near" \in shut[h + 1] THEN Took(up, h) ELSE Put(Took(up, h), h + 1, Normal)
  /\ shut' = [shut EXCEPT ![h] = @ \cup {"far"}, ![h + 1] = @ \cup {"near"}]
  /\ hop' = [hop EXCEPT ![h].out = "closing", ![h].left = TRUE]
  /\ UNCHANGED <<down, client, guest, faults>>

\* The upstream hands over what it received before it says that it is closed.
\* Mutant: it says so at once.
ReceivedHasty(h) ==
  IF \E k \in DOMAIN down[h + 1] : down[h + 1][k] \in Codes THEN Normal ELSE Head(down[h + 1])
Received(h) == Head(down[h + 1])

Inward(h) ==
  /\ Pumping(h) /\ hop[h].back = "run" /\ down[h + 1] # << >>
  /\ Received(h) \notin Codes
  /\ IF hop[h].left \/ shut[h] # {}
     THEN hop' = [hop EXCEPT ![h].back = "closing"] /\ down' = Took(down, h + 1)
     ELSE down' = Put(Took(down, h + 1), h, Received(h)) /\ UNCHANGED hop
  /\ UNCHANGED <<up, shut, client, guest, faults>>

\* Whatever code the upstream closed with, the client's link is closed with 1000,
\* unless the other pump has ended.
UpstreamEnds(h) ==
  /\ Pumping(h) /\ hop[h].back = "run" /\ down[h + 1] # << >>
  /\ Received(h) \in Codes
  /\ hop' = [hop EXCEPT ![h].back = "closing"]
  /\ IF hop[h].left \/ "far" \in shut[h]
     THEN shut' = [shut EXCEPT ![h + 1] = @ \cup {"near"}] /\ down' = Took(down, h + 1)
     ELSE /\ shut' = [shut EXCEPT ![h + 1] = @ \cup {"near"}, ![h] = @ \cup {"far"}]
          /\ down' = Put(Took(down, h + 1), h, Normal)
  /\ UNCHANGED <<up, client, guest, faults>>

\* The closing handshake is over, or was waited for long enough.
Closed(h) ==
  /\ Pumping(h)
  /\ \/ hop[h].out = "closing" /\ hop' = [hop EXCEPT ![h].out = "done"]
     \/ hop[h].back = "closing" /\ hop' = [hop EXCEPT ![h].back = "done"]
  /\ UNCHANGED <<up, down, shut, client, guest, faults>>

\* One pump has ended: the other is cancelled, the link ahead is closed, and where a
\* send had raised the client's link is closed with 1011.
Finish(h) ==
  /\ Pumping(h) /\ "done" \in {hop[h].out, hop[h].back}
  /\ hop' = [hop EXCEPT ![h].pc = "ended"]
  /\ up' = IF "near" \in shut[h + 1] THEN up ELSE Put(up, h + 1, Normal)
  /\ down' = IF hop[h].failed /\ "far" \notin shut[h] THEN Put(down, h, InternalError) ELSE down
  /\ shut' = [shut EXCEPT ![h] = IF hop[h].failed THEN @ \cup {"far"} ELSE @,
                          ![h + 1] = @ \cup {"near"}]
  /\ UNCHANGED <<client, guest, faults>>

\* A link breaks; what was under way is lost.
Break(i) ==
  /\ Fault /\ \A h \in Chain : h \in {i - 1, i} => Pumping(h)
  /\ shut[i] = {} /\ shut' = [shut EXCEPT ![i] = {"near", "far"}]
  /\ up' = [up EXCEPT ![i] = <<Abnormal>>] /\ down' = [down EXCEPT ![i] = <<Abnormal>>]
  /\ UNCHANGED <<hop, client, guest>>

-----------------------------------------------------------------------------
(* The two ends *)

Connected == Pumping(1)

ClientSends ==
  /\ Connected /\ client.end = Open /\ shut[1] = {} /\ client.sent < MaxAsked
  /\ client' = [client EXCEPT !.sent = @ + 1] /\ up' = Put(up, 1, client.sent + 1)
  /\ UNCHANGED <<down, shut, hop, guest, faults>>

ClientLeaves ==
  /\ client.end = Open /\ "near" \notin shut[1]
  /\ client' = [client EXCEPT !.end = Left] /\ up' = Put(up, 1, Normal)
  /\ shut' = [shut EXCEPT ![1] = @ \cup {"near"}]
  /\ UNCHANGED <<down, hop, guest, faults>>

\* A close is answered.
ClientReceives ==
  /\ client.end = Open /\ down[1] # << >> /\ down' = Took(down, 1)
  /\ IF Head(down[1]) \in Codes
     THEN /\ client' = [client EXCEPT !.end = Head(down[1])]
          /\ up' = IF "near" \in shut[1] THEN up ELSE Put(up, 1, Normal)
          /\ shut' = [shut EXCEPT ![1] = @ \cup {"near"}]
     ELSE client' = [client EXCEPT !.got = Head(down[1])] /\ UNCHANGED <<up, shut>>
  /\ UNCHANGED <<hop, guest, faults>>

GuestSends ==
  /\ Pumping(Hops) /\ guest.end = Open /\ shut[Hops + 1] = {} /\ guest.sent < MaxSent
  /\ guest' = [guest EXCEPT !.sent = @ + 1] /\ down' = Put(down, Hops + 1, guest.sent + 1)
  /\ UNCHANGED <<up, shut, hop, client, faults>>

GuestCloses ==
  /\ Pumping(Hops) /\ guest.end = Open /\ "far" \notin shut[Hops + 1]
  /\ guest' = [guest EXCEPT !.end = Left] /\ down' = Put(down, Hops + 1, Normal)
  /\ shut' = [shut EXCEPT ![Hops + 1] = @ \cup {"far"}]
  /\ UNCHANGED <<up, hop, client, faults>>

GuestHears ==
  /\ guest.end = Open /\ up[Hops + 1] # << >> /\ up' = Took(up, Hops + 1)
  /\ LET packet == Head(up[Hops + 1]) IN
     IF packet \in Codes
     THEN /\ guest' = [guest EXCEPT !.end = packet]
          /\ down' = IF "far" \in shut[Hops + 1] THEN down ELSE Put(down, Hops + 1, Normal)
          /\ shut' = [shut EXCEPT ![Hops + 1] = @ \cup {"far"}]
     ELSE guest' = [guest EXCEPT !.heard = packet] /\ UNCHANGED <<down, shut>>
  /\ UNCHANGED <<hop, client, faults>>

Next ==
  \/ \E h \in Chain :
       \/ Dial(h) \/ Accept(h) \/ AttemptFails(h)
       \/ Outward(h) \/ Disconnected(h) \/ Inward(h) \/ UpstreamEnds(h) \/ Closed(h) \/ Finish(h)
  \/ \E i \in Links : Break(i)
  \/ ClientSends \/ ClientLeaves \/ ClientReceives
  \/ GuestSends \/ GuestCloses \/ GuestHears

Spec == Init /\ [][Next]_vars

-----------------------------------------------------------------------------
(* Property *)

\* A client whose connection ends with 1000 has all that the guest sent, unless a link
\* broke, or a message of the client came to a hop when the guest had closed.
NormalEndIsWhole ==
  client.end = Normal =>
    client.got = guest.sent \/ faults > 0 \/ \E h \in Chain : hop[h].failed
=============================================================================
