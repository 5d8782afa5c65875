---------------------------- MODULE GuestProofs -----------------------------
(***************************************************************************)
(* Theorems about components on the way to a guest and in it: routes, the  *)
(* containers of a gateway, the bootstrap, agents, terminals over SSH,     *)
(* processes' streams, WebSockets and files, and the Modal API's sandboxes *)
(* and open files; the types of each come last.                            *)
(* A theorem is about one component and its specification alone, for all   *)
(* values of its constants.                                                *)
(***************************************************************************)
EXTENDS GuestComponents, Integers, Sequences, SequenceTheorems, TLAPS

-----------------------------------------------------------------------------
(* The routes to the guests *)

RouteRow == [st : {"none", "running", "lost", "gone"}, gateway : Gateways \cup {None}]
RouteBox == [runs : BOOLEAN, serves : BOOLEAN, address : Addresses \cup {None}]
RouteRequest ==
  [pc : {"idle", "proxy", "lookup", "failure", "inspect", "probe", "resolve", "running",
         "upstream", "route", "dial", "done"},
   sandbox : Sandboxes \cup {None}, at : Gateways \cup {None}, address : Addresses \cup {None},
   owner : Gateways \cup {None}, reached : Sandboxes \cup {None}, ended : BOOLEAN]

RouteTypes ==
  /\ row \in [Sandboxes -> RouteRow] /\ container \in [Sandboxes -> RouteBox]
  /\ recorded \in [Sandboxes -> Addresses \cup {None}] /\ req \in [GuestRequests -> RouteRequest]

\* Two containers of a gateway have two addresses; what serves runs.
RouteAddresses ==
  /\ \A s \in Sandboxes : container[s].serves => container[s].runs
  /\ \A s, o \in Sandboxes :
       container[s].runs /\ container[o].runs /\ row[s].gateway = row[o].gateway
         /\ container[s].address = container[o].address => s = o

\* A sandbox is placed on one gateway and has one address in its life: what is recorded is
\* that one.
RouteRecorded ==
  \A s \in Sandboxes :
    /\ row[s].st = "none" => recorded[s] = None /\ ~container[s].runs
    /\ row[s].st # "none" => row[s].gateway \in Gateways
    /\ container[s].runs => recorded[s] \in {None, container[s].address}

\* What a request knows, by how far it is.
Owned == {"failure", "inspect", "probe", "resolve", "running", "upstream", "route", "dial"}
Way(r) ==
  /\ r.pc # "idle" => r.sandbox \in Sandboxes /\ row[r.sandbox].st # "none"
  /\ r.pc \in Owned => r.owner = row[r.sandbox].gateway
  /\ r.pc = "probe" /\ container[r.sandbox].runs => r.address = container[r.sandbox].address
  /\ r.pc = "running" /\ container[r.sandbox].runs =>
       r.address \in {None, container[r.sandbox].address}
  /\ r.pc = "upstream" /\ ~r.ended =>
       container[r.sandbox].runs /\ r.address \in {None, container[r.sandbox].address}
  /\ r.pc \in {"route", "dial"} /\ ~r.ended =>
       container[r.sandbox].runs /\ r.address = container[r.sandbox].address
  /\ r.pc = "dial" => r.at = r.owner
  /\ r.pc # "done" => r.reached = None
  /\ r.reached \in {None, r.sandbox} \/ r.ended
RouteWays == \A q \in GuestRequests : Way(req[q])

RouteInv == RouteTypes /\ RouteAddresses /\ RouteRecorded /\ RouteWays

\* Containers end, and with them what a request that has their address waits for.
LEMMA RouteEnds ==
  ASSUME RouteInv, NEW ss \in SUBSET Sandboxes, Routing!Ends(ss),
         row' \in [Sandboxes -> RouteRow],
         \A s \in Sandboxes :
           row'[s].gateway = row[s].gateway /\ (row'[s].st = "none" <=> row[s].st = "none")
  PROVE  RouteInv'
<1>1. /\ UNCHANGED recorded
      /\ container' = [s \in Sandboxes |-> IF s \in ss THEN Routing!NoContainer ELSE container[s]]
      /\ req' = [q \in GuestRequests |->
                   IF req[q].sandbox \in ss /\ req[q].pc \in {"upstream", "route", "dial"}
                   THEN [req[q] EXCEPT !.ended = TRUE] ELSE req[q]]
  BY DEF Routing!Ends
<1>2. \A s \in Sandboxes :
        /\ s \in ss => container'[s] = Routing!NoContainer
        /\ s \notin ss => container'[s] = container[s]
  BY <1>1
<1>3. Routing!NoContainer \in RouteBox /\ ~Routing!NoContainer.runs /\ ~Routing!NoContainer.serves
  BY DEF Routing!NoContainer, RouteBox
<1>4. container' \in [Sandboxes -> RouteBox]
  BY <1>1, <1>3 DEF RouteInv, RouteTypes
<1>5. \A s \in Sandboxes : container'[s].runs => container'[s] = container[s]
  BY <1>2, <1>3
<1>6. ASSUME NEW q \in GuestRequests
      PROVE  /\ req'[q] \in RouteRequest
             /\ req'[q].pc = req[q].pc /\ req'[q].sandbox = req[q].sandbox
             /\ req'[q].at = req[q].at /\ req'[q].address = req[q].address
             /\ req'[q].owner = req[q].owner /\ req'[q].reached = req[q].reached
             /\ req[q].ended => req'[q].ended
             /\ req[q].sandbox \in ss /\ req[q].pc \in {"upstream", "route", "dial"}
                  => req'[q].ended
  <2>1. req[q] \in RouteRequest
    BY DEF RouteInv, RouteTypes
  <2>2. req'[q] = IF req[q].sandbox \in ss /\ req[q].pc \in {"upstream", "route", "dial"}
                  THEN [req[q] EXCEPT !.ended = TRUE] ELSE req[q]
    BY <1>1
  <2> QED
    BY <2>1, <2>2 DEF RouteRequest
<1>7. req' \in [GuestRequests -> RouteRequest]
  BY <1>1, <1>6
<1>8. RouteTypes'
  BY <1>1, <1>4, <1>7 DEF RouteInv, RouteTypes
<1>9. RouteAddresses'
  BY <1>2, <1>3, <1>5 DEF RouteInv, RouteAddresses
<1>10. RouteRecorded'
  BY <1>1, <1>5 DEF RouteInv, RouteRecorded
<1>11. ASSUME NEW q \in GuestRequests
       PROVE  Way(req[q])'
  <2>1. Way(req[q])
    BY DEF RouteInv, RouteWays
  <2> QED
    BY <1>2, <1>5, <1>6, <2>1 DEF Way, Owned
<1> QED
  BY <1>8, <1>9, <1>10, <1>11 DEF RouteInv, RouteWays

\* The end of a container, of a sandbox and of all that a gateway runs.
LEMMA RouteEnd ==
  ASSUME RouteInv,
         \/ \E s \in Sandboxes : Routing!Exits(s) \/ Routing!Delete(s)
         \/ \E g \in Gateways : Routing!Replace(g)
  PROVE  RouteInv'
<1>1. row \in [Sandboxes -> RouteRow]
  BY DEF RouteInv, RouteTypes
<1>2. CASE \E s \in Sandboxes : Routing!Exits(s)
  BY <1>1, <1>2, RouteEnds DEF Routing!Exits
<1>3. CASE \E s \in Sandboxes : Routing!Delete(s)
  <2>1. PICK s \in Sandboxes : Routing!Delete(s)
    BY <1>3
  <2>2. row[s].st # "none" /\ Routing!Ends({s}) /\ row' = [row EXCEPT ![s].st = "gone"]
    BY <2>1 DEF Routing!Delete, Routing!HasRow
  <2>3. /\ row' \in [Sandboxes -> RouteRow]
        /\ \A o \in Sandboxes :
             row'[o].gateway = row[o].gateway /\ (row'[o].st = "none" <=> row[o].st = "none")
    BY <1>1, <2>2 DEF RouteRow
  <2> QED
    BY <2>2, <2>3, RouteEnds
<1>4. CASE \E g \in Gateways : Routing!Replace(g)
  <2>1. PICK g \in Gateways : Routing!Replace(g)
    BY <1>4
  <2>2. /\ UNCHANGED row
        /\ Routing!Ends({s \in Sandboxes : container[s].runs /\ row[s].gateway = g})
    BY <2>1 DEF Routing!Replace
  <2>3. {s \in Sandboxes : container[s].runs /\ row[s].gateway = g} \in SUBSET Sandboxes
    OBVIOUS
  <2> QED
    BY <1>1, <2>2, <2>3, RouteEnds
<1> QED
  BY <1>2, <1>3, <1>4

\* A new container gets an address that nothing on its gateway has.
LEMMA RouteCreate ==
  ASSUME RouteInv, NEW s \in Sandboxes, NEW g \in Gateways, NEW address \in Addresses,
         Routing!Create(s, g, address)
  PROVE  RouteInv'
<1>1. /\ UNCHANGED <<recorded, req>> /\ row[s].st = "none" /\ address \in Routing!Free(g)
      /\ row' = [row EXCEPT ![s] = [st |-> "running", gateway |-> g]]
      /\ container' = [container EXCEPT ![s] = [runs |-> TRUE, serves |-> FALSE,
                                                address |-> address]]
  BY DEF Routing!Create
<1>2. /\ row \in [Sandboxes -> RouteRow] /\ container \in [Sandboxes -> RouteBox]
      /\ [st |-> "running", gateway |-> g] \in RouteRow
      /\ [runs |-> TRUE, serves |-> FALSE, address |-> address] \in RouteBox
  BY DEF RouteInv, RouteTypes, RouteRow, RouteBox
<1>3. /\ row' \in [Sandboxes -> RouteRow] /\ container' \in [Sandboxes -> RouteBox]
      /\ row'[s] = [st |-> "running", gateway |-> g]
      /\ container'[s] = [runs |-> TRUE, serves |-> FALSE, address |-> address]
      /\ \A o \in Sandboxes \ {s} : row'[o] = row[o] /\ container'[o] = container[o]
  BY <1>1, <1>2
<1>4. \A o \in Sandboxes : row[o].gateway = g => container[o].address # address
  BY <1>1 DEF Routing!Free
<1>5. RouteTypes'
  BY <1>1, <1>3 DEF RouteInv, RouteTypes
<1>6. RouteAddresses'
  BY <1>3, <1>4 DEF RouteInv, RouteAddresses
<1>7. recorded[s] = None
  BY <1>1 DEF RouteInv, RouteRecorded
<1>8. RouteRecorded'
  BY <1>1, <1>3, <1>7 DEF RouteInv, RouteRecorded
<1>9. ASSUME NEW q \in GuestRequests
      PROVE  Way(req[q])'
  <2>1. Way(req[q])
    BY DEF RouteInv, RouteWays
  <2>2. req[q].pc = "idle" \/ (req[q].sandbox \in Sandboxes /\ req[q].sandbox # s)
    BY <1>1, <2>1 DEF Way
  <2> QED
    BY <1>1, <1>3, <2>1, <2>2 DEF Way, Owned
<1> QED
  BY <1>5, <1>6, <1>8, <1>9 DEF RouteInv, RouteWays

\* A container that begins to serve, and an address that is recorded.
LEMMA RouteServes ==
  ASSUME RouteInv, NEW s \in Sandboxes, Routing!Serves(s) \/ Routing!Refresh(s)
  PROVE  RouteInv'
<1>1. /\ UNCHANGED <<row, req>> /\ container[s].runs
      /\ container' = [container EXCEPT ![s].serves = TRUE] \/ UNCHANGED container
      /\ recorded' = [recorded EXCEPT ![s] = container[s].address] \/ UNCHANGED recorded
  BY DEF Routing!Serves, Routing!Refresh
<1>2. /\ container \in [Sandboxes -> RouteBox]
      /\ recorded \in [Sandboxes -> Addresses \cup {None}]
  BY DEF RouteInv, RouteTypes
<1>3. /\ container' \in [Sandboxes -> RouteBox]
      /\ \A o \in Sandboxes : /\ container'[o].runs = container[o].runs
                              /\ container'[o].address = container[o].address
                              /\ container'[o].serves => container[o].serves \/ o = s
  <2>1. CASE UNCHANGED container
    BY <1>2, <2>1
  <2>2. CASE container' = [container EXCEPT ![s].serves = TRUE]
    <3>1. /\ container' \in [Sandboxes -> RouteBox]
          /\ container'[s] = [container[s] EXCEPT !.serves = TRUE]
          /\ \A o \in Sandboxes \ {s} : container'[o] = container[o]
      BY <1>2, <2>2 DEF RouteBox
    <3> QED
      BY <1>2, <3>1 DEF RouteBox
  <2> QED
    BY <1>1, <2>1, <2>2
<1>4. /\ recorded' \in [Sandboxes -> Addresses \cup {None}]
      /\ \A o \in Sandboxes : recorded'[o] = recorded[o] \/ (o = s /\ recorded'[o] = container[o].address)
  <2>1. container[s].address \in Addresses \cup {None}
    BY <1>2 DEF RouteBox
  <2> QED
    BY <1>1, <1>2, <2>1
<1>5. RouteTypes'
  BY <1>1, <1>3, <1>4 DEF RouteInv, RouteTypes
<1>6. RouteAddresses'
  BY <1>1, <1>3 DEF RouteInv, RouteAddresses
<1>7. RouteRecorded'
  BY <1>1, <1>3, <1>4 DEF RouteInv, RouteRecorded
<1>8. ASSUME NEW q \in GuestRequests
      PROVE  Way(req[q])'
  <2>1. Way(req[q])
    BY DEF RouteInv, RouteWays
  <2> QED
    BY <1>1, <1>3, <2>1 DEF Way, Owned
<1> QED
  BY <1>5, <1>6, <1>7, <1>8 DEF RouteInv, RouteWays

\* A step of one request: the rows may be marked lost and an address recorded.
LEMMA RouteRequestStep ==
  ASSUME RouteInv, UNCHANGED container,
         NEW q \in GuestRequests, NEW r \in RouteRequest, req' = [req EXCEPT ![q] = r], Way(r),
         row' \in [Sandboxes -> RouteRow],
         \A s \in Sandboxes :
           row'[s].gateway = row[s].gateway /\ (row'[s].st = "none" <=> row[s].st = "none"),
         recorded' \in [Sandboxes -> Addresses \cup {None}],
         \A s \in Sandboxes :
           \/ recorded'[s] = recorded[s]
           \/ /\ row[s].st # "none"
              /\ container[s].runs => recorded'[s] = container[s].address
  PROVE  RouteInv'
<1>1. /\ req' \in [GuestRequests -> RouteRequest] /\ req'[q] = r
      /\ \A p \in GuestRequests \ {q} : req'[p] = req[p]
  BY DEF RouteInv, RouteTypes
<1>2. RouteTypes'
  BY <1>1 DEF RouteInv, RouteTypes
<1>3. RouteAddresses' /\ RouteRecorded'
  BY DEF RouteInv, RouteAddresses, RouteRecorded
<1>4. ASSUME NEW p \in GuestRequests
      PROVE  Way(req[p])'
  <2>1. Way(req'[p])
    BY <1>1 DEF RouteInv, RouteWays
  <2> QED
    BY <2>1 DEF Way, Owned
<1> QED
  BY <1>2, <1>3, <1>4 DEF RouteInv, RouteWays

\* A row that is marked lost keeps its gateway, and is a row before and after.
LEMMA RouteLost ==
  ASSUME RouteInv, NEW s \in Sandboxes, row' = Routing!MarkedLost(s) \/ row' = row
  PROVE  /\ row' \in [Sandboxes -> RouteRow]
         /\ \A o \in Sandboxes :
              row'[o].gateway = row[o].gateway /\ (row'[o].st = "none" <=> row[o].st = "none")
<1>1. row \in [Sandboxes -> RouteRow]
  BY DEF RouteInv, RouteTypes
<1>2. CASE row' = row
  BY <1>1, <1>2
<1>3. CASE row' = Routing!MarkedLost(s) /\ Routing!Failed(s)
  <2>1. row' = [row EXCEPT ![s].st = "lost"] /\ row[s].st # "none"
    BY <1>3 DEF Routing!MarkedLost, Routing!Failed
  <2>2. /\ row' \in [Sandboxes -> RouteRow] /\ row'[s] = [row[s] EXCEPT !.st = "lost"]
        /\ \A o \in Sandboxes \ {s} : row'[o] = row[o]
    BY <1>1, <2>1 DEF RouteRow
  <2> QED
    BY <1>1, <2>1, <2>2 DEF RouteRow
<1>4. CASE row' = Routing!MarkedLost(s) /\ ~Routing!Failed(s)
  <2>1. row' = [row EXCEPT ![s].st = row[s].st]
    BY <1>4 DEF Routing!MarkedLost
  <2>2. row' = row
    BY <1>1, <2>1 DEF RouteRow
  <2> QED
    BY <1>1, <2>2
<1> QED
  BY <1>2, <1>3, <1>4

\* A request goes on to another place with what it knows.
LEMMA RouteTo ==
  ASSUME RouteInv, UNCHANGED <<container, recorded>>, NEW q \in GuestRequests,
         row' \in [Sandboxes -> RouteRow],
         \A s \in Sandboxes :
           row'[s].gateway = row[s].gateway /\ (row'[s].st = "none" <=> row[s].st = "none"),
         \/ Routing!To(q, "done")
         \/ req[q].pc = "proxy" /\ Routing!To(q, "lookup")
         \/ req[q].pc = "failure" /\ Routing!To(q, "inspect")
         \/ req[q].pc \in {"inspect", "probe"} /\ Routing!To(q, "resolve")
         \/ req[q].pc = "upstream" /\ req[q].address # None /\ Routing!To(q, "route")
         \/ req[q].pc = "route" /\ req[q].owner = req[q].at /\ Routing!To(q, "dial"),
         req[q].pc # "idle"
  PROVE  RouteInv'
<1>1. req[q] \in RouteRequest /\ req \in [GuestRequests -> RouteRequest] /\ Way(req[q])
  BY DEF RouteInv, RouteTypes, RouteWays
<1>2. PICK pc \in {"done", "lookup", "inspect", "resolve", "route", "dial"} :
        /\ req' = [req EXCEPT ![q].pc = pc]
        /\ \/ pc = "done"
           \/ req[q].pc = "proxy" /\ pc = "lookup"
           \/ req[q].pc = "failure" /\ pc = "inspect"
           \/ req[q].pc \in {"inspect", "probe"} /\ pc = "resolve"
           \/ req[q].pc = "upstream" /\ req[q].address # None /\ pc = "route"
           \/ req[q].pc = "route" /\ req[q].owner = req[q].at /\ pc = "dial"
  BY DEF Routing!To
<1>3. PICK r \in RouteRequest : r = [req[q] EXCEPT !.pc = pc]
  BY <1>1 DEF RouteRequest
<1>4. req' = [req EXCEPT ![q] = r]
  BY <1>1, <1>2, <1>3
<1>5. /\ r.pc = pc /\ r.sandbox = req[q].sandbox /\ r.at = req[q].at
      /\ r.address = req[q].address /\ r.owner = req[q].owner /\ r.reached = req[q].reached
      /\ r.ended = req[q].ended
  BY <1>1, <1>3 DEF RouteRequest
<1>6. Way(r)
  BY <1>1, <1>2, <1>5 DEF Way, Owned
<1>7. recorded' \in [Sandboxes -> Addresses \cup {None}]
  BY DEF RouteInv, RouteTypes
<1> QED
  BY <1>4, <1>6, <1>7, RouteRequestStep

\* A request arrives, and is turned away.
LEMMA RouteArrive ==
  ASSUME RouteInv, NEW q \in GuestRequests, NEW s \in Sandboxes, NEW g \in Gateways,
         Routing!Arrive(q, s, g)
  PROVE  RouteInv'
<1>1. UNCHANGED <<row, container, recorded>> /\ row[s].st # "none"
  BY DEF Routing!Arrive, Routing!HasRow
<1>2. PICK pc \in {"proxy", "lookup"} :
        req' = [req EXCEPT ![q] = [Routing!NoRequest EXCEPT !.pc = pc, !.sandbox = s, !.at = g]]
  BY DEF Routing!Arrive
<1>3. PICK r \in RouteRequest :
        r = [Routing!NoRequest EXCEPT !.pc = pc, !.sandbox = s, !.at = g]
  BY DEF Routing!NoRequest, RouteRequest
<1>4. r.pc = pc /\ r.sandbox = s /\ r.reached = None
  BY <1>3 DEF Routing!NoRequest
<1>5. Way(r)
  BY <1>1, <1>4 DEF Way, Owned
<1>6. row' \in [Sandboxes -> RouteRow] /\ recorded' \in [Sandboxes -> Addresses \cup {None}]
  BY <1>1 DEF RouteInv, RouteTypes
<1>7. /\ \A o \in Sandboxes :
           row'[o].gateway = row[o].gateway /\ (row'[o].st = "none" <=> row[o].st = "none")
      /\ \A o \in Sandboxes : recorded'[o] = recorded[o]
  BY <1>1
<1> QED
  BY <1>1, <1>2, <1>3, <1>5, <1>6, <1>7, RouteRequestStep

\* Denials, the proxy's look at the row, and the gateway's own look before it inspects.
LEMMA RouteLooks ==
  ASSUME Routing!RouteBounds, RouteInv, NEW q \in GuestRequests,
         Routing!Deny(q) \/ Routing!Proxy(q) \/ Routing!Failure(q) \/ Routing!Direct(q)
  PROVE  RouteInv'
<1>1. /\ UNCHANGED <<container, recorded>> /\ req[q].pc # "idle"
      /\ row' = Routing!MarkedLost(req[q].sandbox) \/ row' = row
      /\ \/ Routing!To(q, "done")
         \/ req[q].pc = "proxy" /\ Routing!To(q, "lookup")
         \/ req[q].pc = "failure" /\ Routing!To(q, "inspect")
         \/ req[q].pc = "route" /\ Routing!IsOwner(q) /\ Routing!To(q, "dial")
  BY DEF Routing!Deny, Routing!Proxy, Routing!Failure, Routing!Direct, Routing!Refuse
<1>2. req[q].sandbox \in Sandboxes /\ (req[q].pc = "route" => req[q].owner \in Gateways)
  BY <1>1 DEF RouteInv, RouteWays, RouteRecorded, Way, Owned
<1>4. req[q].pc = "route" /\ Routing!IsOwner(q) => req[q].owner = req[q].at
  BY <1>2 DEF Routing!IsOwner, Routing!RouteBounds
<1>3. /\ row' \in [Sandboxes -> RouteRow]
      /\ \A o \in Sandboxes :
           row'[o].gateway = row[o].gateway /\ (row'[o].st = "none" <=> row[o].st = "none")
  BY <1>1, <1>2, RouteLost
<1> QED
  BY <1>1, <1>3, <1>4, RouteTo

\* The owner is read off the row, and a gateway that does not own hands the request on.
LEMMA RouteOwner ==
  ASSUME RouteInv, NEW q \in GuestRequests, Routing!Lookup(q) \/ Routing!Forward(q)
  PROVE  RouteInv'
<1>1. UNCHANGED <<row, container, recorded>> /\ req[q].pc \in {"lookup", "route"}
  BY DEF Routing!Lookup, Routing!Forward
<1>2. req[q] \in RouteRequest /\ req \in [GuestRequests -> RouteRequest] /\ Way(req[q])
  BY DEF RouteInv, RouteTypes, RouteWays
<1>3. /\ row' \in [Sandboxes -> RouteRow] /\ recorded' \in [Sandboxes -> Addresses \cup {None}]
      /\ \A o \in Sandboxes :
           row'[o].gateway = row[o].gateway /\ (row'[o].st = "none" <=> row[o].st = "none")
      /\ \A o \in Sandboxes : recorded'[o] = recorded[o]
  BY <1>1 DEF RouteInv, RouteTypes
<1>4. CASE Routing!To(q, "done")
  BY <1>1, <1>3, <1>4, RouteTo
<1>5. CASE req[q].pc = "lookup" /\ ~Routing!To(q, "done")
  <2>1. req' = [req EXCEPT ![q].pc = "failure", ![q].owner = row[req[q].sandbox].gateway]
    BY <1>5 DEF Routing!Lookup, Routing!Forward, Routing!Refuse
  <2>2. row[req[q].sandbox].gateway \in Gateways \cup {None}
    BY <1>2, <1>5 DEF Way, RouteInv, RouteTypes, RouteRow
  <2>3. PICK r \in RouteRequest :
          r = [req[q] EXCEPT !.pc = "failure", !.owner = row[req[q].sandbox].gateway]
    BY <1>2, <2>2 DEF RouteRequest
  <2>4. req' = [req EXCEPT ![q] = r]
    BY <1>2, <2>1, <2>3
  <2>5. /\ r.pc = "failure" /\ r.sandbox = req[q].sandbox /\ r.reached = req[q].reached
        /\ r.owner = row[req[q].sandbox].gateway
    BY <1>2, <2>3 DEF RouteRequest
  <2>6. Way(r)
    BY <1>2, <1>5, <2>5 DEF Way, Owned
  <2> QED
    BY <1>1, <1>3, <2>4, <2>6, RouteRequestStep
<1>6. CASE req[q].pc = "route"
  <2>1. req' = [req EXCEPT ![q].pc = "lookup", ![q].at = req[q].owner]
    BY <1>6 DEF Routing!Lookup, Routing!Forward
  <2>2. PICK r \in RouteRequest : r = [req[q] EXCEPT !.pc = "lookup", !.at = req[q].owner]
    BY <1>2 DEF RouteRequest
  <2>3. req' = [req EXCEPT ![q] = r]
    BY <1>2, <2>1, <2>2
  <2>4. r.pc = "lookup" /\ r.sandbox = req[q].sandbox /\ r.reached = req[q].reached
    BY <1>2, <2>2 DEF RouteRequest
  <2>5. Way(r)
    BY <1>2, <1>6, <2>4 DEF Way, Owned
  <2> QED
    BY <1>1, <1>3, <2>3, <2>5, RouteRequestStep
<1> QED
  BY <1>1, <1>4, <1>5, <1>6

\* The address comes from the container.
LEMMA RouteInspect ==
  ASSUME RouteInv, NEW q \in GuestRequests, Routing!Inspect(q)
  PROVE  RouteInv'
<1>1. UNCHANGED <<row, container, recorded>> /\ req[q].pc = "inspect"
  BY DEF Routing!Inspect
<1>2. req[q] \in RouteRequest /\ req \in [GuestRequests -> RouteRequest] /\ Way(req[q])
  BY DEF RouteInv, RouteTypes, RouteWays
<1>3. /\ row' \in [Sandboxes -> RouteRow] /\ recorded' \in [Sandboxes -> Addresses \cup {None}]
      /\ \A o \in Sandboxes :
           row'[o].gateway = row[o].gateway /\ (row'[o].st = "none" <=> row[o].st = "none")
      /\ \A o \in Sandboxes : recorded'[o] = recorded[o]
  BY <1>1 DEF RouteInv, RouteTypes
<1>4. CASE Routing!To(q, "done") \/ Routing!To(q, "resolve")
  BY <1>1, <1>3, <1>4, RouteTo
<1>5. CASE ~(Routing!To(q, "done") \/ Routing!To(q, "resolve"))
  <2>1. req' = [req EXCEPT ![q].pc = "probe", ![q].address = container[req[q].sandbox].address]
    BY <1>5 DEF Routing!Inspect, Routing!Refuse
  <2>2. container[req[q].sandbox].address \in Addresses \cup {None}
    BY <1>1, <1>2 DEF Way, RouteInv, RouteTypes, RouteBox
  <2>3. PICK r \in RouteRequest :
          r = [req[q] EXCEPT !.pc = "probe", !.address = container[req[q].sandbox].address]
    BY <1>2, <2>2 DEF RouteRequest
  <2>4. req' = [req EXCEPT ![q] = r]
    BY <1>2, <2>1, <2>3
  <2>5. /\ r.pc = "probe" /\ r.sandbox = req[q].sandbox /\ r.reached = req[q].reached
        /\ r.owner = req[q].owner /\ r.address = container[req[q].sandbox].address
    BY <1>2, <2>3 DEF RouteRequest
  <2>6. Way(r)
    BY <1>1, <1>2, <2>5 DEF Way, Owned
  <2> QED
    BY <1>1, <1>3, <2>4, <2>6, RouteRequestStep
<1> QED
  BY <1>4, <1>5

\* An address that answers is recorded: while the container runs it is the container's.
LEMMA RouteProbe ==
  ASSUME RouteInv, NEW q \in GuestRequests, Routing!Probe(q)
  PROVE  RouteInv'
<1>1. /\ UNCHANGED <<row, container>> /\ req[q].pc = "probe"
      /\ Routing!To(q, "done") \/ Routing!To(q, "resolve")
      /\ recorded' \in {recorded, [recorded EXCEPT ![req[q].sandbox] = req[q].address]}
  BY DEF Routing!Probe, Routing!Refuse
<1>2. /\ req[q] \in RouteRequest /\ req \in [GuestRequests -> RouteRequest] /\ Way(req[q])
      /\ row \in [Sandboxes -> RouteRow] /\ recorded \in [Sandboxes -> Addresses \cup {None}]
  BY DEF RouteInv, RouteTypes, RouteWays
<1>3. CASE UNCHANGED recorded
  BY <1>1, <1>2, <1>3, RouteTo
<1>4. CASE recorded' = [recorded EXCEPT ![req[q].sandbox] = req[q].address]
  <2>1. PICK pc \in {"done", "resolve"} : req' = [req EXCEPT ![q].pc = pc]
    BY <1>1 DEF Routing!To
  <2>2. PICK r \in RouteRequest : r = [req[q] EXCEPT !.pc = pc]
    BY <1>2 DEF RouteRequest
  <2>3. req' = [req EXCEPT ![q] = r]
    BY <1>2, <2>1, <2>2
  <2>4. /\ r.pc = pc /\ r.sandbox = req[q].sandbox /\ r.owner = req[q].owner
        /\ r.reached = req[q].reached
    BY <1>2, <2>2 DEF RouteRequest
  <2>5. Way(r)
    BY <1>1, <1>2, <2>4 DEF Way, Owned
  <2>6. req[q].address \in Addresses \cup {None}
    BY <1>2 DEF RouteRequest
  <2>7. /\ recorded' \in [Sandboxes -> Addresses \cup {None}]
        /\ \A s \in Sandboxes :
             recorded'[s] = IF s = req[q].sandbox THEN req[q].address ELSE recorded[s]
    BY <1>2, <1>4, <2>6
  <2>8. \A s \in Sandboxes :
          \/ recorded'[s] = recorded[s]
          \/ /\ row[s].st # "none"
             /\ container[s].runs => recorded'[s] = container[s].address
    BY <1>1, <1>2, <2>7 DEF Way
  <2>9. /\ row' \in [Sandboxes -> RouteRow]
        /\ \A o \in Sandboxes :
             row'[o].gateway = row[o].gateway /\ (row'[o].st = "none" <=> row[o].st = "none")
    BY <1>1, <1>2
  <2> QED
    BY <1>1, <2>3, <2>5, <2>7, <2>8, <2>9, RouteRequestStep
<1> QED
  BY <1>1, <1>3, <1>4

\* The row is read, and with it the recorded address.
LEMMA RouteResolve ==
  ASSUME RouteInv, NEW q \in GuestRequests, Routing!Resolve(q)
  PROVE  RouteInv'
<1>1. UNCHANGED <<row, container, recorded>> /\ req[q].pc = "resolve"
  BY DEF Routing!Resolve
<1>2. /\ req[q] \in RouteRequest /\ req \in [GuestRequests -> RouteRequest] /\ Way(req[q])
  BY DEF RouteInv, RouteTypes, RouteWays
<1>3. /\ row' \in [Sandboxes -> RouteRow] /\ recorded' \in [Sandboxes -> Addresses \cup {None}]
      /\ \A o \in Sandboxes :
           row'[o].gateway = row[o].gateway /\ (row'[o].st = "none" <=> row[o].st = "none")
      /\ \A o \in Sandboxes : recorded'[o] = recorded[o]
  BY <1>1 DEF RouteInv, RouteTypes
<1>4. CASE Routing!To(q, "done")
  BY <1>1, <1>3, <1>4, RouteTo
<1>5. CASE ~Routing!To(q, "done")
  <2>1. req' = [req EXCEPT ![q].pc = "running", ![q].address = recorded[req[q].sandbox]]
    BY <1>5 DEF Routing!Resolve, Routing!Refuse
  <2>2. /\ req[q].sandbox \in Sandboxes /\ recorded[req[q].sandbox] \in Addresses \cup {None}
        /\ container[req[q].sandbox].runs =>
             recorded[req[q].sandbox] \in {None, container[req[q].sandbox].address}
    BY <1>1, <1>2 DEF Way, RouteInv, RouteTypes, RouteRecorded
  <2>3. PICK r \in RouteRequest :
          r = [req[q] EXCEPT !.pc = "running", !.address = recorded[req[q].sandbox]]
    BY <1>2, <2>2 DEF RouteRequest
  <2>4. req' = [req EXCEPT ![q] = r]
    BY <1>2, <2>1, <2>3
  <2>5. /\ r.pc = "running" /\ r.sandbox = req[q].sandbox /\ r.reached = req[q].reached
        /\ r.owner = req[q].owner /\ r.address = recorded[req[q].sandbox]
    BY <1>2, <2>3 DEF RouteRequest
  <2>6. Way(r)
    BY <1>1, <1>2, <2>2, <2>5 DEF Way, Owned
  <2> QED
    BY <1>1, <1>3, <2>4, <2>6, RouteRequestStep
<1> QED
  BY <1>4, <1>5

\* A sandbox that is found to run has a container, and the address that was recorded is its.
LEMMA RouteRunning ==
  ASSUME RouteInv, NEW q \in GuestRequests, Routing!Running(q)
  PROVE  RouteInv'
<1>1. UNCHANGED <<container, recorded>> /\ req[q].pc = "running"
      /\ (row' = Routing!MarkedLost(req[q].sandbox) \/ row' = row)
  BY DEF Routing!Running
<1>2. /\ req[q] \in RouteRequest /\ req \in [GuestRequests -> RouteRequest] /\ Way(req[q])
      /\ req[q].sandbox \in Sandboxes
  BY <1>1 DEF RouteInv, RouteTypes, RouteWays, Way
<1>3. /\ row' \in [Sandboxes -> RouteRow] /\ recorded' \in [Sandboxes -> Addresses \cup {None}]
      /\ \A o \in Sandboxes :
           row'[o].gateway = row[o].gateway /\ (row'[o].st = "none" <=> row[o].st = "none")
      /\ \A o \in Sandboxes : recorded'[o] = recorded[o]
  BY <1>1, <1>2, RouteLost DEF RouteInv, RouteTypes
<1>4. CASE Routing!To(q, "done")
  BY <1>1, <1>3, <1>4, RouteTo
<1>5. CASE ~Routing!To(q, "done")
  <2>1. /\ req' = [req EXCEPT ![q].pc = "upstream", ![q].ended = FALSE]
        /\ container[req[q].sandbox].runs
    BY <1>5 DEF Routing!Running, Routing!Refuse, Routing!IsRunning
  <2>2. PICK r \in RouteRequest : r = [req[q] EXCEPT !.pc = "upstream", !.ended = FALSE]
    BY <1>2 DEF RouteRequest
  <2>3. req' = [req EXCEPT ![q] = r]
    BY <1>2, <2>1, <2>2
  <2>4. /\ r.pc = "upstream" /\ r.sandbox = req[q].sandbox /\ r.reached = req[q].reached
        /\ r.owner = req[q].owner /\ r.address = req[q].address
    BY <1>2, <2>2 DEF RouteRequest
  <2>5. Way(r)
    BY <1>1, <1>2, <2>1, <2>4 DEF Way, Owned
  <2> QED
    BY <1>1, <1>3, <2>3, <2>5, RouteRequestStep
<1> QED
  BY <1>4, <1>5

\* The route has the container's address, inspected or recorded, if it has one.
LEMMA RouteUpstream ==
  ASSUME RouteInv, NEW q \in GuestRequests, Routing!Upstream(q)
  PROVE  RouteInv'
<1>1. UNCHANGED <<row, container, recorded>> /\ req[q].pc = "upstream"
  BY DEF Routing!Upstream
<1>2. /\ req[q] \in RouteRequest /\ req \in [GuestRequests -> RouteRequest] /\ Way(req[q])
      /\ req[q].sandbox \in Sandboxes
  BY <1>1 DEF RouteInv, RouteTypes, RouteWays, Way
<1>3. /\ row' \in [Sandboxes -> RouteRow] /\ recorded' \in [Sandboxes -> Addresses \cup {None}]
      /\ \A o \in Sandboxes :
           row'[o].gateway = row[o].gateway /\ (row'[o].st = "none" <=> row[o].st = "none")
      /\ \A o \in Sandboxes : recorded'[o] = recorded[o]
  BY <1>1 DEF RouteInv, RouteTypes
<1>4. CASE Routing!To(q, IF req[q].address = None THEN "done" ELSE "route")
  BY <1>1, <1>3, <1>4, RouteTo
<1>5. CASE /\ container[req[q].sandbox].runs
           /\ req' = [req EXCEPT ![q].pc = "route", ![q].address = container[req[q].sandbox].address]
  <2>1. container[req[q].sandbox].address \in Addresses \cup {None}
    BY <1>2 DEF RouteInv, RouteTypes, RouteBox
  <2>2. PICK r \in RouteRequest :
          r = [req[q] EXCEPT !.pc = "route", !.address = container[req[q].sandbox].address]
    BY <1>2, <2>1 DEF RouteRequest
  <2>3. req' = [req EXCEPT ![q] = r]
    BY <1>2, <1>5, <2>2
  <2>4. /\ r.pc = "route" /\ r.sandbox = req[q].sandbox /\ r.owner = req[q].owner
        /\ r.reached = req[q].reached /\ r.address = container[req[q].sandbox].address
    BY <1>2, <2>2 DEF RouteRequest
  <2>5. Way(r)
    BY <1>1, <1>2, <1>5, <2>4 DEF Way, Owned
  <2> QED
    BY <1>1, <1>3, <2>3, <2>5, RouteRequestStep
<1> QED
  BY <1>4, <1>5 DEF Routing!Upstream

\* Who serves at the address of a container that runs is its sandbox.
LEMMA RouteServing ==
  ASSUME RouteInv, NEW s \in Sandboxes, container[s].runs
  PROVE  Routing!Serving(row[s].gateway, container[s].address) \subseteq {s}
BY DEF RouteInv, RouteAddresses, Routing!Serving

\* The guest that is reached.
LEMMA RouteDial ==
  ASSUME RouteInv, NEW q \in GuestRequests, Routing!Dial(q)
  PROVE  RouteInv'
<1>1. UNCHANGED <<row, container, recorded>> /\ req[q].pc = "dial"
  BY DEF Routing!Dial
<1>2. /\ req[q] \in RouteRequest /\ req \in [GuestRequests -> RouteRequest] /\ Way(req[q])
  BY DEF RouteInv, RouteTypes, RouteWays
<1>3. /\ row' \in [Sandboxes -> RouteRow] /\ recorded' \in [Sandboxes -> Addresses \cup {None}]
      /\ \A o \in Sandboxes :
           row'[o].gateway = row[o].gateway /\ (row'[o].st = "none" <=> row[o].st = "none")
      /\ \A o \in Sandboxes : recorded'[o] = recorded[o]
  BY <1>1 DEF RouteInv, RouteTypes
<1> DEFINE S == Routing!Serving(req[q].at, req[q].address)
           who == IF S = {} THEN None ELSE CHOOSE s \in S : TRUE
<1>4. req' = [req EXCEPT ![q].pc = "done", ![q].reached = who]
  BY DEF Routing!Dial
<1>5. who = None \/ who \in S
  OBVIOUS
<1>6. who \in Sandboxes \cup {None}
  BY <1>5 DEF Routing!Serving
<1>7. who \in {None, req[q].sandbox} \/ req[q].ended
  <2>1. ASSUME ~req[q].ended
        PROVE  S \subseteq {req[q].sandbox}
    <3>1. /\ req[q].sandbox \in Sandboxes /\ container[req[q].sandbox].runs
          /\ req[q].address = container[req[q].sandbox].address
          /\ req[q].at = row[req[q].sandbox].gateway
      BY <1>1, <1>2, <2>1 DEF Way, Owned
    <3> QED
      BY <3>1, RouteServing
  <2> QED
    BY <1>5, <2>1
<1> HIDE DEF who, S
<1>8. PICK r \in RouteRequest : r = [req[q] EXCEPT !.pc = "done", !.reached = who]
  BY <1>2, <1>6 DEF RouteRequest
<1>9. req' = [req EXCEPT ![q] = r]
  BY <1>2, <1>4, <1>8
<1>10. /\ r.pc = "done" /\ r.sandbox = req[q].sandbox /\ r.reached = who
       /\ r.ended = req[q].ended
  BY <1>2, <1>8 DEF RouteRequest
<1>11. Way(r)
  BY <1>1, <1>2, <1>7, <1>10 DEF Way, Owned
<1> QED
  BY <1>1, <1>3, <1>9, <1>11, RouteRequestStep

\* At first there is no sandbox and no request.
LEMMA RouteInit ==
  ASSUME Routing!Init
  PROVE  RouteInv
<1>1. /\ [st |-> "none", gateway |-> None] \in RouteRow
      /\ Routing!NoContainer \in RouteBox /\ Routing!NoRequest \in RouteRequest
  BY DEF RouteRow, RouteBox, RouteRequest, Routing!NoContainer, Routing!NoRequest
<1>2. RouteTypes
  BY <1>1 DEF Routing!Init, RouteTypes
<1>3. RouteAddresses /\ RouteRecorded
  BY DEF Routing!Init, RouteAddresses, RouteRecorded, Routing!NoContainer
<1>4. RouteWays
  BY DEF Routing!Init, RouteWays, Way, Owned, Routing!NoRequest
<1> QED
  BY <1>2, <1>3, <1>4 DEF RouteInv

\* Addresses, records and requests of routes, always.
LEMMA AlwaysRouteInv == ASSUME Routing!RouteBounds PROVE Routing!Spec => []RouteInv
<1>1. Routing!Init => RouteInv
  BY RouteInit
<1>2. RouteInv /\ [Routing!Next]_Routing!vars => RouteInv'
  <2> SUFFICES ASSUME RouteInv, [Routing!Next]_Routing!vars PROVE RouteInv'
    OBVIOUS
  <2>1. CASE \E s \in Sandboxes, g \in Gateways, a \in Addresses : Routing!Create(s, g, a)
    BY <2>1, RouteCreate
  <2>2. CASE \E s \in Sandboxes : Routing!Serves(s) \/ Routing!Refresh(s)
    BY <2>2, RouteServes
  <2>3. CASE \/ \E s \in Sandboxes : Routing!Exits(s) \/ Routing!Delete(s)
             \/ \E g \in Gateways : Routing!Replace(g)
    BY <2>3, RouteEnd
  <2>4. CASE \E q \in GuestRequests, s \in Sandboxes, g \in Gateways : Routing!Arrive(q, s, g)
    BY <2>4, RouteArrive
  <2>5. CASE \E q \in GuestRequests :
               Routing!Deny(q) \/ Routing!Proxy(q) \/ Routing!Failure(q) \/ Routing!Direct(q)
    BY <2>5, RouteLooks
  <2>6. CASE \E q \in GuestRequests : Routing!Lookup(q) \/ Routing!Forward(q)
    BY <2>6, RouteOwner
  <2>7. CASE \E q \in GuestRequests : Routing!Inspect(q)
    BY <2>7, RouteInspect
  <2>8. CASE \E q \in GuestRequests : Routing!Probe(q)
    BY <2>8, RouteProbe
  <2>9. CASE \E q \in GuestRequests : Routing!Resolve(q)
    BY <2>9, RouteResolve
  <2>10. CASE \E q \in GuestRequests : Routing!Dial(q)
    BY <2>10, RouteDial
  <2>12. CASE \E q \in GuestRequests : Routing!Running(q) \/ Routing!Upstream(q)
    BY <2>12, RouteRunning, RouteUpstream
  <2>11. CASE UNCHANGED Routing!vars
    BY <2>11
    DEF Routing!vars, RouteInv, RouteTypes, RouteAddresses, RouteRecorded, RouteWays, Way, Owned
  <2> QED
    BY <2>1, <2>2, <2>3, <2>4, <2>5, <2>6, <2>7, <2>8, <2>9, <2>10, <2>11, <2>12
    DEF Routing!Next
<1> QED BY <1>1, <1>2, PTL DEF Routing!Spec

\* A request that reaches a guest reaches that of its own sandbox, for any number of
\* gateways, sandboxes and addresses, whatever fails on the way: addresses are recorded,
\* probed and dialled at different times, but a sandbox has one in its life. The exception is
\* a container that ended after the api-service had last found it to run
\* (handlers/internal_routing.py, runtime-gateway).
THEOREM RoutesToItsOwn ==
  ASSUME Routing!RouteBounds PROVE Routing!Spec => []Routing!ReachesItsOwn
<1>1. RouteInv => Routing!ReachesItsOwn
  BY DEF RouteInv, RouteWays, Way, Routing!ReachesItsOwn
<1> QED BY <1>1, AlwaysRouteInv, PTL

-----------------------------------------------------------------------------
(* The containers of a gateway *)

HostThread ==
  [op : Host!Ops \cup {None}, n : Names \cup {None},
   pc : {"idle", "ensure", "call", "clean", "cleanLost", "remove"}, try : Nat]
HostEngine ==
  /\ box \in [Names -> {"none", "created", "running", "paused", "exited"}]
  /\ late \in [Names -> BOOLEAN]
  /\ unclean \in [Names -> BOOLEAN] /\ ghost \in [Names -> BOOLEAN]
HostTypes ==
  /\ HostEngine /\ thread \in [Callers -> HostThread]
  /\ held \in [Names -> {"fresh", "making", "made", "wanted", "killed", "lost"}]

\* Is the thread doing this operation?
Doing(t, op) == thread[t].pc # "idle" /\ thread[t].op = op
\* What a thread is at is known to the caller: who makes a container makes it alone, and
\* only one kills it.
HostCallers ==
  \A t \in Callers :
    /\ thread[t].pc # "idle" => thread[t].n \in Names
    /\ Doing(t, "create") => held[thread[t].n] = "making"
    /\ Doing(t, "kill") => held[thread[t].n] = "wanted"
    /\ thread[t].pc \in {"clean", "cleanLost"} => thread[t].op = "create"
    /\ thread[t].pc = "remove" => thread[t].op = "kill"
HostAlone ==
  \A t, u \in Callers, op \in {"create", "kill"} :
    Doing(t, op) /\ Doing(u, op) /\ thread[t].n = thread[u].n => t = u
\* Nothing has the name before a container is asked for, and what has it before an attempt,
\* or after a create or a kill has ended, is excused.
Excused(n) == box[n] = "none" \/ unclean[n] \/ ghost[n]
HostFresh == \A n \in Names : held[n] = "fresh" => box[n] = "none" /\ ~late[n]
HostTried ==
  \A t \in Callers :
    Doing(t, "create") /\ thread[t].pc \in {"ensure", "call"} => Excused(thread[t].n)
HostLeft == \A n \in Names : held[n] \in {"lost", "killed"} => Excused(n)

HostInv == HostTypes /\ HostCallers /\ HostAlone /\ HostFresh /\ HostTried /\ HostLeft

\* What a step of a thread may do to the engine: only a create makes a container that is not
\* excused, and nothing is done to a name that was not asked for.
HostWorld(t) ==
  /\ HostEngine'
  /\ \A m \in Names : (m # thread[t].n \/ ~Doing(t, "create")) /\ Excused(m) => Excused(m)'
  /\ \A m \in Names : held[m] = "fresh" => box'[m] = "none" /\ ~late'[m]

\* A step of a thread that is at something, with what it leaves to the caller.
LEMMA HostStep ==
  ASSUME HostInv, NEW t \in Callers, thread[t].pc # "idle", HostWorld(t),
         NEW n \in Names, n = thread[t].n,
         NEW r \in HostThread, thread' = [thread EXCEPT ![t] = r],
         NEW h \in {"making", "made", "wanted", "killed", "lost", "fresh"},
         held' = [held EXCEPT ![n] = h],
         r.pc = "idle" \/ (r.op = thread[t].op /\ r.n = n /\ h = held[n]),
         r.pc \in {"clean", "cleanLost"} => r.op = "create",
         r.pc = "remove" => r.op = "kill",
         h # held[n] => (Doing(t, "create") \/ Doing(t, "kill")) /\ h # "fresh",
         r.op = "create" /\ r.pc \in {"ensure", "call"} => Excused(n)',
         h # held[n] /\ h \in {"lost", "killed"} => Excused(n)'
  PROVE  HostInv'
<1>0. thread \in [Callers -> HostThread]
  BY DEF HostInv, HostCallers, HostTypes
<1>1. /\ thread'[t] = r /\ \A u \in Callers \ {t} : thread'[u] = thread[u]
      /\ thread' \in [Callers -> HostThread]
  BY <1>0
<1>2. /\ held'[n] = h /\ \A m \in Names \ {n} : held'[m] = held[m]
      /\ held' \in [Names -> {"fresh", "making", "made", "wanted", "killed", "lost"}]
  BY <1>0 DEF HostInv, HostTypes
<1>3. HostTypes'
  BY <1>1, <1>2 DEF HostTypes, HostWorld
<1>4. ASSUME NEW u \in Callers \ {t}, Doing(u, "create") \/ Doing(u, "kill"), thread[u].n = n
      PROVE  h = held[n]
  <2>1. ASSUME NEW op \in {"create", "kill"}, Doing(t, op), Doing(u, op)
        PROVE  FALSE
    BY <1>4, <2>1 DEF HostInv, HostAlone
  <2>2. ASSUME Doing(t, "create") \/ Doing(t, "kill")
        PROVE  FALSE
    BY <1>0, <1>4, <2>1, <2>2 DEF HostInv, HostCallers
  <2> QED
    BY <2>2
<1>5. HostCallers'
  <2>1. ASSUME NEW u \in Callers \ {t}
        PROVE  /\ thread'[u].pc # "idle" => thread'[u].n \in Names
               /\ thread'[u].pc # "idle" /\ thread'[u].op = "create" => held'[thread'[u].n] = "making"
               /\ thread'[u].pc # "idle" /\ thread'[u].op = "kill" => held'[thread'[u].n] = "wanted"
               /\ thread'[u].pc \in {"clean", "cleanLost"} => thread'[u].op = "create"
               /\ thread'[u].pc = "remove" => thread'[u].op = "kill"
    BY <1>1, <1>2, <1>4 DEF HostInv, HostCallers, Doing
  <2>2. /\ thread'[t].pc # "idle" => thread'[t].n \in Names
        /\ thread'[t].pc # "idle" /\ thread'[t].op = "create" => held'[thread'[t].n] = "making"
        /\ thread'[t].pc # "idle" /\ thread'[t].op = "kill" => held'[thread'[t].n] = "wanted"
        /\ thread'[t].pc \in {"clean", "cleanLost"} => thread'[t].op = "create"
        /\ thread'[t].pc = "remove" => thread'[t].op = "kill"
    BY <1>0, <1>1, <1>2 DEF HostInv, HostCallers, Doing
  <2> QED
    BY <2>1, <2>2 DEF HostCallers, Doing
<1>6. HostAlone'
  <2>1. \A u \in Callers, op \in {"create", "kill"} :
          thread'[u].pc # "idle" /\ thread'[u].op = op =>
            thread[u].pc # "idle" /\ thread[u].op = op /\ thread[u].n = thread'[u].n
    BY <1>1
  <2> QED
    BY <2>1 DEF HostInv, HostAlone, Doing
<1>7. HostFresh'
  <2>1. \A m \in Names : held'[m] = "fresh" => held[m] = "fresh"
    BY <1>2
  <2> QED
    BY <2>1 DEF HostFresh, HostWorld
<1>8. HostTried'
  <2>1. ASSUME NEW u \in Callers, thread'[u].pc # "idle", thread'[u].op = "create",
               thread'[u].pc \in {"ensure", "call"}, NEW m, m = thread'[u].n
        PROVE  Excused(m)'
    <3>1. CASE u = t
      BY <1>1, <2>1, <3>1
    <3>2. CASE u # t
      <4>1. /\ Doing(u, "create") /\ thread[u].pc \in {"ensure", "call"} /\ m = thread[u].n
        BY <1>1, <2>1, <3>2 DEF Doing
      <4>2. Excused(m) /\ m \in Names
        BY <4>1 DEF HostInv, HostTried, HostCallers, Doing
      <4>3. m # n \/ ~Doing(t, "create")
        BY <3>2, <4>1 DEF HostInv, HostAlone
      <4> QED
        BY <4>2, <4>3 DEF HostWorld
    <3> QED
      BY <3>1, <3>2
  <2> QED
    BY <2>1 DEF HostTried, Doing, Excused
<1>9. HostLeft'
  <2>1. ASSUME NEW m \in Names, held'[m] \in {"lost", "killed"}
        PROVE  Excused(m)'
    <3>1. CASE m = n /\ h # held[n]
      BY <1>2, <2>1, <3>1
    <3>2. CASE ~(m = n /\ h # held[n])
      <4>1. held[m] = held'[m]
        BY <1>2, <3>2
      <4>2. Excused(m)
        BY <2>1, <4>1 DEF HostInv, HostLeft
      <4>3. m # n \/ ~Doing(t, "create")
        BY <2>1, <4>1 DEF HostInv, HostCallers
      <4> QED
        BY <4>2, <4>3 DEF HostWorld
    <3> QED
      BY <3>1, <3>2
  <2> QED
    BY <2>1 DEF HostLeft
<1> QED
  BY <1>3, <1>5, <1>6, <1>7, <1>8, <1>9 DEF HostInv

\* A thread that is at something is about a name, and may be done.
LEMMA HostThreads ==
  ASSUME HostInv, NEW t \in Callers, thread[t].pc # "idle"
  PROVE  /\ thread[t] \in HostThread /\ thread[t].n \in Names
         /\ Host!Idle \in HostThread /\ Host!Idle.pc = "idle"
BY DEF HostInv, HostTypes, HostCallers, HostThread, Host!Idle

\* What the caller knows, written as a step of HostStep has it.
LEMMA HostSame ==
  ASSUME HostInv, UNCHANGED held, NEW n \in Names
  PROVE  held' = [held EXCEPT ![n] = held[n]]
BY DEF HostInv, HostTypes

\* A thread goes on with what it is at.
LEMMA HostGoes ==
  ASSUME HostInv, NEW t \in Callers, thread[t].pc # "idle", HostWorld(t),
         NEW n \in Names, n = thread[t].n, held' = [held EXCEPT ![n] = held[n]],
         NEW pc \in {"call", "clean", "cleanLost", "remove"}, Host!Goto(t, pc),
         pc \in {"clean", "cleanLost"} => thread[t].op = "create",
         pc = "remove" => thread[t].op = "kill",
         pc = "call" => thread[t].pc = "ensure" /\ UNCHANGED <<box, unclean, ghost>>
  PROVE  HostInv'
<1>1. thread[t] \in HostThread
  BY HostThreads
<1>2. PICK r \in HostThread : r = [thread[t] EXCEPT !.pc = pc]
  BY <1>1 DEF HostThread
<1>3. r.pc = pc /\ r.op = thread[t].op /\ r.n = n
  BY <1>1, <1>2 DEF HostThread
<1>4. thread' = [thread EXCEPT ![t] = r]
  BY <1>2 DEF Host!Goto, HostInv, HostTypes
<1>5. PICK h \in {"making", "made", "wanted", "killed", "lost", "fresh"} : h = held[n]
  BY DEF HostInv, HostTypes
<1>6. held' = [held EXCEPT ![n] = h]
  BY <1>5
<1>7. r.op = "create" /\ r.pc \in {"ensure", "call"} => Excused(n)'
  BY <1>3 DEF HostInv, HostTried, Doing, Excused
<1>8. /\ r.pc \in {"clean", "cleanLost"} => r.op = "create"
      /\ r.pc = "remove" => r.op = "kill"
  BY <1>3
<1> QED
  BY <1>3, <1>4, <1>5, <1>6, <1>7, <1>8, HostStep, ZenonT(60)

\* A thread is done, and the caller knows what it knew, or what came out.
LEMMA HostEnds ==
  ASSUME HostInv, NEW t \in Callers, thread[t].pc # "idle", HostWorld(t), Host!End(t),
         NEW n \in Names, n = thread[t].n,
         \/ UNCHANGED held
         \/ /\ Doing(t, "create") /\ Host!Hold(t, "made")
         \/ /\ Doing(t, "create") /\ Host!Hold(t, "lost") /\ Excused(n)'
         \/ /\ Doing(t, "kill") /\ Host!Hold(t, "killed") /\ Excused(n)'
  PROVE  HostInv'
<1>1. Host!Idle \in HostThread /\ Host!Idle.pc = "idle"
  BY HostThreads
<1>2. PICK r \in HostThread : r = Host!Idle /\ r.pc = "idle"
  BY <1>1
<1>3. thread' = [thread EXCEPT ![t] = r]
  BY <1>2 DEF Host!End
<1>4. held[n] \in {"making", "made", "wanted", "killed", "lost", "fresh"}
  BY DEF HostInv, HostTypes
<1>5. PICK h \in {"making", "made", "wanted", "killed", "lost", "fresh"} :
        /\ held' = [held EXCEPT ![n] = h]
        /\ h # held[n] =>
             /\ Doing(t, "create") \/ Doing(t, "kill")
             /\ h # "fresh"
             /\ h \in {"lost", "killed"} => Excused(n)'
  <2>1. CASE UNCHANGED held
    <3>1. held' = [held EXCEPT ![n] = held[n]]
      BY <2>1 DEF HostInv, HostTypes
    <3> QED
      BY <1>4, <3>1
  <2>2. CASE held' # held
    BY <2>2 DEF Host!Hold, Host!N
  <2> QED
    BY <2>1, <2>2
<1> QED
  BY <1>2, <1>3, <1>5, HostStep

\* A failed attempt: the operation fails, or begins again.
LEMMA HostFails ==
  ASSUME HostInv, NEW t \in Callers, thread[t].pc # "idle", HostWorld(t),
         Host!Fail(t) \/ Host!Again(t),
         NEW n \in Names, n = thread[t].n, Doing(t, "create") => Excused(n)'
  PROVE  HostInv'
<1>1. CASE Host!Fail(t)
  <2>1. CASE thread[t].op = "create"
    <3>1. Doing(t, "create") /\ Host!Hold(t, "lost") /\ Host!End(t)
      BY <1>1, <2>1 DEF Host!Fail, Host!Failed, Doing
    <3> QED
      BY <3>1, HostEnds
  <2>2. CASE thread[t].op # "create"
    <3>1. UNCHANGED held /\ Host!End(t)
      BY <1>1, <2>2 DEF Host!Fail, Host!Failed
    <3> QED
      BY <3>1, HostEnds
  <2> QED
    BY <2>1, <2>2
<1>2. CASE ~Host!Fail(t)
  <2>1. /\ thread' = [thread EXCEPT ![t].pc = "ensure", ![t].try = @ + 1] /\ UNCHANGED held
    BY <1>2 DEF Host!Again
  <2>2. thread[t] \in HostThread
    BY HostThreads
  <2>3. PICK r \in HostThread : r = [thread[t] EXCEPT !.pc = "ensure", !.try = @ + 1]
    <3>1. thread[t].try + 1 \in Nat
      BY <2>2 DEF HostThread
    <3> QED
      BY <2>2, <3>1 DEF HostThread
  <2>4. r.pc = "ensure" /\ r.op = thread[t].op /\ r.n = n
    BY <2>2, <2>3 DEF HostThread
  <2>5. thread' = [thread EXCEPT ![t] = r]
    BY <2>1, <2>3 DEF HostInv, HostTypes
  <2>6. PICK h \in {"making", "made", "wanted", "killed", "lost", "fresh"} : h = held[n]
    BY DEF HostInv, HostTypes
  <2>7. held' = [held EXCEPT ![n] = h]
    BY <2>1, <2>6 DEF HostInv, HostTypes
  <2>8. r.op = "create" /\ r.pc \in {"ensure", "call"} => Excused(n)'
    BY <2>4 DEF Doing
  <2> QED
    BY <2>4, <2>5, <2>6, <2>7, <2>8, HostStep
<1> QED
  BY <1>1, <1>2

\* Where the engine is left alone.
LEMMA HostQuiet ==
  ASSUME HostInv, NEW t, UNCHANGED <<box, late, unclean, ghost>>
  PROVE  HostWorld(t)
BY DEF HostInv, HostTypes, HostEngine, HostFresh, HostWorld, Excused

\* Where the engine changes one container that was asked for, which is excused or not there.
LEMMA HostTouches ==
  ASSUME HostInv, NEW t, NEW n \in Names, n = thread[t].n, held[n] # "fresh",
         NEW st \in {"none", "created", "running", "paused", "exited"},
         box' = [box EXCEPT ![n] = st],
         box[n] # "none" \/ st = "none" \/ Doing(t, "create"), UNCHANGED <<late, unclean, ghost>>
  PROVE  HostWorld(t) /\ box'[n] = st
<1>1. HostEngine /\ HostFresh
  BY DEF HostInv, HostTypes
<1>2. /\ box' \in [Names -> {"none", "created", "running", "paused", "exited"}]
      /\ box'[n] = st /\ \A m \in Names \ {n} : box'[m] = box[m]
  BY <1>1 DEF HostEngine
<1>3. HostEngine'
  BY <1>1, <1>2 DEF HostEngine
<1>4. \A m \in Names : (m # n \/ ~Doing(t, "create")) /\ Excused(m) => Excused(m)'
  BY <1>2 DEF Excused
<1>5. \A m \in Names : held[m] = "fresh" => box'[m] = "none" /\ ~late'[m]
  BY <1>1, <1>2 DEF HostFresh
<1> QED
  BY <1>2, <1>3, <1>4, <1>5 DEF HostWorld

\* A call begins.
LEMMA HostBegin ==
  ASSUME HostInv, NEW t \in Callers, NEW op \in Host!Ops, NEW n \in Names, Host!Begin(t, op, n)
  PROVE  HostInv'
<1>1. /\ UNCHANGED <<box, late, unclean, ghost>> /\ thread[t] = Host!Idle
      /\ thread' = [thread EXCEPT ![t] = [op |-> op, n |-> n, pc |-> "ensure", try |-> 0]]
  BY DEF Host!Begin, Host!History
<1>2. PICK r \in HostThread : r = [op |-> op, n |-> n, pc |-> "ensure", try |-> 0]
  BY DEF HostThread
<1>3. /\ thread' \in [Callers -> HostThread] /\ thread'[t] = r
      /\ \A u \in Callers \ {t} : thread'[u] = thread[u]
  BY <1>1, <1>2 DEF HostInv, HostTypes
<1>4. r.op = op /\ r.n = n /\ r.pc = "ensure"
  BY <1>2
<1>5. PICK h \in {"fresh", "making", "made", "wanted", "killed", "lost"} :
        /\ held' = [held EXCEPT ![n] = h]
        /\ op = "create" => held[n] = "fresh" /\ h = "making"
        /\ op = "kill" => /\ held[n] \in {"made", "wanted"} /\ h = "wanted"
                          /\ \A u \in Callers : thread[u].n = n => thread[u].op # "kill"
        /\ op \notin {"create", "kill"} => h = held[n]
  <2>1. held[n] \in {"fresh", "making", "made", "wanted", "killed", "lost"}
    BY DEF HostInv, HostTypes
  <2>2. UNCHANGED held => held' = [held EXCEPT ![n] = held[n]]
    BY DEF HostInv, HostTypes
  <2>3. CASE op = "create"
    BY <2>3 DEF Host!Begin
  <2>4. CASE op = "kill"
    BY <2>4 DEF Host!Begin
  <2>5. CASE op \notin {"create", "kill"}
    <3>1. UNCHANGED held
      BY <2>5 DEF Host!Begin
    <3> QED
      BY <2>1, <2>2, <2>5, <3>1
  <2> QED
    BY <2>3, <2>4, <2>5
<1>6. /\ held' \in [Names -> {"fresh", "making", "made", "wanted", "killed", "lost"}]
      /\ held'[n] = h /\ \A m \in Names \ {n} : held'[m] = held[m]
  BY <1>5 DEF HostInv, HostTypes
<1>7. HostTypes'
  BY <1>1, <1>3, <1>6 DEF HostInv, HostTypes, HostEngine
<1>8. ASSUME NEW u \in Callers, Doing(u, "create") \/ Doing(u, "kill"), thread[u].n = n
      PROVE  op \notin {"create", "kill"}
  BY <1>5, <1>8 DEF HostInv, HostCallers, Doing
<1>9. HostCallers'
  <2>1. ASSUME NEW u \in Callers \ {t}
        PROVE  /\ thread'[u].pc # "idle" => thread'[u].n \in Names
               /\ thread'[u].pc # "idle" /\ thread'[u].op = "create" => held'[thread'[u].n] = "making"
               /\ thread'[u].pc # "idle" /\ thread'[u].op = "kill" => held'[thread'[u].n] = "wanted"
               /\ thread'[u].pc \in {"clean", "cleanLost"} => thread'[u].op = "create"
               /\ thread'[u].pc = "remove" => thread'[u].op = "kill"
    BY <1>3, <1>5, <1>6, <1>8 DEF HostInv, HostCallers, Doing
  <2>2. /\ thread'[t].pc # "idle" => thread'[t].n \in Names
        /\ thread'[t].pc # "idle" /\ thread'[t].op = "create" => held'[thread'[t].n] = "making"
        /\ thread'[t].pc # "idle" /\ thread'[t].op = "kill" => held'[thread'[t].n] = "wanted"
        /\ thread'[t].pc \in {"clean", "cleanLost"} => thread'[t].op = "create"
        /\ thread'[t].pc = "remove" => thread'[t].op = "kill"
    BY <1>3, <1>4, <1>5, <1>6
  <2> QED
    BY <2>1, <2>2 DEF HostCallers, Doing
<1>10. HostAlone'
  <2>1. ASSUME NEW u \in Callers \ {t}, NEW o \in {"create", "kill"},
               thread'[u].pc # "idle", thread'[u].op = o, op = o
        PROVE  thread'[u].n # n
    BY <1>3, <1>8, <2>1 DEF Doing
  <2>2. \A u, v \in Callers \ {t}, o \in {"create", "kill"} :
          thread'[u].pc # "idle" /\ thread'[u].op = o /\ thread'[v].pc # "idle"
            /\ thread'[v].op = o /\ thread'[u].n = thread'[v].n => u = v
    BY <1>3 DEF HostInv, HostAlone, Doing
  <2> QED
    BY <1>3, <1>4, <2>1, <2>2 DEF HostAlone, Doing
<1>11. HostFresh'
  <2>1. ASSUME NEW m \in Names, held'[m] = "fresh" PROVE held[m] = "fresh"
    BY <1>5, <1>6, <2>1
  <2> QED
    BY <1>1, <2>1 DEF HostInv, HostFresh
<1>12. HostTried'
  <2>1. op = "create" => Excused(n)
    BY <1>5 DEF HostInv, HostFresh, Excused
  <2>2. \A m \in Names : Excused(m) => Excused(m)'
    BY <1>1 DEF Excused
  <2>3. ASSUME NEW u \in Callers, thread'[u].pc # "idle", thread'[u].op = "create",
               thread'[u].pc \in {"ensure", "call"}, NEW m, m = thread'[u].n
        PROVE  Excused(m) /\ m \in Names
    BY <1>3, <1>4, <2>1, <2>3 DEF HostInv, HostTried, HostCallers, Doing
  <2> QED
    BY <2>2, <2>3 DEF HostTried, Doing, Excused
<1>13. HostLeft'
  <2>1. ASSUME NEW m \in Names, held'[m] \in {"lost", "killed"}
        PROVE  held[m] \in {"lost", "killed"}
    BY <1>5, <1>6, <2>1
  <2> QED
    BY <1>1, <2>1 DEF HostInv, HostLeft, Excused
<1> QED
  BY <1>7, <1>9, <1>10, <1>11, <1>12, <1>13 DEF HostInv
\* A step of the engine's own: it makes no container that is not excused.
LEMMA HostOthers ==
  ASSUME HostInv, UNCHANGED <<thread, held>>, HostEngine',
         \A m \in Names : Excused(m) => Excused(m)',
         \A m \in Names : held[m] = "fresh" => box'[m] = "none" /\ ~late'[m]
  PROVE  HostInv'
<1>1. HostTypes' /\ HostCallers' /\ HostAlone'
  BY DEF HostInv, HostTypes, HostCallers, HostAlone, Doing
<1>2. HostFresh'
  BY DEF HostFresh
<1>3. HostTried'
  <2>1. ASSUME NEW u \in Callers, thread[u].pc # "idle", thread[u].op = "create",
               thread[u].pc \in {"ensure", "call"}, NEW m, m = thread[u].n
        PROVE  Excused(m)'
    BY <2>1 DEF HostInv, HostTried, HostCallers, Doing
  <2> QED
    BY <2>1 DEF HostTried, Doing, Excused
<1>4. HostLeft'
  <2>1. ASSUME NEW m \in Names, held[m] \in {"lost", "killed"}
        PROVE  Excused(m)'
    BY <2>1 DEF HostInv, HostLeft
  <2> QED
    BY <2>1 DEF HostLeft, Excused
<1> QED
  BY <1>1, <1>2, <1>3, <1>4 DEF HostInv

\* The client is made, or the attempt is spent.
LEMMA HostEnsures ==
  ASSUME HostInv, NEW t \in Callers, Host!Ensure(t) \/ Host!EnsureFails(t)
  PROVE  HostInv'
<1>1. /\ thread[t].pc = "ensure" /\ UNCHANGED <<box, late, unclean, ghost>>
  BY DEF Host!Ensure, Host!EnsureFails, Host!History
<1>2. HostWorld(t)
  BY <1>1, HostQuiet
<1>3. PICK n \in Names : n = thread[t].n
  BY <1>1, HostThreads
<1>4. CASE Host!Ensure(t)
  <2>1. held' = [held EXCEPT ![n] = held[n]]
    BY <1>4, HostSame DEF Host!Ensure
  <2> QED
    BY <1>1, <1>2, <1>3, <1>4, <2>1, HostGoes DEF Host!Ensure
<1>5. CASE Host!EnsureFails(t)
  <2>1. Doing(t, "create") => Excused(n)'
    BY <1>1, <1>3 DEF HostInv, HostTried, Excused
  <2> QED
    BY <1>1, <1>2, <1>3, <1>5, <2>1, HostFails DEF Host!EnsureFails
<1> QED
  BY <1>4, <1>5

\* There is no client, or the call fails before the engine did anything.
LEMMA HostCallFails ==
  ASSUME HostInv, NEW t \in Callers, Host!NoClient(t) \/ Host!CallFails(t)
  PROVE  HostInv'
<1>1. /\ thread[t].pc \in {"call", "remove"} /\ UNCHANGED <<box, late, unclean, ghost>>
  BY DEF Host!NoClient, Host!CallFails, Host!History
<1>2. HostWorld(t)
  BY <1>1, HostQuiet
<1>3. PICK n \in Names : n = thread[t].n
  BY <1>1, HostThreads
<1>4. CASE thread[t].op = "create"
  <2>1. UNCHANGED held /\ (Host!Goto(t, "clean") \/ Host!Goto(t, "cleanLost"))
    BY <1>4 DEF Host!NoClient, Host!CallFails
  <2>2. held' = [held EXCEPT ![n] = held[n]]
    BY <2>1, HostSame
  <2> QED
    BY <1>1, <1>2, <1>3, <1>4, <2>1, <2>2, HostGoes
<1>5. CASE thread[t].op # "create"
  <2>1. Host!Fail(t) \/ Host!Again(t)
    BY <1>5 DEF Host!NoClient, Host!CallFails
  <2>2. ~Doing(t, "create")
    BY <1>5 DEF Doing
  <2> QED
    BY <1>1, <1>2, <1>3, <2>1, <2>2, HostFails
<1> QED
  BY <1>4, <1>5

\* The engine runs a container, or does not start it, or does not answer.
LEMMA HostRuns ==
  ASSUME HostInv, NEW t \in Callers,
         Host!Run(t) \/ Host!RunNotStarted(t) \/ Host!RunUnanswered(t)
  PROVE  HostInv'
<1>1. /\ thread[t].pc = "call" /\ thread[t].op = "create" /\ UNCHANGED <<unclean, ghost>>
  BY DEF Host!Run, Host!RunNotStarted, Host!RunUnanswered, Host!In, Host!History
<1>2. PICK n \in Names : n = thread[t].n
  BY <1>1, HostThreads
<1>3. Doing(t, "create") /\ held[n] = "making"
  BY <1>1, <1>2 DEF HostInv, HostCallers, Doing
<1>4. CASE box' = [box EXCEPT ![n] = "running"] /\ Host!Hold(t, "made") /\ Host!End(t) /\ UNCHANGED late
  <2>1. HostWorld(t)
    BY <1>1, <1>2, <1>3, <1>4, HostTouches
  <2> QED
    BY <1>1, <1>2, <1>3, <1>4, <2>1, HostEnds
<1>5. CASE /\ Host!Goto(t, "clean") \/ Host!Goto(t, "cleanLost")
           /\ UNCHANGED <<late, held>>
           /\ \/ UNCHANGED box
              \/ \E st \in {"running", "created"} : box' = [box EXCEPT ![n] = st]
  <2>1. CASE UNCHANGED box
    <3>1. HostWorld(t) /\ held' = [held EXCEPT ![n] = held[n]]
      BY <1>1, <1>5, <2>1, HostQuiet, HostSame
    <3> QED
      BY <1>1, <1>2, <1>5, <3>1, HostGoes
  <2>2. ASSUME NEW st \in {"running", "created"}, box' = [box EXCEPT ![n] = st]
        PROVE  HostInv'
    <3>1. HostWorld(t)
      BY <1>1, <1>2, <1>3, <1>5, <2>2, HostTouches
    <3>2. held' = [held EXCEPT ![n] = held[n]]
      BY <1>5, HostSame
    <3> QED
      BY <1>1, <1>2, <1>5, <3>1, <3>2, HostGoes
  <2> QED
    BY <1>5, <2>1, <2>2
<1>6. CASE /\ Host!Goto(t, "cleanLost") /\ UNCHANGED <<box, held>>
           /\ late' = [late EXCEPT ![n] = TRUE]
  <2>1. HostEngine /\ HostFresh
    BY DEF HostInv, HostTypes
  <2>2. HostEngine' /\ \A m \in Names \ {n} : late'[m] = late[m]
    BY <1>1, <1>6, <2>1 DEF HostEngine
  <2>3. HostWorld(t)
    BY <1>1, <1>3, <1>6, <2>1, <2>2 DEF HostWorld, HostFresh, Excused
  <2>4. held' = [held EXCEPT ![n] = held[n]]
    BY <1>6, HostSame
  <2> QED
    BY <1>1, <1>2, <1>6, <2>3, <2>4, HostGoes
<1> QED
  BY <1>2, <1>4, <1>5, <1>6
  DEF Host!Run, Host!RunNotStarted, Host!RunUnanswered, Host!History, Host!N

\* What has the name of a failed run is removed, or the clean-up fails and is known to have.
LEMMA HostCleans ==
  ASSUME HostInv, NEW t \in Callers, Host!Clean(t) \/ Host!CleanFails(t)
  PROVE  HostInv'
<1>1. /\ thread[t].pc \in {"clean", "cleanLost"} /\ UNCHANGED <<late, ghost>>
      /\ Host!Fail(t) \/ Host!Again(t)
  BY DEF Host!Clean, Host!CleanFails
<1>2. PICK n \in Names : n = thread[t].n
  BY <1>1, HostThreads
<1>3. Doing(t, "create") /\ held[n] = "making"
  BY <1>1, <1>2 DEF HostInv, HostCallers, Doing
<1>4. HostEngine /\ HostFresh
  BY DEF HostInv, HostTypes
<1>5. /\ HostEngine' /\ Excused(n)'
      /\ \A m \in Names \ {n} : box'[m] = box[m] /\ unclean'[m] = unclean[m]
  <2>1. CASE Host!Clean(t)
    <3>1. /\ box' = [box EXCEPT ![n] = "none"] /\ unclean' = [unclean EXCEPT ![n] = FALSE]
      BY <1>2, <2>1 DEF Host!Clean, Host!Cleaned, Host!N
    <3> QED
      BY <1>1, <1>4, <3>1 DEF HostEngine, Excused
  <2>2. CASE Host!CleanFails(t)
    <3>1. /\ UNCHANGED box /\ unclean' = [unclean EXCEPT ![n] = box[n] # "none"]
      BY <1>2, <2>2 DEF Host!CleanFails, Host!N
    <3> QED
      BY <1>1, <1>4, <3>1 DEF HostEngine, Excused
  <2> QED
    BY <2>1, <2>2
<1>6. HostWorld(t)
  BY <1>1, <1>3, <1>4, <1>5 DEF HostWorld, HostFresh, Excused
<1> QED
  BY <1>1, <1>2, <1>5, <1>6, HostFails

\* A kill: answered or not.
LEMMA HostKills ==
  ASSUME HostInv, NEW t \in Callers, Host!Kill(t) \/ Host!Remove(t) \/ Host!Unanswered(t)
  PROVE  HostInv'
<1>1. /\ thread[t].pc \in {"call", "remove"} /\ thread[t].op = "kill"
      /\ UNCHANGED <<late, unclean, ghost>>
  BY DEF Host!Kill, Host!Remove, Host!Unanswered, Host!In, Host!History
<1>2. PICK n \in Names : n = thread[t].n
  BY <1>1, HostThreads
<1>3. Doing(t, "kill") /\ ~Doing(t, "create") /\ held[n] = "wanted"
  BY <1>1, <1>2 DEF HostInv, HostCallers, Doing
<1>4. CASE Host!Kill(t)
  <2>1. CASE box[n] = "none"
    <3>1. UNCHANGED box /\ Host!End(t) /\ Host!Hold(t, "killed")
      BY <1>2, <1>4, <2>1 DEF Host!Kill, Host!Absent, Host!N
    <3>2. HostWorld(t) /\ Excused(n)'
      BY <1>1, <2>1, <3>1, HostQuiet DEF Excused
    <3> QED
      BY <1>1, <1>2, <1>3, <3>1, <3>2, HostEnds
  <2>2. CASE box[n] \in {"running", "paused"}
    <3>1. /\ box' = [box EXCEPT ![n] = "exited"] /\ Host!Goto(t, "remove") /\ UNCHANGED held
      BY <1>2, <1>4, <2>2 DEF Host!Kill, Host!N
    <3>2. HostWorld(t) /\ held' = [held EXCEPT ![n] = held[n]]
      BY <1>1, <1>2, <1>3, <2>2, <3>1, HostTouches, HostSame
    <3> QED
      BY <1>1, <1>2, <3>1, <3>2, HostGoes
  <2>3. CASE box[n] \notin {"none", "running", "paused"}
    <3>1. UNCHANGED box /\ Host!Fail(t)
      BY <1>2, <1>4, <2>3 DEF Host!Kill, Host!N
    <3>2. HostWorld(t)
      BY <1>1, <3>1, HostQuiet
    <3> QED
      BY <1>1, <1>2, <1>3, <3>1, <3>2, HostFails
  <2> QED
    BY <2>1, <2>2, <2>3
<1>5. CASE Host!Remove(t)
  <2>1. /\ box' = [box EXCEPT ![n] = "none"] /\ Host!End(t) /\ Host!Hold(t, "killed")
    BY <1>2, <1>5 DEF Host!Remove, Host!N
  <2>2. HostWorld(t) /\ box'[n] = "none"
    BY <1>1, <1>2, <1>3, <2>1, HostTouches, ZenonT(60)
  <2>3. Excused(n)'
    BY <2>2 DEF Excused
  <2> QED
    BY <1>1, <1>2, <1>3, <2>1, <2>2, <2>3, HostEnds
<1>6. CASE Host!Unanswered(t)
  <2>1. /\ box[n] # "none" /\ Host!Again(t)
        /\ box' = [box EXCEPT ![n] = IF thread[t].pc = "remove" THEN "none" ELSE "exited"]
    BY <1>2, <1>6 DEF Host!Unanswered, Host!N
  <2>2. PICK st \in {"none", "exited"} : box' = [box EXCEPT ![n] = st]
    BY <2>1
  <2>3. HostWorld(t)
    BY <1>1, <1>2, <1>3, <2>1, <2>2, HostTouches
  <2> QED
    BY <1>1, <1>2, <1>3, <2>1, <2>3, HostFails
<1> QED
  BY <1>4, <1>5, <1>6

\* A command is run, or begun without an answer; a container is looked at.
LEMMA HostExecs ==
  ASSUME HostInv, NEW t \in Callers,
         Host!Exec(t) \/ Host!ExecUnanswered(t) \/ Host!State(t)
  PROVE  HostInv'
<1>1. /\ thread[t].pc = "call" /\ thread[t].op # "create"
      /\ UNCHANGED <<box, late, unclean, ghost>>
  BY DEF Host!Exec, Host!ExecUnanswered, Host!State, Host!In, Host!History
<1>2. PICK n \in Names : n = thread[t].n
  BY <1>1, HostThreads
<1>3. HostWorld(t) /\ ~Doing(t, "create")
  BY <1>1, HostQuiet DEF Doing
<1>4. CASE Host!Exec(t) \/ Host!State(t)
  <2>1. Host!End(t) /\ UNCHANGED held
    BY <1>4 DEF Host!Exec, Host!State
  <2> QED
    BY <1>1, <1>2, <1>3, <2>1, HostEnds
<1>5. CASE Host!ExecUnanswered(t)
  <2>1. Host!Again(t)
    BY <1>5 DEF Host!ExecUnanswered
  <2> QED
    BY <1>1, <1>2, <1>3, <2>1, HostFails
<1> QED
  BY <1>4, <1>5

\* A container is paused or resumed, when it is in the state for it.
LEMMA HostPauses ==
  ASSUME HostInv, NEW t \in Callers, Host!Pause(t) \/ Host!Resume(t)
  PROVE  HostInv'
<1>1. /\ thread[t].pc = "call" /\ Host!End(t) /\ UNCHANGED <<held, late, unclean, ghost>>
  BY DEF Host!Pause, Host!Resume, Host!In, Host!History
<1>2. PICK n \in Names : n = thread[t].n
  BY <1>1, HostThreads
<1>3. HostWorld(t)
  <2>1. CASE UNCHANGED box
    BY <1>1, <2>1, HostQuiet
  <2>2. CASE box' # box
    <3>1. /\ box[n] # "none"
          /\ \E st \in {"running", "paused"} : box' = [box EXCEPT ![n] = st]
      BY <1>2, <2>2 DEF Host!Pause, Host!Resume, Host!N
    <3>2. held[n] # "fresh"
      BY <3>1 DEF HostInv, HostFresh
    <3> QED
      BY <1>1, <1>2, <3>1, <3>2, HostTouches
  <2> QED
    BY <2>1, <2>2
<1> QED
  BY <1>1, <1>2, <1>3, HostEnds

\* A late run, the end of a container's process, or the removal of an exited container.
LEMMA HostEngines ==
  ASSUME HostInv, NEW n \in Names, Host!LateRun(n) \/ Host!Exit(n) \/ Host!Prune(n)
  PROVE  HostInv'
<1>1. HostEngine /\ HostFresh
  BY DEF HostInv, HostTypes
<1>2. UNCHANGED <<thread, held, unclean>>
  BY DEF Host!LateRun, Host!Exit, Host!Prune, Host!History
<1>3. /\ box' = box \/ \E st \in {"none", "running", "exited"} : box' = [box EXCEPT ![n] = st]
      /\ late' = late \/ late' = [late EXCEPT ![n] = FALSE]
      /\ ghost' = ghost \/ ghost' = [ghost EXCEPT ![n] = TRUE]
  BY DEF Host!LateRun, Host!Exit, Host!Prune, Host!Prunable, Host!History
<1>4. HostEngine' /\ \A m \in Names \ {n} : box'[m] = box[m] /\ ghost'[m] = ghost[m]
  BY <1>1, <1>2, <1>3 DEF HostEngine
<1>5. \/ box'[n] = "none" \/ ghost'[n]
      \/ box[n] # "none" /\ ghost'[n] = ghost[n]
      \/ box'[n] = box[n] /\ ghost'[n] = ghost[n]
  BY <1>1, <1>2 DEF Host!LateRun, Host!Exit, Host!Prune, Host!History, HostEngine
<1>6. \A m \in Names : Excused(m) => Excused(m)'
  BY <1>2, <1>4, <1>5 DEF Excused
<1>7. ASSUME NEW m \in Names, held[m] = "fresh"
      PROVE  box'[m] = "none" /\ ~late'[m]
  <2>1. box[m] = "none" /\ ~late[m]
    BY <1>1, <1>7 DEF HostFresh
  <2>2. CASE m = n
    BY <1>1, <2>1, <2>2 DEF Host!LateRun, Host!Exit, Host!Prune, Host!Prunable, HostEngine
  <2>3. CASE m # n
    BY <1>1, <1>3, <1>4, <2>1, <2>3 DEF HostEngine
  <2> QED
    BY <2>2, <2>3
<1> QED
  BY <1>2, <1>4, <1>6, <1>7, HostOthers

\* Containers, and what threads do to them, always.
LEMMA AlwaysHostInv == Host!Spec => []HostInv
<1>1. Host!Init => HostInv
  BY DEF Host!Init, Host!Idle, HostInv, HostTypes, HostEngine, HostThread, HostCallers,
         HostAlone, HostFresh, HostTried, HostLeft, Doing, Excused
<1>2. HostInv /\ [Host!Next]_(Host!vars) => HostInv'
  <2> SUFFICES ASSUME HostInv, [Host!Next]_(Host!vars)
               PROVE  HostInv'
    OBVIOUS
  <2>1. ASSUME NEW t \in Callers, Host!Step(t)
        PROVE  HostInv'
    BY <2>1, HostEnsures, HostRuns, HostKills, HostExecs, HostPauses, HostCallFails, HostCleans
    DEF Host!Step, Host!Call
  <2>2. ASSUME NEW t \in Callers,
               \/ Host!EnsureFails(t) \/ Host!CallFails(t) \/ Host!RunNotStarted(t)
               \/ Host!RunUnanswered(t) \/ Host!Unanswered(t) \/ Host!ExecUnanswered(t)
        PROVE  HostInv'
    BY <2>2, HostEnsures, HostCallFails, HostRuns, HostKills, HostExecs
  <2>3. ASSUME NEW t \in Callers, NEW op \in Host!Ops, NEW n \in Names, Host!Begin(t, op, n)
        PROVE  HostInv'
    BY <2>3, HostBegin
  <2>4. ASSUME NEW n \in Names, Host!LateRun(n) \/ Host!Exit(n) \/ Host!Prune(n)
        PROVE  HostInv'
    BY <2>4, HostEngines
  <2>5. CASE UNCHANGED Host!vars
    BY <2>5 DEF Host!vars, Host!History, HostInv, HostTypes, HostEngine, HostCallers,
                HostAlone, HostFresh, HostTried, HostLeft, Doing, Excused
  <2> QED
    BY <2>1, <2>2, <2>3, <2>4, <2>5 DEF Host!Next
<1> QED BY <1>1, <1>2, PTL DEF Host!Spec

\* NoLeftovers: what a create that failed or a kill that succeeded leaves behind is a
\* container whose clean-up failed or that the engine made after its caller had given up,
\* for any number of threads, names, attempts and faults.
THEOREM NothingLeftOver == Host!Spec => []Host!NoLeftovers
<1>1. HostInv => Host!NoLeftovers
  BY DEF HostInv, HostLeft, Excused, Host!NoLeftovers
<1> QED BY <1>1, AlwaysHostInv, PTL

-----------------------------------------------------------------------------
(* The agents *)

AgentTypes ==
  /\ spawn \in [Agents -> {"none", "write", "thread", "state", "register", "up", "failed"}]
  /\ loop \in [Agents -> {"none", "head", "command", "sleep", "mark", "drop", "done"}]
  /\ state \in [Agents -> {"idle", "running", "stopped", "failed"}]
  /\ runs \in [Agents -> 0..2] /\ raised \in [Agents -> BOOLEAN]
  /\ early \in [Agents -> BOOLEAN]

\* Of one agent: its thread begins once; a run that did not raise is the only one of an agent
\* that runs once; a thread that has marked its agent leaves it marked.
AgentFresh(a) ==
  process # "exited" /\ spawn[a] \in {"none", "write", "thread"} => loop[a] = "none"
AgentOnce(a) ==
  single[a] /\ ~raised[a] =>
    /\ loop[a] \in {"none", "head"} => runs[a] = 0
    /\ loop[a] # "sleep" /\ runs[a] < 2
    /\ spawn[a] \in {"none", "write", "thread"} => runs[a] = 0
AgentMarked(a) ==
  single[a] /\ loop[a] \in {"drop", "done"} /\ state[a] = "running" /\ process # "exited" => early[a]

AgentInv ==
  AgentTypes /\ \A a \in Agents : AgentFresh(a) /\ AgentOnce(a) /\ AgentMarked(a)

\* A step about one agent leaves the others as they were.
LEMMA AgentOthers ==
  ASSUME AgentInv, NEW a \in Agents, UNCHANGED <<single, process>>, AgentTypes',
         \A b \in Agents \ {a} :
           /\ spawn'[b] = spawn[b] /\ loop'[b] = loop[b] /\ state'[b] = state[b]
           /\ runs'[b] = runs[b] /\ raised'[b] = raised[b] /\ early'[b] = early[b],
         AgentFresh(a)', AgentOnce(a)', AgentMarked(a)'
  PROVE  AgentInv'
<1>1. ASSUME NEW b \in Agents \ {a}
      PROVE  AgentFresh(b)' /\ AgentOnce(b)' /\ AgentMarked(b)'
  <2>1. AgentFresh(b) /\ AgentOnce(b) /\ AgentMarked(b)
    BY DEF AgentInv
  <2> QED
    BY <2>1 DEF AgentFresh, AgentOnce, AgentMarked
<1> QED
  BY <1>1 DEF AgentInv

\* The steps of start().
LEMMA AgentSpawn ==
  ASSUME AgentInv, NEW a \in Agents,
         \/ Agent!Spawn(a) \/ Agent!WriteScript(a) \/ Agent!WriteFails(a) \/ Agent!StartThread(a)
         \/ Agent!SetRunning(a) \/ Agent!Register(a)
  PROVE  AgentInv'
<1>0. AgentTypes /\ AgentFresh(a) /\ AgentOnce(a) /\ AgentMarked(a) /\ process # "exited"
  BY DEF AgentInv, Agent!Spawn, Agent!WriteScript, Agent!WriteFails, Agent!StartThread,
         Agent!SetRunning, Agent!Register, Agent!Spawning
<1>1. UNCHANGED <<single, process, runs, raised>>
  BY DEF Agent!Spawn, Agent!WriteScript, Agent!WriteFails, Agent!StartThread, Agent!SetRunning,
         Agent!Register, Agent!History
<1>2. CASE Agent!Spawn(a) \/ Agent!WriteScript(a) \/ Agent!Register(a)
  <2>1. PICK to \in {"write", "thread", "up"} :
          /\ spawn' = [spawn EXCEPT ![a] = to] /\ UNCHANGED <<loop, state, early>>
          /\ to # "up" => spawn[a] \in {"none", "write"}
    BY <1>2 DEF Agent!Spawn, Agent!WriteScript, Agent!Register, Agent!Spawning, Agent!History
  <2>2. spawn'[a] = to /\ \A b \in Agents \ {a} : spawn'[b] = spawn[b]
    BY <1>0, <2>1 DEF AgentTypes
  <2>3. AgentTypes'
    BY <1>0, <1>1, <2>1 DEF AgentTypes
  <2>4. AgentFresh(a)' /\ AgentOnce(a)' /\ AgentMarked(a)'
    BY <1>0, <1>1, <2>1, <2>2 DEF AgentFresh, AgentOnce, AgentMarked
  <2> QED
    BY <1>1, <2>1, <2>2, <2>3, <2>4, AgentOthers
<1>3. CASE Agent!WriteFails(a)
  <2>1. /\ spawn' = [spawn EXCEPT ![a] = "failed"] /\ state' = [state EXCEPT ![a] = "failed"]
        /\ UNCHANGED <<loop, early>>
    BY <1>3 DEF Agent!WriteFails, Agent!Spawning, Agent!History
  <2>2. /\ spawn'[a] = "failed" /\ state'[a] = "failed"
        /\ \A b \in Agents \ {a} : spawn'[b] = spawn[b] /\ state'[b] = state[b]
    BY <1>0, <2>1 DEF AgentTypes
  <2>3. AgentTypes'
    BY <1>0, <1>1, <2>1 DEF AgentTypes
  <2>4. AgentFresh(a)' /\ AgentOnce(a)' /\ AgentMarked(a)'
    BY <1>0, <1>1, <2>1, <2>2 DEF AgentFresh, AgentOnce, AgentMarked
  <2> QED
    BY <1>1, <2>1, <2>2, <2>3, <2>4, AgentOthers
<1>4. CASE Agent!StartThread(a)
  <2>1. /\ spawn' = [spawn EXCEPT ![a] = "state"] /\ loop' = [loop EXCEPT ![a] = "head"]
        /\ UNCHANGED <<state, early>> /\ spawn[a] = "thread"
    BY <1>4 DEF Agent!StartThread, Agent!Spawning, Agent!History
  <2>2. /\ spawn'[a] = "state" /\ loop'[a] = "head"
        /\ \A b \in Agents \ {a} : spawn'[b] = spawn[b] /\ loop'[b] = loop[b]
    BY <1>0, <2>1 DEF AgentTypes
  <2>3. AgentTypes'
    BY <1>0, <1>1, <2>1 DEF AgentTypes
  <2>4. AgentFresh(a)' /\ AgentOnce(a)' /\ AgentMarked(a)'
    BY <1>0, <1>1, <2>1, <2>2 DEF AgentFresh, AgentOnce, AgentMarked
  <2> QED
    BY <1>1, <2>1, <2>2, <2>3, <2>4, AgentOthers
<1>5. CASE Agent!SetRunning(a)
  <2>1. /\ spawn' = [spawn EXCEPT ![a] = "register"] /\ state' = [state EXCEPT ![a] = "running"]
        /\ early' = [early EXCEPT ![a] = loop[a] \in {"drop", "done"}]
        /\ UNCHANGED loop /\ spawn[a] = "state"
    BY <1>5 DEF Agent!SetRunning, Agent!Spawning
  <2>2. (loop[a] \in {"drop", "done"}) \in BOOLEAN
    OBVIOUS
  <2>3. /\ spawn'[a] = "register" /\ state'[a] = "running"
        /\ loop[a] \in {"drop", "done"} => early'[a]
        /\ \A b \in Agents \ {a} :
             spawn'[b] = spawn[b] /\ state'[b] = state[b] /\ early'[b] = early[b]
    BY <1>0, <2>1 DEF AgentTypes
  <2>4. early' \in [Agents -> BOOLEAN]
    BY <1>0, <2>1, <2>2 DEF AgentTypes
  <2>5. AgentTypes'
    BY <1>0, <1>1, <2>1, <2>4 DEF AgentTypes
  <2>6. AgentFresh(a)' /\ AgentOnce(a)' /\ AgentMarked(a)'
    BY <1>0, <1>1, <2>1, <2>3 DEF AgentFresh, AgentOnce, AgentMarked
  <2> QED
    BY <1>1, <2>1, <2>3, <2>5, <2>6, AgentOthers
<1> QED
  BY <1>2, <1>3, <1>4, <1>5

\* The steps of the agent's thread.
LEMMA AgentThread ==
  ASSUME AgentInv, NEW a \in Agents, Agent!Thread(a)
  PROVE  AgentInv'
<1>0. AgentTypes /\ AgentFresh(a) /\ AgentOnce(a) /\ AgentMarked(a)
  BY DEF AgentInv
<1>1. /\ UNCHANGED <<spawn, single, process, early>> /\ process # "exited"
      /\ loop[a] \in {"head", "command", "sleep", "mark", "drop"}
  BY DEF Agent!Thread, Agent!Head, Agent!CommandEnds, Agent!CommandRaises, Agent!Sleep,
         Agent!Mark, Agent!Drop, Agent!Looping, Agent!LoopOnly, Agent!History
<1>2. spawn[a] \notin {"none", "write", "thread"}
  BY <1>0, <1>1 DEF AgentFresh
<1>3. CASE Agent!Head(a)
  <2>1. PICK to \in {"mark", "command"} :
          /\ loop' = [loop EXCEPT ![a] = to] /\ loop[a] = "head"
          /\ runs' = IF to = "mark" \/ runs[a] = 2 THEN runs ELSE [runs EXCEPT ![a] = @ + 1]
          /\ UNCHANGED <<state, raised>>
    BY <1>3 DEF Agent!Head, Agent!Looping, Agent!LoopOnly
  <2>2. loop'[a] = to /\ \A b \in Agents \ {a} : loop'[b] = loop[b]
    BY <1>0, <2>1 DEF AgentTypes
  <2>3. /\ runs' \in [Agents -> 0..2] /\ runs'[a] \in {runs[a], runs[a] + 1}
        /\ \A b \in Agents \ {a} : runs'[b] = runs[b]
    <3>1. CASE to = "mark" \/ runs[a] = 2
      BY <1>0, <2>1, <3>1 DEF AgentTypes
    <3>2. CASE ~(to = "mark" \/ runs[a] = 2)
      <4>1. runs[a] \in 0..2 /\ runs[a] + 1 \in 0..2
        BY <1>0, <3>2 DEF AgentTypes
      <4> QED
        BY <1>0, <2>1, <3>2, <4>1 DEF AgentTypes
    <3> QED
      BY <3>1, <3>2
  <2>4. AgentTypes'
    BY <1>0, <1>1, <2>1, <2>3 DEF AgentTypes
  <2>5. single[a] /\ ~raised[a] => runs'[a] < 2
    <3>1. single[a] /\ ~raised[a] => runs[a] = 0
      BY <1>0, <2>1 DEF AgentOnce
    <3> QED
      BY <2>3, <3>1
  <2>6. AgentFresh(a)' /\ AgentOnce(a)' /\ AgentMarked(a)'
    BY <1>0, <1>1, <1>2, <2>1, <2>2, <2>5 DEF AgentFresh, AgentOnce, AgentMarked
  <2> QED
    BY <1>1, <2>1, <2>2, <2>3, <2>4, <2>6, AgentOthers
<1>4. CASE Agent!CommandRaises(a)
  <2>1. /\ loop' = [loop EXCEPT ![a] = "sleep"] /\ raised' = [raised EXCEPT ![a] = TRUE]
        /\ UNCHANGED <<state, runs>>
    BY <1>4 DEF Agent!CommandRaises, Agent!Looping, Agent!LoopOnly
  <2>2. /\ loop'[a] = "sleep" /\ raised'[a]
        /\ \A b \in Agents \ {a} : loop'[b] = loop[b] /\ raised'[b] = raised[b]
    BY <1>0, <2>1 DEF AgentTypes
  <2>3. AgentTypes'
    BY <1>0, <1>1, <2>1 DEF AgentTypes
  <2>4. AgentFresh(a)' /\ AgentOnce(a)' /\ AgentMarked(a)'
    BY <1>0, <1>1, <1>2, <2>1, <2>2 DEF AgentFresh, AgentOnce, AgentMarked
  <2> QED
    BY <1>1, <2>1, <2>2, <2>3, <2>4, AgentOthers
<1>5. CASE Agent!CommandEnds(a) \/ Agent!Sleep(a) \/ Agent!Drop(a)
  <2>1. PICK to \in {"mark", "sleep", "head", "done"} :
          /\ loop' = [loop EXCEPT ![a] = to] /\ UNCHANGED <<state, runs, raised>>
          /\ \/ loop[a] = "command" /\ to = IF single[a] THEN "mark" ELSE "sleep"
             \/ loop[a] = "sleep" /\ to = "head"
             \/ loop[a] = "drop" /\ to = "done"
    BY <1>5 DEF Agent!CommandEnds, Agent!Sleep, Agent!Drop, Agent!AfterCommand, Agent!Looping,
                Agent!LoopOnly, Agent!History
  <2>2. loop'[a] = to /\ \A b \in Agents \ {a} : loop'[b] = loop[b]
    BY <1>0, <2>1 DEF AgentTypes
  <2>3. AgentTypes'
    BY <1>0, <1>1, <2>1 DEF AgentTypes
  <2>4. AgentFresh(a)' /\ AgentOnce(a)' /\ AgentMarked(a)'
    BY <1>0, <1>1, <1>2, <2>1, <2>2 DEF AgentFresh, AgentOnce, AgentMarked
  <2> QED
    BY <1>1, <2>1, <2>2, <2>3, <2>4, AgentOthers
<1>6. CASE Agent!Mark(a)
  <2>1. /\ loop' = [loop EXCEPT ![a] = "drop"] /\ UNCHANGED <<runs, raised>>
        /\ state' = [state EXCEPT ![a] = Agent!Marked(a)]
    BY <1>6 DEF Agent!Mark, Agent!Looping, Agent!History
  <2>2. /\ Agent!Marked(a) \in {"idle", "running", "stopped", "failed"}
        /\ single[a] => Agent!Marked(a) # "running"
    BY <1>0 DEF Agent!Marked, AgentTypes
  <2>3. /\ loop'[a] = "drop" /\ state'[a] = Agent!Marked(a)
        /\ \A b \in Agents \ {a} : loop'[b] = loop[b] /\ state'[b] = state[b]
    BY <1>0, <2>1 DEF AgentTypes
  <2>4. AgentTypes'
    BY <1>0, <1>1, <2>1, <2>2 DEF AgentTypes
  <2>5. AgentFresh(a)' /\ AgentOnce(a)' /\ AgentMarked(a)'
    BY <1>0, <1>1, <1>2, <2>1, <2>2, <2>3 DEF AgentFresh, AgentOnce, AgentMarked
  <2> QED
    BY <1>1, <2>1, <2>3, <2>4, <2>5, AgentOthers
<1> QED
  BY <1>3, <1>4, <1>5, <1>6 DEF Agent!Thread

\* Kills, the shutdown, and the end of the process and of the sandbox.
LEMMA AgentEnds ==
  ASSUME AgentInv,
         \/ \E a \in Agents : Agent!Kill(a) \/ Agent!Killed(a) \/ Agent!ShutdownKill(a)
         \/ Agent!Shutdown \/ Agent!Exit \/ Agent!DeleteSandbox
  PROVE  AgentInv'
<1>1. CASE \E a \in Agents : Agent!Killed(a)
  <2>1. PICK a \in Agents : Agent!Killed(a)
    BY <1>1
  <2>2. /\ UNCHANGED <<spawn, loop, single, runs, raised, early, process>>
        /\ state' = [state EXCEPT ![a] = "stopped"]
    BY <2>1 DEF Agent!Killed, Agent!History
  <2>3. AgentTypes /\ AgentFresh(a) /\ AgentOnce(a)
    BY DEF AgentInv
  <2>4. state'[a] = "stopped" /\ \A b \in Agents \ {a} : state'[b] = state[b]
    BY <2>2, <2>3 DEF AgentTypes
  <2>5. AgentTypes'
    BY <2>2, <2>3 DEF AgentTypes
  <2>6. AgentFresh(a)' /\ AgentOnce(a)' /\ AgentMarked(a)'
    BY <2>2, <2>3, <2>4 DEF AgentFresh, AgentOnce, AgentMarked
  <2> QED
    BY <2>2, <2>4, <2>5, <2>6, AgentOthers
<1>2. CASE Agent!Exit
  <2>1. /\ process' = "exited" /\ loop' = [a \in Agents |-> "done"]
        /\ UNCHANGED <<spawn, state, single, runs, raised, early>>
    BY <1>2 DEF Agent!Exit, Agent!History
  <2>2. AgentTypes'
    BY <2>1 DEF AgentInv, AgentTypes
  <2>3. ASSUME NEW a \in Agents
        PROVE  AgentFresh(a)' /\ AgentOnce(a)' /\ AgentMarked(a)'
    <3>1. AgentOnce(a)
      BY DEF AgentInv
    <3> QED
      BY <2>1, <3>1 DEF AgentFresh, AgentOnce, AgentMarked
  <2> QED
    BY <2>2, <2>3 DEF AgentInv
<1>3. CASE \/ \E a \in Agents : Agent!Kill(a) \/ Agent!ShutdownKill(a)
           \/ Agent!Shutdown \/ Agent!DeleteSandbox
  <2>1. /\ UNCHANGED <<spawn, loop, state, single, runs, raised, early>>
        /\ process' = process \/ process = "up"
    BY <1>3 DEF Agent!Kill, Agent!ShutdownKill, Agent!Stop, Agent!Shutdown, Agent!DeleteSandbox,
                Agent!History
  <2>2. AgentTypes'
    BY <2>1 DEF AgentInv, AgentTypes
  <2>3. ASSUME NEW a \in Agents
        PROVE  AgentFresh(a)' /\ AgentOnce(a)' /\ AgentMarked(a)'
    <3>1. AgentFresh(a) /\ AgentOnce(a) /\ AgentMarked(a)
      BY DEF AgentInv
    <3> QED
      BY <2>1, <3>1 DEF AgentFresh, AgentOnce, AgentMarked
  <2> QED
    BY <2>2, <2>3 DEF AgentInv
<1> QED
  BY <1>1, <1>2, <1>3

\* Agents and their threads, always.
LEMMA AlwaysAgentInv == Agent!Spec => []AgentInv
<1>1. Agent!Init => AgentInv
  BY DEF Agent!Init, AgentInv, AgentTypes, AgentFresh, AgentOnce, AgentMarked
<1>2. AgentInv /\ [Agent!Next]_Agent!vars => AgentInv'
  <2> SUFFICES ASSUME AgentInv, [Agent!Next]_Agent!vars PROVE AgentInv'
    OBVIOUS
  <2>1. CASE \E a \in Agents :
               \/ Agent!Spawn(a) \/ Agent!WriteScript(a) \/ Agent!WriteFails(a)
               \/ Agent!StartThread(a) \/ Agent!SetRunning(a) \/ Agent!Register(a)
    BY <2>1, AgentSpawn
  <2>2. CASE \E a \in Agents : Agent!Thread(a)
    BY <2>2, AgentThread
  <2>3. CASE \/ \E a \in Agents : Agent!Kill(a) \/ Agent!Killed(a) \/ Agent!ShutdownKill(a)
             \/ Agent!Shutdown \/ Agent!Exit \/ Agent!DeleteSandbox
    BY <2>3, AgentEnds
  <2>4. CASE UNCHANGED Agent!vars
    BY <2>4
    DEF Agent!vars, AgentInv, AgentTypes, AgentFresh, AgentOnce, AgentMarked
  <2> QED
    BY <2>1, <2>2, <2>3, <2>4 DEF Agent!Next
<1> QED BY <1>1, <1>2, PTL DEF Agent!Spec

\* An agent that is to run once begins a second command only after one that raised, and is not
\* shown as running when it has ended unless it ended before start() set the state, for any
\* number of agents: thread, start(), kills and the shutdown meet in any order
\* (agents/runtime.py).
THEOREM SingleRunsOnce == Agent!Spec => []Agent!SingleRunHonest
<1>1. AgentInv => Agent!SingleRunHonest
  <2> SUFFICES ASSUME AgentInv, NEW a \in Agents, single[a]
               PROVE  /\ runs[a] = 2 => raised[a]
                      /\ loop[a] \in {"drop", "done"} /\ state[a] = "running"
                           /\ process # "exited" => early[a]
    BY DEF Agent!SingleRunHonest
  <2>1. AgentOnce(a) /\ AgentMarked(a)
    BY DEF AgentInv
  <2> QED
    BY <2>1 DEF AgentOnce, AgentMarked
<1> QED BY <1>1, AlwaysAgentInv, PTL
-----------------------------------------------------------------------------
(* The bootstrap of a guest *)

Boots ==
  [pc : Boot!Pcs, pool : BOOLEAN, background : BOOLEAN, managed : BOOLEAN, trusted : BOOLEAN,
   back : {"again", "agent", "command"}, blind : BOOLEAN, seen : SUBSET {"envd", "agent", "listens"}]

BootTypes ==
  /\ template \in [marked : BOOLEAN, command : BOOLEAN, unmarked : BOOLEAN]
  /\ guest \in [baked : {"none", "old", "new"}, envd : {"down", "starting", "old", "new"},
                agent : {"down", "starting", "up"}, started : 0..2]
  /\ row \in [st : {"none", "starting", "running", "gone"}, pending : BOOLEAN, error : BOOLEAN]
  /\ boot \in Boots

\* Is envd being set up?
Setting == boot.pc \in {"daemon", "bake", "start"}
\* Until the bootstrap ends, the row says that it is open, or that the sandbox does not run.
BootOpen ==
  boot.pc # "done" => IF boot.background THEN row.pending ELSE row.st \in {"none", "starting"}
\* The command is started by hand where the template was not marked; if the container had
\* started it too, the template has lost its marker.
BootCommand ==
  boot.pc = "command" \/ (Setting /\ boot.back = "command") =>
    ~boot.managed /\ (guest.started >= 1 => template.unmarked)
BootStarted ==
  /\ boot.pc = "idle" => guest.started = 0
  /\ boot.pc # "done" => guest.started <= 1
  /\ boot.pc # "done" /\ guest.started >= 1 => template.marked \/ template.unmarked
\* The loops in the guest follow a gateway that did not answer, and one after the other.
BootWaits ==
  /\ boot.pc = "envd" \/ (Setting /\ boot.back = "agent") => boot.blind
  /\ boot.pc = "agent" => "envd" \in boot.seen \/ (boot.blind /\ "listens" \in boot.seen)
\* What the first look told the client it has seen; it is no background thread's.
BootTold ==
  /\ boot.pc = "told" /\ ~row.pending => boot.seen = Boot!Needed
  /\ boot.pc \in {"idle", "first", "told"} => ~boot.background

BootInv ==
  /\ BootTypes /\ BootOpen /\ BootCommand /\ BootStarted /\ BootWaits /\ BootTold
  /\ Boot!ReadyWasSeen

\* The services and the template's marker go their own way.
LEMMA BootAround ==
  ASSUME BootInv, Boot!Marks \/ \E x \in {"envd", "agent"} : Boot!Listens(x) \/ Boot!Dies(x)
  PROVE  BootInv'
<1>1. /\ UNCHANGED <<boot, row>> /\ template'.command = template.command
      /\ guest'.started = guest.started
      /\ template.unmarked => template'.unmarked
      /\ template.marked => template'.marked \/ template'.unmarked
  BY ZenonT(60) DEF BootInv, BootTypes, Boots, Boot!Marks, Boot!Listens, Boot!Dies
<1>2. BootTypes'
  BY ZenonT(60) DEF BootInv, BootTypes, Boots, Boot!Marks, Boot!Listens, Boot!Dies
<1> QED
  BY <1>1, <1>2
  DEF BootInv, Setting, BootOpen, BootCommand, BootStarted, BootWaits, BootTold,
      Boot!Needed, Boot!ReadyWasSeen

\* A probe or a loop meets a service that is up.
LEMMA BootSees ==
  ASSUME BootInv, NEW x \in {"envd", "agent"}, Boot!Sees(x)
  PROVE  BootInv'
<1>1. /\ UNCHANGED <<template, guest, row>> /\ boot' = [boot EXCEPT !.seen = @ \cup {x}]
      /\ boot.pc \notin {"told", "done"}
  BY DEF Boot!Sees, Boot!At
<1>2. BootTypes'
  BY <1>1 DEF BootInv, BootTypes, Boots
<1> QED
  BY <1>1, <1>2
  DEF BootInv, BootTypes, Boots, Setting, BootOpen, BootCommand, BootStarted, BootWaits, BootTold,
      Boot!ReadyWasSeen

\* The bootstrap ends: only where its success is one is the sandbox said to be ready.
LEMMA BootEnds ==
  ASSUME BootInv, boot.pc # "done", NEW ok \in BOOLEAN, Boot!Ends(ok),
         BootTypes', template' = template,
         guest'.started > 1 => template.unmarked,
         ok /\ boot.managed =>
           /\ "envd" \in boot.seen \/ (boot.blind /\ "listens" \in boot.seen)
           /\ template.command => "agent" \in boot.seen
  PROVE  BootInv'
<1>1. /\ boot'.pc = "done" /\ boot'.managed = boot.managed /\ boot'.seen = boot.seen
      /\ boot'.blind = boot.blind
  BY DEF BootInv, BootTypes, Boots, Boot!Ends
<1>2. row'.st = "running" /\ ~row'.error => ok
  BY DEF BootInv, BootTypes, Boots, Boot!Ends
<1> QED
  BY <1>1, <1>2
  DEF BootInv, Setting, BootOpen, BootCommand, BootStarted, BootWaits, BootTold,
      Boot!ReadyWasSeen

\* The container is started, by a template that is marked with its services.
LEMMA BootCreate == ASSUME BootInv, Boot!Create PROVE BootInv'
<1>1. /\ boot.pc = "idle" /\ row' = [row EXCEPT !.st = "starting"] /\ UNCHANGED template
  BY DEF Boot!Create, Boot!At
<1>2. PICK p \in {"first", "specs"} : boot' = [boot EXCEPT !.managed = template.marked, !.pc = p]
  BY DEF Boot!Create
<1>3. /\ boot' \in Boots
      /\ boot'.pc \in {"first", "specs"} /\ boot'.background = boot.background
  BY <1>1, <1>2 DEF BootInv, BootTypes, Boots, Boot!Pcs
<1>4. /\ guest' \in [baked : {"none", "old", "new"}, envd : {"down", "starting", "old", "new"},
                      agent : {"down", "starting", "up"}, started : 0..2]
      /\ guest'.started \in {0, 1} /\ (guest'.started = 1 => template.marked)
  <2>1. CASE template.marked
    <3>1. PICK a \in {"starting", "down"}, n \in {0, 1} :
            guest' = [guest EXCEPT !.envd = "starting", !.agent = a, !.started = n]
      BY <2>1 DEF Boot!Create
    <3>2. 0 \in 0..2 /\ 1 \in 0..2
      OBVIOUS
    <3>3. guest'.started = n
      BY <3>1 DEF BootInv, BootTypes
    <3>4. guest' \in [baked : {"none", "old", "new"}, envd : {"down", "starting", "old", "new"},
                      agent : {"down", "starting", "up"}, started : 0..2]
      BY <3>1, <3>2 DEF BootInv, BootTypes
    <3> QED
      BY <2>1, <3>3, <3>4
  <2>2. CASE ~template.marked
    BY <1>1, <2>2 DEF BootInv, BootTypes, Boots, BootStarted, Boot!Create
  <2> QED BY <2>1, <2>2
<1>5. BootTypes' /\ row'.st = "starting" /\ ~boot.background
  BY <1>1, <1>3, <1>4 DEF BootInv, BootTypes, Boots, BootTold
<1> QED
  BY <1>1, <1>3, <1>4, <1>5
  DEF BootInv, Setting, BootOpen, BootCommand, BootStarted, BootWaits, BootTold, Boot!ReadyWasSeen

\* The first look, and what the client is told after it.
LEMMA BootLooks == ASSUME BootInv, Boot!FirstLook \/ Boot!Told PROVE BootInv'
<1>1. CASE Boot!FirstLook
  <2>1. /\ boot.pc = "first" /\ boot' = [boot EXCEPT !.pc = "told"] /\ UNCHANGED <<template, guest>>
        /\ row'.st = row.st /\ (~row'.pending => boot.seen = Boot!Needed)
        /\ row'.pending \in BOOLEAN /\ row'.error \in BOOLEAN
        /\ row' \in [st : {"none", "starting", "running", "gone"}, pending : BOOLEAN, error : BOOLEAN]
    BY <1>1 DEF BootInv, BootTypes, Boots, Boot!FirstLook, Boot!At, Boot!To, Boot!Ready
  <2>2. BootTypes' /\ boot'.seen = boot.seen /\ boot'.background = boot.background /\ boot'.pc = "told"
    BY <2>1 DEF BootInv, BootTypes, Boots, Boot!Pcs
  <2>3. BootOpen'
    BY <2>1, <2>2 DEF BootInv, BootOpen, BootTold
  <2>4. BootTold' /\ Boot!ReadyWasSeen'
    BY <2>1, <2>2 DEF BootInv, BootOpen, BootTold, Boot!Needed, Boot!ReadyWasSeen
  <2> QED
    BY <2>1, <2>2, <2>3, <2>4 DEF BootInv, Setting, BootCommand, BootStarted, BootWaits
<1>2. CASE Boot!Told
  <2>1. /\ boot.pc = "told" /\ UNCHANGED <<template, guest>> /\ row' = [row EXCEPT !.st = "running"]
        /\ boot' = IF row.pending THEN [boot EXCEPT !.pc = "specs", !.background = TRUE]
                   ELSE [boot EXCEPT !.pc = "done"]
    BY <1>2 DEF Boot!Told, Boot!At
  <2>2. BootTypes' /\ boot'.seen = boot.seen /\ row'.pending = row.pending
    BY <2>1, ZenonT(60) DEF BootInv, BootTypes, Boots, Boot!Pcs
  <2>3. CASE row.pending
    <3>1. boot'.pc = "specs" /\ boot'.background /\ row'.pending
      BY <2>1, <2>2, <2>3 DEF BootInv, BootTypes
    <3> QED
      BY <2>1, <2>2, <3>1
      DEF BootInv, Setting, BootOpen, BootCommand, BootStarted, BootWaits, BootTold, Boot!ReadyWasSeen
  <2>4. CASE ~row.pending
    <3>1. boot'.pc = "done" /\ guest.started <= 1 /\ boot.seen = Boot!Needed
      BY <2>1, <2>4 DEF BootInv, BootTypes, Boots, BootTold, BootStarted
    <3>2. "envd" \in boot.seen /\ (template.command => "agent" \in boot.seen)
      BY <3>1 DEF Boot!Needed
    <3>3. ~(guest.started > 1)
      BY <3>1 DEF BootInv, BootTypes
    <3> QED
      BY <2>1, <2>2, <3>1, <3>2, <3>3
      DEF BootInv, Setting, BootOpen, BootCommand, BootStarted, BootWaits, BootTold, Boot!ReadyWasSeen
  <2> QED BY <2>3, <2>4
<1> QED BY <1>1, <1>2

\* The types, where the bootstrap ends.
LEMMA BootEndTypes ==
  ASSUME BootInv, NEW ok \in BOOLEAN, Boot!Ends(ok)
  PROVE  /\ row' \in [st : {"none", "starting", "running", "gone"}, pending : BOOLEAN, error : BOOLEAN]
         /\ boot' \in Boots
BY DEF BootInv, BootTypes, Boots, Boot!Ends, Boot!Pcs

\* What the bootstrap's steps set in its record leaves it one.
LEMMA BootSet ==
  ASSUME NEW b \in Boots, NEW p \in Boot!Pcs, NEW m \in BOOLEAN,
         NEW k \in {"again", "agent", "command"}, NEW q \in SUBSET {"envd", "agent", "listens"}
  PROVE  /\ [b EXCEPT !.managed = m, !.seen = q, !.back = k, !.pc = p] \in Boots
         /\ [b EXCEPT !.pc = p, !.back = k] \in Boots
         /\ [b EXCEPT !.pc = p, !.blind = TRUE, !.seen = q] \in Boots
         /\ [b EXCEPT !.pc = p, !.seen = q] \in Boots
<1>1. [b EXCEPT !.managed = m, !.seen = q, !.back = k, !.pc = p] \in Boots
  BY DEF Boots
<1>2. [b EXCEPT !.pc = p, !.back = k] \in Boots
  BY DEF Boots
<1>3. [b EXCEPT !.pc = p, !.blind = TRUE, !.seen = q] \in Boots
  BY DEF Boots
<1>4. [b EXCEPT !.pc = p, !.seen = q] \in Boots
  BY DEF Boots
<1> QED BY <1>1, <1>2, <1>3, <1>4

\* An exception, or the end of the process.
LEMMA BootRaises == ASSUME BootInv, Boot!Raises PROVE BootInv'
<1>1. boot.pc # "done" /\ UNCHANGED <<template, guest>> /\ BootTypes
  BY DEF BootInv, Boot!Raises
<1>2. guest'.started > 1 => template.unmarked
  BY <1>1 DEF BootInv, BootTypes, Boots, BootStarted
<1>3. CASE boot.background /\ Boot!Ends(FALSE)
  <2>1. BootTypes'
    BY <1>1, <1>3, BootEndTypes, FALSE \in BOOLEAN DEF BootTypes
  <2> QED BY <1>1, <1>2, <1>3, <2>1, BootEnds, FALSE \in BOOLEAN
<1>4. CASE boot' = [boot EXCEPT !.pc = "done"] /\ UNCHANGED row
  <2>1. BootTypes' /\ boot'.pc = "done"
    BY <1>1, <1>4 DEF BootTypes, Boots, Boot!Pcs
  <2>2. row.st = "running" => row.pending
    BY <1>1 DEF BootInv, BootTypes, Boots, BootOpen
  <2> QED
    BY <1>1, <1>4, <2>1, <2>2
    DEF BootInv, Setting, BootOpen, BootCommand, BootStarted, BootWaits, BootTold, Boot!ReadyWasSeen
<1> QED BY <1>3, <1>4 DEF Boot!Raises, Boot!To

\* The bootstrap goes on from one of its places to another and touches neither row nor guest.
LEMMA BootGoes ==
  ASSUME BootInv, Boot!Specs \/ Boot!Daemon
  PROVE  BootInv'
<1>1. /\ UNCHANGED <<template, guest, row>> /\ boot.pc \in {"specs", "daemon"}
  BY DEF Boot!Specs, Boot!Daemon, Boot!At
<1>2. row.st = "running" => row.pending
  BY <1>1 DEF BootInv, BootTypes, Boots, BootOpen
<1>3. CASE Boot!Specs
  <2>1. PICK p \in {"gate", "daemon"} :
          /\ boot' = [boot EXCEPT !.managed = template.marked, !.seen = {}, !.back = "command",
                                  !.pc = p]
          /\ boot.pc = "specs" /\ (p = "daemon" => ~template.marked)
    BY <1>3 DEF Boot!Specs, Boot!At
  <2>2. BootTypes'
    <3>1. template.marked \in BOOLEAN /\ p \in Boot!Pcs /\ {} \in SUBSET {"envd", "agent", "listens"}
      BY DEF BootInv, BootTypes, Boots, Boot!Pcs
    <3> QED BY <1>1, <2>1, <3>1, BootSet, ZenonT(60) DEF BootInv, BootTypes
  <2>3. /\ boot'.pc = p /\ boot'.managed = template.marked /\ boot'.back = "command"
        /\ boot'.background = boot.background
    BY <2>1 DEF BootInv, BootTypes
  <2> QED
    BY <1>1, <1>2, <2>1, <2>2, <2>3
    DEF BootInv, Setting, BootOpen, BootCommand, BootStarted, BootWaits, BootTold, Boot!ReadyWasSeen
<1>4. CASE Boot!Daemon
  <2>1. PICK p \in {"start", "bake"} :
          boot' = [boot EXCEPT !.trusted = template.marked, !.pc = p] /\ boot.pc = "daemon"
    BY <1>4 DEF Boot!Daemon, Boot!At
  <2>2. BootTypes'
    <3>1. template.marked \in BOOLEAN /\ p \in Boot!Pcs
      BY DEF BootInv, BootTypes, Boots, Boot!Pcs
    <3> QED BY <1>1, <2>1, <3>1, ZenonT(60) DEF BootInv, BootTypes, Boots
  <2>3. /\ boot'.pc = p /\ boot'.managed = boot.managed /\ boot'.back = boot.back
        /\ boot'.background = boot.background /\ boot'.blind = boot.blind
    BY <2>1 DEF BootInv, BootTypes
  <2> QED
    BY <1>1, <1>2, <2>1, <2>2, <2>3
    DEF BootInv, Setting, BootOpen, BootCommand, BootStarted, BootWaits, BootTold, Boot!ReadyWasSeen
<1> QED BY <1>3, <1>4

\* The gateway's probe.
LEMMA BootGate == ASSUME BootInv, Boot!Gate PROVE BootInv'
<1>1. UNCHANGED <<template, guest>> /\ boot.pc \in {"gate", "again"} /\ boot.pc # "done"
  BY DEF Boot!Gate
<1>2. row.st = "running" => row.pending
  BY <1>1 DEF BootInv, BootTypes, Boots, BootOpen
<1>3. guest'.started > 1 => template.unmarked
  BY <1>1 DEF BootInv, BootTypes, Boots, BootStarted
<1>4. ASSUME NEW ok \in BOOLEAN, Boot!Ends(ok), ok => Boot!Ready
      PROVE  BootInv'
  <2>1. BootTypes'
    BY <1>1, <1>4, BootEndTypes DEF BootInv, BootTypes
  <2>2. ok => "envd" \in boot.seen /\ (template.command => "agent" \in boot.seen)
    BY <1>4 DEF Boot!Ready, Boot!Needed
  <2> QED BY <1>1, <1>3, <1>4, <2>1, <2>2, BootEnds
<1>5. CASE boot' = [boot EXCEPT !.pc = "daemon", !.back = "again"] /\ UNCHANGED row
  <2>1. BootTypes' /\ boot'.pc = "daemon" /\ boot'.back = "again" /\ boot'.background = boot.background
    <3>1. "daemon" \in Boot!Pcs
      BY DEF Boot!Pcs
    <3>2. BootTypes'
      BY <1>1, <1>5, <3>1, BootSet, ZenonT(60) DEF BootInv, BootTypes
    <3> QED BY <1>1, <1>5, <3>2 DEF BootInv, BootTypes, Boots
  <2> QED
    BY <1>1, <1>2, <1>5, <2>1
    DEF BootInv, Setting, BootOpen, BootCommand, BootStarted, BootWaits, BootTold, Boot!ReadyWasSeen
<1>6. CASE Boot!Unanswered("envd")
  <2>1. /\ boot' = [boot EXCEPT !.pc = "envd", !.blind = TRUE, !.seen = {}] /\ UNCHANGED row
    BY <1>6 DEF Boot!Unanswered
  <2>2. BootTypes' /\ boot'.pc = "envd" /\ boot'.blind /\ boot'.background = boot.background
    <3>1. "envd" \in Boot!Pcs /\ {} \in SUBSET {"envd", "agent", "listens"}
      BY DEF Boot!Pcs
    <3>2. BootTypes'
      BY <1>1, <2>1, <3>1, BootSet, ZenonT(60) DEF BootInv, BootTypes
    <3> QED BY <1>1, <2>1, <3>2 DEF BootInv, BootTypes, Boots
  <2> QED
    BY <1>1, <1>2, <2>1, <2>2
    DEF BootInv, Setting, BootOpen, BootCommand, BootStarted, BootWaits, BootTold, Boot!ReadyWasSeen
<1> QED
  BY <1>4, <1>5, <1>6 DEF Boot!Gate

\* The loops in the guest.
LEMMA BootWaitSteps == ASSUME BootInv, Boot!WaitEnvd \/ Boot!WaitAgent PROVE BootInv'
<1>1. UNCHANGED <<template, guest>> /\ boot.pc \in {"envd", "agent"} /\ boot.pc # "done"
  BY DEF Boot!WaitEnvd, Boot!WaitAgent, Boot!At
<1>2. row.st = "running" => row.pending
  BY <1>1 DEF BootInv, BootTypes, Boots, BootOpen
<1>3. guest'.started > 1 => template.unmarked
  BY <1>1 DEF BootInv, BootTypes, Boots, BootStarted
<1>4. CASE Boot!WaitEnvd
  <2>1. UNCHANGED row /\ boot.pc = "envd"
    BY <1>4 DEF Boot!WaitEnvd, Boot!At
  <2>2. CASE boot' = [boot EXCEPT !.pc = "agent"] /\ "envd" \in boot.seen
    <3>1. /\ BootTypes' /\ boot'.pc = "agent" /\ boot'.background = boot.background
          /\ boot'.seen = boot.seen
      BY <1>1, <2>1, <2>2 DEF BootInv, BootTypes, Boots, Boot!Pcs
    <3> QED
      BY <1>1, <1>2, <2>1, <2>2, <3>1
      DEF BootInv, Setting, BootOpen, BootCommand, BootStarted, BootWaits, BootTold, Boot!ReadyWasSeen
  <2>3. CASE boot' = [boot EXCEPT !.pc = "daemon", !.back = "agent"]
    <3>1. /\ BootTypes' /\ boot'.pc = "daemon" /\ boot'.background = boot.background
          /\ boot'.back = "agent" /\ boot'.blind = boot.blind
      <4>1. "daemon" \in Boot!Pcs
        BY DEF Boot!Pcs
      <4>2. BootTypes'
        BY <1>1, <2>1, <2>3, <4>1, BootSet, ZenonT(60) DEF BootInv, BootTypes
      <4> QED BY <1>1, <2>1, <2>3, <4>2 DEF BootInv, BootTypes, Boots
    <3> QED
      BY <1>1, <1>2, <2>1, <2>3, <3>1
      DEF BootInv, Setting, BootOpen, BootCommand, BootStarted, BootWaits, BootTold, Boot!ReadyWasSeen
  <2> QED BY <1>4, <2>2, <2>3 DEF Boot!WaitEnvd
<1>5. CASE Boot!WaitAgent
  <2>1. PICK ok \in BOOLEAN :
          Boot!Ends(ok) /\ (ok => "agent" \in boot.seen \/ ~template.command) /\ boot.pc = "agent"
    BY <1>5 DEF Boot!WaitAgent, Boot!At
  <2>2. BootTypes'
    BY <1>1, <2>1, BootEndTypes DEF BootInv, BootTypes
  <2>3. "envd" \in boot.seen \/ (boot.blind /\ "listens" \in boot.seen)
    BY <2>1 DEF BootInv, BootWaits
  <2> QED BY <1>1, <1>3, <2>1, <2>2, <2>3, BootEnds
<1> QED BY <1>4, <1>5

\* envd is put into the guest.
LEMMA BootBake == ASSUME BootInv, Boot!Bake PROVE BootInv'
<1>1. UNCHANGED template /\ boot.pc = "bake" /\ boot.pc # "done" /\ BootTypes
  BY DEF Boot!Bake, Boot!At, BootInv
<1>2. row.st = "running" => row.pending
  BY <1>1 DEF BootInv, BootTypes, BootOpen
<1>3. CASE guest' = [guest EXCEPT !.baked = "new"] /\ UNCHANGED row
           /\ boot' = [boot EXCEPT !.pc = "start", !.trusted = FALSE]
  <2>1. "start" \in Boot!Pcs
    BY DEF Boot!Pcs
  <2>2. boot' \in Boots
    BY <1>1, <1>3, <2>1 DEF BootTypes, Boots
  <2>3. guest' \in [baked : {"none", "old", "new"}, envd : {"down", "starting", "old", "new"},
                    agent : {"down", "starting", "up"}, started : 0..2]
        /\ guest'.started = guest.started
    BY <1>1, <1>3 DEF BootTypes
  <2>4. BootTypes'
    BY <1>1, <1>3, <2>2, <2>3 DEF BootTypes
  <2>5. /\ boot'.pc = "start" /\ boot'.back = boot.back /\ boot'.managed = boot.managed
        /\ boot'.background = boot.background /\ boot'.blind = boot.blind
    BY <1>1, <1>3 DEF BootTypes, Boots
  <2> QED
    BY <1>1, <1>2, <1>3, <2>3, <2>4, <2>5
    DEF BootInv, Setting, BootOpen, BootCommand, BootStarted, BootWaits, BootTold, Boot!ReadyWasSeen
<1>4. CASE Boot!Ends(FALSE) /\ UNCHANGED guest
  <2>1. BootTypes'
    BY <1>1, <1>4, BootEndTypes, FALSE \in BOOLEAN DEF BootTypes
  <2>2. guest'.started > 1 => template.unmarked
    BY <1>1, <1>4 DEF BootInv, BootTypes, BootStarted
  <2> QED BY <1>1, <1>4, <2>1, <2>2, BootEnds, FALSE \in BOOLEAN
<1> QED BY <1>3, <1>4 DEF Boot!Bake

\* envd is started, or not.
LEMMA BootStart == ASSUME BootInv, Boot!Start PROVE BootInv'
<1>1. UNCHANGED template /\ boot.pc = "start" /\ boot.pc # "done" /\ BootTypes
  BY DEF Boot!Start, Boot!At, BootInv
<1>2. row.st = "running" => row.pending
  BY <1>1 DEF BootInv, BootTypes, BootOpen
<1>3. PICK e \in {"down", "starting", "old", "new"} : guest' = [guest EXCEPT !.envd = e]
  <2>1. guest.baked # "none" => guest.baked \in {"old", "new"}
    BY <1>1 DEF BootTypes
  <2> QED BY <2>1 DEF Boot!Start
<1>4. guest' \in [baked : {"none", "old", "new"}, envd : {"down", "starting", "old", "new"},
                  agent : {"down", "starting", "up"}, started : 0..2]
      /\ guest'.started = guest.started
  BY <1>1, <1>3 DEF BootTypes
<1>5. CASE Boot!Return
  <2>1. PICK q \in SUBSET {"envd", "agent", "listens"} :
          /\ boot' = [boot EXCEPT !.pc = boot.back, !.seen = q]
          /\ boot.back = "agent" => "listens" \in q
    <3>1. {} \in SUBSET {"envd", "agent", "listens"} /\ {"listens"} \in SUBSET {"envd", "agent", "listens"}
      OBVIOUS
    <3>2. CASE boot.back = "agent"
      BY <1>5, <3>1, <3>2 DEF Boot!Return
    <3>3. CASE boot.back # "agent"
      BY <1>5, <3>1, <3>3 DEF Boot!Return
    <3> QED BY <3>2, <3>3
  <2>2. boot.back \in {"again", "agent", "command"} /\ boot.back \in Boot!Pcs /\ UNCHANGED row
    BY <1>1, <1>5 DEF BootTypes, Boots, Boot!Pcs, Boot!Return
  <2>3. boot' \in Boots
    BY <1>1, <2>1, <2>2, BootSet DEF BootTypes
  <2>4. BootTypes'
    BY <1>1, <1>4, <2>2, <2>3 DEF BootTypes
  <2>5. /\ boot'.pc = boot.back /\ boot'.managed = boot.managed /\ boot'.seen = q
        /\ boot'.background = boot.background /\ boot'.blind = boot.blind
    BY <1>1, <2>1 DEF BootTypes, Boots
  <2> QED
    BY <1>1, <1>2, <1>4, <2>1, <2>2, <2>4, <2>5
    DEF BootInv, Setting, BootOpen, BootCommand, BootStarted, BootWaits, BootTold, Boot!ReadyWasSeen
<1>6. CASE boot' = [boot EXCEPT !.pc = "bake"] /\ UNCHANGED row
  <2>1. "bake" \in Boot!Pcs
    BY DEF Boot!Pcs
  <2>2. boot' \in Boots
    BY <1>1, <1>6, <2>1 DEF BootTypes, Boots
  <2>3. BootTypes'
    BY <1>1, <1>4, <1>6, <2>2 DEF BootTypes
  <2>4. /\ boot'.pc = "bake" /\ boot'.back = boot.back /\ boot'.managed = boot.managed
        /\ boot'.background = boot.background /\ boot'.blind = boot.blind
    BY <1>1, <1>6 DEF BootTypes, Boots
  <2> QED
    BY <1>1, <1>2, <1>4, <1>6, <2>3, <2>4
    DEF BootInv, Setting, BootOpen, BootCommand, BootStarted, BootWaits, BootTold, Boot!ReadyWasSeen
<1>7. CASE Boot!Ends(FALSE)
  <2>1. BootTypes'
    BY <1>1, <1>4, <1>7, BootEndTypes, FALSE \in BOOLEAN DEF BootTypes
  <2>2. guest'.started > 1 => template.unmarked
    BY <1>1, <1>4 DEF BootInv, BootTypes, BootStarted
  <2> QED BY <1>1, <1>7, <2>1, <2>2, BootEnds, FALSE \in BOOLEAN
<1> QED BY <1>5, <1>6, <1>7 DEF Boot!Start, Boot!NotStarted, Boot!To

\* The template's command is started by hand.
LEMMA BootStartCommand == ASSUME BootInv, Boot!StartCommand PROVE BootInv'
<1>1. UNCHANGED template /\ boot.pc = "command" /\ boot.pc # "done" /\ BootTypes /\ Boot!Ends(TRUE)
  BY DEF Boot!StartCommand, Boot!At, BootInv
<1>2. guest.started <= 1 /\ guest.started \in 0..2 /\ ~boot.managed
      /\ (guest.started >= 1 => template.unmarked)
  BY <1>1 DEF BootInv, BootTypes, BootStarted, BootCommand
<1>3. Boot!Started = guest.started + 1 /\ Boot!Started \in 0..2
  BY <1>2 DEF Boot!Started
<1>4. guest' \in [baked : {"none", "old", "new"}, envd : {"down", "starting", "old", "new"},
                  agent : {"down", "starting", "up"}, started : 0..2]
      /\ guest'.started \in {guest.started, guest.started + 1}
  <2>1. CASE template.command
    <3>1. guest' = [guest EXCEPT !.agent = "starting", !.started = Boot!Started]
      BY <2>1 DEF Boot!StartCommand
    <3> QED BY <1>1, <1>3, <3>1 DEF BootTypes
  <2>2. CASE ~template.command
    BY <1>1, <2>2 DEF Boot!StartCommand, BootTypes
  <2> QED BY <2>1, <2>2
<1>5. BootTypes'
  BY <1>1, <1>4, BootEndTypes, TRUE \in BOOLEAN DEF BootTypes
<1>6. guest'.started > 1 => template.unmarked
  BY <1>2, <1>4
<1> QED BY <1>1, <1>2, <1>5, <1>6, BootEnds, TRUE \in BOOLEAN

\* The client deletes the sandbox.
LEMMA BootDelete == ASSUME BootInv, Boot!Delete PROVE BootInv'
<1>1. /\ UNCHANGED template /\ BootTypes /\ row' = [row EXCEPT !.st = "gone"]
      /\ guest' = [guest EXCEPT !.envd = "down", !.agent = "down", !.baked = "none"]
      /\ boot' = [boot EXCEPT !.pc = "done"]
  BY DEF Boot!Delete, Boot!To, BootInv
<1>2. "done" \in Boot!Pcs
  BY DEF Boot!Pcs
<1>3. boot' \in Boots
  BY <1>1, <1>2 DEF BootTypes, Boots
<1>4. guest' \in [baked : {"none", "old", "new"}, envd : {"down", "starting", "old", "new"},
                  agent : {"down", "starting", "up"}, started : 0..2]
  BY <1>1 DEF BootTypes
<1>5. BootTypes' /\ row'.st = "gone"
  BY <1>1, <1>3, <1>4 DEF BootTypes
<1>6. boot'.pc = "done"
  BY <1>1 DEF BootTypes, Boots
<1> QED
  BY <1>1, <1>5, <1>6
  DEF BootInv, Setting, BootOpen, BootCommand, BootStarted, BootWaits, BootTold, Boot!ReadyWasSeen

\* The bootstrap and what it has seen, always.
LEMMA AlwaysBootInv == Boot!Spec => []BootInv
<1>1. Boot!Init => BootInv
  <2> SUFFICES ASSUME Boot!Init PROVE BootInv
    OBVIOUS
  <2>1. /\ boot.pc = "idle" /\ ~boot.background /\ row.st = "none" /\ guest.started = 0
    BY DEF Boot!Init
  <2>2. template \in [marked : BOOLEAN, command : BOOLEAN, unmarked : BOOLEAN]
    BY DEF Boot!Init
  <2>3. /\ guest \in [baked : {"none", "old", "new"}, envd : {"down", "starting", "old", "new"},
                      agent : {"down", "starting", "up"}, started : 0..2]
        /\ row \in [st : {"none", "starting", "running", "gone"}, pending : BOOLEAN, error : BOOLEAN]
    BY DEF Boot!Init
  <2>4. boot \in Boots
    BY DEF Boot!Init, Boots, Boot!Pcs
  <2> QED
    BY <2>1, <2>2, <2>3, <2>4
    DEF BootInv, BootTypes, Setting, BootOpen, BootCommand, BootStarted, BootWaits, BootTold,
        Boot!ReadyWasSeen
<1>2. BootInv /\ [Boot!Next]_(Boot!vars) => BootInv'
  <2> SUFFICES ASSUME BootInv, [Boot!Next]_(Boot!vars) PROVE BootInv'
    OBVIOUS
  <2>1. CASE UNCHANGED Boot!vars
    BY <2>1
    DEF Boot!vars, BootInv, BootTypes, Boots, Setting, BootOpen, BootCommand, BootStarted, BootWaits,
        BootTold, Boot!Needed, Boot!ReadyWasSeen
  <2>2. CASE Boot!Next
    BY <2>2, BootAround, BootSees, BootCreate, BootLooks, BootRaises, BootGoes, BootGate,
       BootWaitSteps, BootBake, BootStart, BootStartCommand, BootDelete
    DEF Boot!Next
  <2> QED BY <2>1, <2>2
<1> QED BY <1>1, <1>2, PTL DEF Boot!Spec

\* However services die, probes go unanswered and templates change their marker, a sandbox
\* that is said to be ready had its services up, as the bootstrap saw them, and its command
\* was started once.
THEOREM ReadyIsSeen == Boot!Spec => []Boot!ReadyWasSeen
<1>1. BootInv => Boot!ReadyWasSeen
  BY DEF BootInv
<1> QED BY <1>1, AlwaysBootInv, PTL

-----------------------------------------------------------------------------
(* A terminal over SSH *)

\* Where a session is before its shell is asked for.
Waiting == {"none", "auth", "refused", "admitted"}
SshPlaces == Waiting \cup {"start", "flush", "command", "connect", "pump", "ended"}
Sessions ==
  [pc : SshPlaces,
   token : Tokens \cup {None}, at : Int, known : BOOLEAN, exec : BOOLEAN, spared : BOOLEAN,
   chan : {"open", "exited", "failed", "gone"}, pending : Seq(Nat), typed : Nat]

ShellTypes ==
  /\ session \in Sessions
  /\ shell = [st |-> shell.st, got |-> shell.got] /\ shell.st \in {"none", "live", "dead"}

\* A shell is asked for once, by a session that was admitted.
ShellAsked ==
  /\ session.pc \in Waiting => Ssh!Start \notin wire /\ shell.st = "none"
  /\ session.pc \in Waiting \cup {"start"} => ~session.known
  /\ Ssh!Start \in wire => shell.st = "none"
\* What a session knows is there, and only then does it kill.
ShellKnown ==
  /\ session.known => shell.st # "none" /\ Ssh!Start \notin wire
  /\ Ssh!Kill \in wire => session.known
\* The kill of a channel that is gone is under way, was served or missed.
ShellKilled ==
  /\ session.chan = "gone" => session.pc = "ended"
  /\ session.chan = "gone" /\ session.known =>
       Ssh!Kill \in wire \/ session.spared \/ shell.st # "live"

ShellInv == ShellTypes /\ ShellAsked /\ ShellKnown /\ ShellKilled

\* A session goes on and neither asks for a shell nor learns of it nor kills it.
LEMMA ShellGoes ==
  ASSUME ShellInv, NEW s \in Sessions, session' = s, UNCHANGED wire,
         s.known = session.known, s.spared = session.spared,
         session.chan = "gone" <=> s.chan = "gone",
         s.pc \in Waiting => session.pc \in Waiting,
         s.pc = "start" => session.pc = "start", session.pc = "ended" => s.pc = "ended",
         shell' = [st |-> shell'.st, got |-> shell'.got], shell'.st = shell.st
  PROVE  ShellInv'
BY DEF ShellInv, ShellTypes, ShellAsked, ShellKnown, ShellKilled, Sessions, Waiting

\* What it sets leaves a session one.
LEMMA SessionSet ==
  ASSUME NEW s \in Sessions, NEW p \in SshPlaces
  PROVE  /\ [s EXCEPT !.pc = p] \in Sessions
         /\ \A k \in Tokens \cup {None} : [s EXCEPT !.pc = p, !.token = k] \in Sessions
         /\ \A a \in Int : [s EXCEPT !.pc = p, !.at = a] \in Sessions
         /\ [s EXCEPT !.pc = p, !.known = TRUE] \in Sessions
         /\ \A e \in {"open", "exited", "failed", "gone"} :
              [s EXCEPT !.pc = p, !.chan = e] \in Sessions
BY DEF Sessions, SshPlaces

\* What the session does before its shell is known, but for asking for it.
LEMMA ShellWaits ==
  ASSUME ShellInv, Ssh!FindByToken \/ \E token \in Tokens : Ssh!BeginAuth(token)
  PROVE  ShellInv'
<1>1. session \in Sessions /\ UNCHANGED <<wire, shell>> /\ ShellTypes
  BY DEF ShellInv, ShellTypes, Ssh!FindByToken, Ssh!BeginAuth
<1>2. CASE Ssh!FindByToken
  <2>1. PICK p \in {"auth", "admitted", "refused"}, a \in {session.at, session.at + 1} :
          session' = [session EXCEPT !.pc = p, !.at = a] /\ session.pc = "auth"
    BY <1>2 DEF Ssh!FindByToken, Ssh!At
  <2>2. a \in Int
    BY <1>1, <2>1 DEF Sessions
  <2>3. session' \in Sessions
    BY <1>1, <2>1, <2>2, SessionSet DEF SshPlaces, Waiting
  <2>4. /\ session'.known = session.known /\ session'.spared = session.spared
        /\ session'.chan = session.chan /\ session'.pc \in Waiting /\ session'.pc \notin {"start", "ended"}
    BY <1>1, <2>1 DEF Sessions, Waiting
  <2> QED
    BY <1>1, <2>1, <2>3, <2>4, ShellGoes DEF ShellTypes, Waiting
<1>3. CASE \E token \in Tokens : Ssh!BeginAuth(token)
  <2>1. PICK token \in Tokens :
          session' = [session EXCEPT !.pc = "auth", !.token = token] /\ session.pc = "none"
    BY <1>3 DEF Ssh!BeginAuth, Ssh!At
  <2>2. session' \in Sessions
    BY <1>1, <2>1, SessionSet DEF SshPlaces, Waiting
  <2>3. /\ session'.known = session.known /\ session'.spared = session.spared
        /\ session'.chan = session.chan /\ session'.pc = "auth"
    BY <1>1, <2>1 DEF Sessions, Waiting
  <2> QED
    BY <1>1, <2>1, <2>2, <2>3, ShellGoes DEF ShellTypes, Waiting
<1> QED BY <1>2, <1>3

\* The shell is asked for, and the session learns of it.
LEMMA ShellBegins == ASSUME ShellInv, Ssh!Requested \/ Ssh!Started PROVE ShellInv'
<1>1. session \in Sessions /\ ShellTypes /\ UNCHANGED shell
  BY DEF ShellInv, ShellTypes, Ssh!Requested, Ssh!Started
<1>2. CASE Ssh!Requested
  <2>1. /\ session' = [session EXCEPT !.pc = "start"] /\ session.pc = "admitted"
        /\ session.chan = "open" /\ wire' = wire \cup {Ssh!Start}
    BY <1>2 DEF Ssh!Requested, Ssh!At, Ssh!Awaited
  <2>2. session' \in Sessions
    BY <1>1, <2>1, SessionSet DEF SshPlaces
  <2>3. /\ session'.known = session.known /\ session'.spared = session.spared
        /\ session'.chan = session.chan /\ session'.pc = "start"
    BY <1>1, <2>1 DEF Sessions, SshPlaces
  <2>4. Ssh!Kill # Ssh!Start
    BY DEF Ssh!Kill, Ssh!Start
  <2> QED
    BY <1>1, <2>1, <2>2, <2>3, <2>4
    DEF ShellInv, ShellTypes, ShellAsked, ShellKnown, ShellKilled, Waiting
<1>3. CASE Ssh!Started
  <2>1. /\ session' = [session EXCEPT !.pc = "flush", !.known = TRUE] /\ session.pc = "start"
        /\ shell.st # "none" /\ UNCHANGED wire
    BY <1>3 DEF Ssh!Started, Ssh!At
  <2>2. session' \in Sessions
    BY <1>1, <2>1, SessionSet DEF SshPlaces
  <2>3. /\ session'.known /\ session'.spared = session.spared
        /\ session'.chan = session.chan /\ session'.pc = "flush"
    BY <1>1, <2>1 DEF Sessions, SshPlaces
  <2> QED
    BY <1>1, <2>1, <2>2, <2>3
    DEF ShellInv, ShellTypes, ShellAsked, ShellKnown, ShellKilled, Waiting
<1> QED BY <1>2, <1>3

\* The shell hears a message.
LEMMA ShellHears ==
  ASSUME ShellTypes, NEW message
  PROVE  /\ Ssh!Hears(message) = [st |-> Ssh!Hears(message).st, got |-> Ssh!Hears(message).got]
         /\ Ssh!Hears(message).st = shell.st
<1> DEFINE g == Append(shell.got, message)
<1>1. shell = [st |-> shell.st, got |-> shell.got]
  BY DEF ShellTypes
<1>2. [shell EXCEPT !.got = g] = [st |-> shell.st, got |-> g]
  <2> HIDE DEF g
  <2> QED BY <1>1
<1>3. Ssh!Hears(message) = IF shell.st = "live" THEN [st |-> shell.st, got |-> g] ELSE shell
  BY <1>2 DEF Ssh!Hears
<1> HIDE DEF g
<1> QED BY <1>1, <1>3

\* The client types.
LEMMA ShellTyped == ASSUME ShellInv, NEW eof \in BOOLEAN, Ssh!DataReceived(eof) PROVE ShellInv'
<1> DEFINE message == session.typed + 1
           pending == IF session.known \/ eof THEN session.pending ELSE Append(session.pending, message)
<1>1. session \in Sessions /\ ShellTypes /\ UNCHANGED shell
  BY DEF ShellInv, ShellTypes, Ssh!DataReceived
<1>2. message \in Nat /\ message > 0 /\ pending \in Seq(Nat)
  BY <1>1 DEF Sessions
<1>3. session' = [session EXCEPT !.typed = message, !.pending = pending]
  BY DEF Ssh!DataReceived
<1>4. PICK w : wire' = wire \cup w /\ (w = {} \/ (w = {message} /\ session.known))
  BY DEF Ssh!DataReceived
<1>5. message # Ssh!Kill /\ message # Ssh!Start
  BY <1>2 DEF Ssh!Kill, Ssh!Start
<1> HIDE DEF message, pending
<1>6. /\ session' \in Sessions /\ session'.known = session.known /\ session'.spared = session.spared
      /\ session'.chan = session.chan /\ session'.pc = session.pc
  BY <1>1, <1>2, <1>3 DEF Sessions
<1> QED
  BY <1>1, <1>4, <1>5, <1>6
  DEF ShellInv, ShellTypes, ShellAsked, ShellKnown, ShellKilled, Waiting

\* The session hands on what was typed and the command, and follows the shell.
LEMMA ShellServes ==
  ASSUME ShellInv, Ssh!Flush \/ Ssh!Command \/ Ssh!Connect \/ Ssh!PumpEnds \/ Ssh!PumpStops \/ Ssh!Fails
  PROVE  ShellInv'
<1>1. session \in Sessions /\ ShellTypes /\ UNCHANGED wire
  BY DEF ShellInv, ShellTypes, Ssh!Flush, Ssh!Command, Ssh!Connect, Ssh!PumpEnds, Ssh!PumpStops, Ssh!Fails
<1>2. shell' = [st |-> shell'.st, got |-> shell'.got] /\ shell'.st = shell.st
  <2>1. \/ UNCHANGED shell
        \/ \E message : shell' = Ssh!Hears(message)
    BY DEF Ssh!Flush, Ssh!Command, Ssh!Connect, Ssh!PumpEnds, Ssh!PumpStops, Ssh!Fails
  <2>2. CASE UNCHANGED shell
    BY <1>1, <2>2 DEF ShellTypes
  <2>3. CASE \E message : shell' = Ssh!Hears(message)
    BY <1>1, <2>3, ShellHears
  <2> QED BY <2>1, <2>2, <2>3
<1>3. /\ session.pc \in {"start", "flush", "command", "connect", "pump"}
      /\ \/ session' = [session EXCEPT !.pending = Tail(session.pending)] /\ session.pending # << >>
         \/ \E p \in {"command", "connect", "pump", "ended"} : session' = [session EXCEPT !.pc = p]
         \/ \E e \in {"exited", "failed", "gone", "open"} :
              /\ session' = [session EXCEPT !.pc = "ended", !.chan = e]
              /\ session.chan = "gone" <=> e = "gone"
  <2>1. session.chan \in {"open", "exited", "failed", "gone"}
    BY <1>1 DEF Sessions
  <2>2. CASE Ssh!Flush
    BY <2>2 DEF Ssh!Flush, Ssh!At, Ssh!Awaited
  <2>3. CASE Ssh!Command \/ Ssh!Connect \/ Ssh!PumpStops
    BY <2>3 DEF Ssh!Command, Ssh!Connect, Ssh!PumpStops, Ssh!At, Ssh!Awaited
  <2>4. CASE Ssh!PumpEnds
    BY <2>4 DEF Ssh!PumpEnds, Ssh!At
  <2>5. CASE Ssh!Fails
    BY <2>1, <2>5 DEF Ssh!Fails
  <2> QED BY <2>2, <2>3, <2>4, <2>5
<1>4. /\ session' \in Sessions /\ session'.known = session.known /\ session'.spared = session.spared
      /\ session.chan = "gone" <=> session'.chan = "gone"
      /\ session'.pc \in {session.pc, "command", "connect", "pump", "ended"}
  <2>1. CASE session' = [session EXCEPT !.pending = Tail(session.pending)] /\ session.pending # << >>
    <3>1. Tail(session.pending) \in Seq(Nat)
      BY <1>1, <2>1 DEF Sessions
    <3> QED BY <1>1, <2>1, <3>1 DEF Sessions
  <2>2. CASE \E p \in {"command", "connect", "pump", "ended"} : session' = [session EXCEPT !.pc = p]
    <3>1. PICK p \in {"command", "connect", "pump", "ended"} : session' = [session EXCEPT !.pc = p]
      BY <2>2
    <3>2. session' \in Sessions
      BY <1>1, <3>1, SessionSet DEF SshPlaces
    <3> QED BY <1>1, <3>1, <3>2 DEF Sessions, SshPlaces
  <2>3. CASE \E e \in {"exited", "failed", "gone", "open"} :
               /\ session' = [session EXCEPT !.pc = "ended", !.chan = e]
               /\ session.chan = "gone" <=> e = "gone"
    <3>1. PICK e \in {"exited", "failed", "gone", "open"} :
               /\ session' = [session EXCEPT !.pc = "ended", !.chan = e]
               /\ session.chan = "gone" <=> e = "gone"
      BY <2>3
    <3>2. session' \in Sessions
      BY <1>1, <3>1, SessionSet DEF SshPlaces
    <3> QED BY <1>1, <3>1, <3>2 DEF Sessions, SshPlaces
  <2> QED BY <1>3, <2>1, <2>2, <2>3
<1> QED
  BY <1>1, <1>2, <1>3, <1>4, ShellGoes DEF Waiting

\* The connection is lost.
LEMMA ShellLost == ASSUME ShellInv, Ssh!ConnectionLost PROVE ShellInv'
<1>1. /\ session \in Sessions /\ ShellTypes /\ UNCHANGED shell
      /\ session' = [session EXCEPT !.pc = "ended", !.chan = "gone"]
      /\ wire' = wire \cup (IF session.known THEN {Ssh!Kill} ELSE {})
  BY DEF ShellInv, ShellTypes, Ssh!ConnectionLost, Ssh!Kills
<1>2. session' \in Sessions
  BY <1>1, SessionSet DEF SshPlaces
<1>3. /\ session'.known = session.known /\ session'.spared = session.spared
      /\ session'.chan = "gone" /\ session'.pc = "ended"
  BY <1>1 DEF Sessions, SshPlaces
<1>4. Ssh!Kill # Ssh!Start
  BY DEF Ssh!Kill, Ssh!Start
<1> QED
  BY <1>1, <1>2, <1>3, <1>4 DEF ShellInv, ShellTypes, ShellAsked, ShellKnown, ShellKilled, Waiting

\* A request arrives at envd, or misses it.
LEMMA ShellArrives ==
  ASSUME ShellInv, NEW request \in Ssh!Requests, Ssh!Arrives(request) \/ Ssh!Misses(request)
  PROVE  ShellInv'
<1>1. session \in Sessions /\ ShellTypes /\ request \in wire /\ wire' = wire \ {request}
  BY DEF ShellInv, ShellTypes, Ssh!Arrives, Ssh!Misses
<1>2. CASE Ssh!Arrives(request)
  <2>1. UNCHANGED session
    BY <1>2 DEF Ssh!Arrives
  <2>2. CASE request = Ssh!Start
    <3>1. PICK v \in {shell.st, "live"} : shell' = [shell EXCEPT !.st = v]
      BY <1>2, <2>2 DEF Ssh!Arrives, Ssh!Kill, Ssh!Start
    <3>2. shell' = [st |-> shell'.st, got |-> shell'.got] /\ shell'.st \in {"none", "live", "dead"}
      BY <1>1, <3>1 DEF ShellTypes
    <3>3. session.pc \notin Waiting /\ ~session.known /\ Ssh!Kill \notin wire
      BY <1>1, <2>2 DEF ShellInv, ShellAsked, ShellKnown
    <3> QED
      BY <1>1, <2>1, <2>2, <3>2, <3>3
      DEF ShellInv, ShellTypes, ShellAsked, ShellKnown, ShellKilled, Waiting
  <2>3. CASE request = Ssh!Kill
    <3>1. shell' = [shell EXCEPT !.st = "dead"]
      BY <1>2, <2>3 DEF Ssh!Arrives, Ssh!Kill, Ssh!Start
    <3>2. shell' = [st |-> shell'.st, got |-> shell'.got] /\ shell'.st = "dead"
      BY <1>1, <3>1 DEF ShellTypes
    <3>3. session.known /\ session.pc \notin Waiting /\ Ssh!Start \notin wire
      BY <1>1, <2>3 DEF ShellInv, ShellAsked, ShellKnown
    <3> QED
      BY <1>1, <2>1, <2>3, <3>2, <3>3
      DEF ShellInv, ShellTypes, ShellAsked, ShellKnown, ShellKilled, Waiting
  <2>4. CASE request \notin {Ssh!Start, Ssh!Kill}
    <3>1. shell' = Ssh!Hears(request)
      BY <1>2, <2>4 DEF Ssh!Arrives
    <3>2. shell' = [st |-> shell'.st, got |-> shell'.got] /\ shell'.st = shell.st
      BY <1>1, <3>1, ShellHears
    <3> QED
      BY <1>1, <2>1, <2>4, <3>2
      DEF ShellInv, ShellTypes, ShellAsked, ShellKnown, ShellKilled, Waiting
  <2> QED BY <2>2, <2>3, <2>4
<1>3. CASE Ssh!Misses(request)
  <2>1. /\ session' = [session EXCEPT !.spared = session.spared \/ request = Ssh!Kill]
        /\ request # Ssh!Start /\ UNCHANGED shell
    BY <1>3 DEF Ssh!Misses
  <2>2. PICK b \in BOOLEAN :
          session' = [session EXCEPT !.spared = b] /\ (b <=> session.spared \/ request = Ssh!Kill)
    BY <2>1
  <2>3. /\ session' \in Sessions /\ session'.known = session.known /\ session'.spared = b
        /\ session'.chan = session.chan /\ session'.pc = session.pc
    BY <1>1, <2>2 DEF Sessions
  <2> QED
    BY <1>1, <2>1, <2>2, <2>3
    DEF ShellInv, ShellTypes, ShellAsked, ShellKnown, ShellKilled, Waiting
<1> QED BY <1>2, <1>3

\* The shell exits, or the sandbox goes.
LEMMA ShellEnds == ASSUME ShellInv, Ssh!ShellExits \/ Ssh!Delete PROVE ShellInv'
<1>1. UNCHANGED <<session, wire>> /\ ShellTypes
  BY DEF ShellInv, Ssh!ShellExits, Ssh!Delete
<1>2. shell' = [shell EXCEPT !.st = IF shell.st = "live" THEN "dead" ELSE shell.st]
  BY DEF Ssh!ShellExits, Ssh!Delete
<1>3. /\ shell' = [st |-> shell'.st, got |-> shell'.got]
      /\ shell'.st = IF shell.st = "live" THEN "dead" ELSE shell.st
  BY <1>1, <1>2 DEF ShellTypes
<1> QED
  BY <1>1, <1>3 DEF ShellInv, ShellTypes, ShellAsked, ShellKnown, ShellKilled, Waiting

\* A session over SSH and its shell, always.
LEMMA AlwaysShellInv == Ssh!Spec => []ShellInv
<1>1. Ssh!Init => ShellInv
  <2> SUFFICES ASSUME Ssh!Init PROVE ShellInv
    OBVIOUS
  <2>1. << >> \in Seq(Nat)
    OBVIOUS
  <2>2. session \in Sessions
    <3>1. PICK e \in BOOLEAN :
            session = [pc |-> "none", token |-> None, at |-> 0, known |-> FALSE, exec |-> e,
                       spared |-> FALSE, chan |-> "open", pending |-> << >>, typed |-> 0]
      BY DEF Ssh!Init
    <3> QED BY <2>1, <3>1 DEF Sessions, SshPlaces, Waiting
  <2>3. session.pc = "none" /\ ~session.known /\ session.chan = "open" /\ wire = {}
        /\ shell = [st |-> "none", got |-> << >>]
    BY DEF Ssh!Init
  <2> QED
    BY <2>2, <2>3 DEF ShellInv, ShellTypes, ShellAsked, ShellKnown, ShellKilled, Waiting
<1>2. ShellInv /\ [Ssh!Next]_(Ssh!vars) => ShellInv'
  <2> SUFFICES ASSUME ShellInv, [Ssh!Next]_(Ssh!vars) PROVE ShellInv'
    OBVIOUS
  <2>1. ASSUME UNCHANGED <<session, wire, shell>> PROVE ShellInv'
    BY <2>1 DEF ShellInv, ShellTypes, ShellAsked, ShellKnown, ShellKilled
  <2>2. CASE UNCHANGED Ssh!vars
    BY <2>1, <2>2 DEF Ssh!vars
  <2>3. ASSUME NEW r \in Replicas, Ssh!Saves(r) \/ \E token \in Tokens,
          what \in {"create", "revoke", "revoke_all"} : Ssh!Reads(r, what, token)
        PROVE ShellInv'
    BY <2>1, <2>3 DEF Ssh!Saves, Ssh!Reads
  <2>4. ASSUME NEW token \in Tokens, Ssh!Expires(token) PROVE ShellInv'
    BY <2>1, <2>4 DEF Ssh!Expires
  <2>5. ASSUME NEW n \in 0..MaxOthers, Ssh!OtherRows(n) PROVE ShellInv'
    BY <2>1, <2>5 DEF Ssh!OtherRows
  <2> QED
    BY <2>2, <2>3, <2>4, <2>5, ShellWaits, ShellBegins, ShellTyped, ShellServes, ShellLost,
       ShellArrives, ShellEnds
    DEF Ssh!Next
<1> QED BY <1>1, <1>2, PTL DEF Ssh!Spec

\* However the row's tokens change, requests overtake each other and connections are lost, a
\* connection that is over leaves no live shell behind, unless the one request that kills it
\* failed or it was lost while the shell was being started.
THEOREM NoShellLeft == Ssh!Spec => []Ssh!LeavesNoShell
<1>1. ShellInv => Ssh!LeavesNoShell
  BY DEF ShellInv, ShellKilled, Ssh!LeavesNoShell
<1> QED BY <1>1, AlwaysShellInv, PTL

------------------------------------------------------------------------------
(* The streams of envd                                                     *)

\* The n-th event of a stream that replays up to u and follows from j on.
NthEvent(u, j, n) == IF n <= u THEN n ELSE j + (n - u)

StreamStates == {"none", "start", "replay", "live", "done", "gone"}
\* A stream in state a, of kind k, that has yielded s and has q in its queue, when the history
\* has h events: s are the first of its events, and q the next ones, to the end of the history.
Streaming(a, k, u, j, s, q, h) ==
  /\ a \in StreamStates /\ u \in Nat /\ j \in Nat /\ s \in Seq(Nat) /\ q \in Seq(Nat)
  /\ \A i \in 1..Len(s) : s[i] = NthEvent(u, j, i)
  /\ u < Len(s) => u <= j /\ (k = "legacy" => u = j)
  /\ a \in {"none", "start"} => s = << >>
  /\ a = "replay" => Len(s) <= u /\ u <= h
  /\ a = "done" => s # << >>
  /\ a # "live" => q = << >>
  /\ a = "live" =>
       /\ u <= Len(s) /\ u <= j /\ j <= h /\ (k = "legacy" => u = j)
       /\ Len(s) + Len(q) + j = h + u
       /\ \A i \in 1..Len(q) : q[i] = NthEvent(u, j, Len(s) + i)
StreamInv ==
  /\ history \in Seq(Envd!AllPipes \cup {"end"})
  /\ kind \in [Streams -> {"legacy", "connect"}] /\ at \in [Streams -> StreamStates]
  /\ upto \in [Streams -> Nat] /\ joined \in [Streams -> Nat]
  /\ sent \in [Streams -> Seq(Nat)] /\ queue \in [Streams -> Seq(Nat)]
  /\ \A c \in Streams :
       Streaming(at[c], kind[c], upto[c], joined[c], sent[c], queue[c], Len(history))
  /\ Envd!EndIsLast

\* A sequence with one element more.
LEMMA AppendOne ==
  ASSUME NEW s \in Seq(Nat), NEW e \in Nat
  PROVE  /\ Append(s, e) \in Seq(Nat) /\ Len(Append(s, e)) = Len(s) + 1
         /\ Append(s, e) # << >> /\ Append(s, e)[Len(s) + 1] = e
         /\ \A i \in 1..Len(s) : Append(s, e)[i] = s[i]
<1>1. /\ Append(s, e) \in Seq(Nat) /\ Len(Append(s, e)) = Len(s) + 1
      /\ Len(s) \in Nat
  OBVIOUS
<1>2. Len(Append(s, e)) # 0
  BY <1>1
<1>3. Append(s, e) # << >>
  BY <1>2
<1>4. Append(s, e)[Len(s) + 1] = e /\ \A i \in 1..Len(s) : Append(s, e)[i] = s[i]
  OBVIOUS
<1> QED BY <1>1, <1>3, <1>4

\* One more event: a live stream gets it in its queue.
LEMMA StreamGets ==
  ASSUME NEW a, NEW k, NEW u, NEW j, NEW s, NEW q, NEW h \in Nat,
         Streaming(a, k, u, j, s, q, h)
  PROVE  Streaming(a, k, u, j, s, IF a = "live" THEN Append(q, h + 1) ELSE q, h + 1)
<1>1. /\ a \in StreamStates /\ u \in Nat /\ j \in Nat /\ s \in Seq(Nat) /\ q \in Seq(Nat)
      /\ Len(s) \in Nat /\ Len(q) \in Nat
  BY DEF Streaming
<1>2. CASE a # "live"
  BY <1>1, <1>2 DEF Streaming
<1>3. CASE a = "live"
  <2>1. /\ u <= Len(s) /\ u <= j /\ j <= h /\ (k = "legacy" => u = j)
        /\ Len(s) + Len(q) + j = h + u
        /\ \A i \in 1..Len(q) : q[i] = NthEvent(u, j, Len(s) + i)
    BY <1>3 DEF Streaming
  <2>2. Append(q, h + 1) \in Seq(Nat) /\ Len(Append(q, h + 1)) = Len(q) + 1
    BY <1>1
  <2>3. h + 1 = NthEvent(u, j, Len(s) + (Len(q) + 1))
    BY <1>1, <2>1, SMTT(30) DEF NthEvent
  <2>4. ASSUME NEW i \in 1..Len(q) + 1 PROVE Append(q, h + 1)[i] = NthEvent(u, j, Len(s) + i)
    BY <1>1, <2>1, <2>3
  <2>5. Len(s) + (Len(q) + 1) + j = (h + 1) + u
    <3> DEFINE m == Len(s)
               n == Len(q)
    <3>1. m \in Nat /\ n \in Nat /\ m + n + j = h + u
      BY <1>1, <2>1
    <3> HIDE DEF m, n
    <3>2. m + (n + 1) + j = (h + 1) + u
      BY <1>1, <3>1
    <3> QED BY <3>2 DEF m, n
  <2> QED BY <1>1, <1>3, <2>1, <2>2, <2>4, <2>5, SMTT(30) DEF Streaming
<1> QED BY <1>2, <1>3

\* A stream that replays yields the next event of the history, or goes live behind its end.
LEMMA StreamYields ==
  ASSUME NEW a \in {"start", "replay"}, NEW k, NEW u, NEW j, NEW s, NEW q, NEW h \in Nat,
         NEW v \in Nat, Streaming(a, k, u, j, s, q, h),
         v = IF k = "legacy" \/ a = "start" THEN h ELSE u
  PROVE  IF Len(s) < v
           THEN \A b \in {"replay", "done"} :
                  Streaming(b, k, v, j, Append(s, Len(s) + 1), q, h)
           ELSE Streaming("live", k, v, h, s, q, h)
<1>1. /\ u \in Nat /\ j \in Nat /\ s \in Seq(Nat) /\ q = << >> /\ Len(q) = 0
      /\ Len(s) \in Nat /\ Len(s) <= v /\ v <= h /\ (k = "legacy" => v = h)
  BY DEF Streaming
<1>2. \A i \in 1..Len(s) : s[i] = i
  BY <1>1 DEF Streaming, NthEvent
<1>3. ASSUME Len(s) < v, NEW b \in {"replay", "done"}
      PROVE  Streaming(b, k, v, j, Append(s, Len(s) + 1), q, h)
  <2>1. /\ Append(s, Len(s) + 1) \in Seq(Nat) /\ Len(Append(s, Len(s) + 1)) = Len(s) + 1
        /\ Append(s, Len(s) + 1) # << >> /\ q \in Seq(Nat) /\ b \in StreamStates
    BY <1>1 DEF StreamStates
  <2>2. ASSUME NEW i \in 1..Len(s) + 1 PROVE Append(s, Len(s) + 1)[i] = NthEvent(v, j, i)
    BY <1>1, <1>2, <1>3 DEF NthEvent
  <2> QED BY <1>1, <1>3, <2>1, <2>2 DEF Streaming
<1>4. ASSUME ~(Len(s) < v) PROVE Streaming("live", k, v, h, s, q, h)
  <2>1. Len(s) = v /\ q \in Seq(Nat) /\ "live" \in StreamStates
    BY <1>1, <1>4 DEF StreamStates
  <2>2. \A i \in 1..Len(s) : s[i] = NthEvent(v, h, i)
    BY <1>1, <1>2, <2>1 DEF NthEvent
  <2>3. Len(s) + Len(q) + h = h + v
    BY <1>1, <2>1
  <2> QED BY <1>1, <2>1, <2>2, <2>3 DEF Streaming
<1> QED BY <1>3, <1>4

\* A live stream yields the first of its queue, and may end with it.
LEMMA StreamFollows ==
  ASSUME NEW k, NEW u, NEW j, NEW s, NEW q, NEW h \in Nat,
         Streaming("live", k, u, j, s, q, h), q # << >>
  PROVE  /\ Streaming("live", k, u, j, Append(s, Head(q)), Tail(q), h)
         /\ Streaming("done", k, u, j, Append(s, Head(q)), << >>, h)
<1>1. /\ u \in Nat /\ j \in Nat /\ s \in Seq(Nat) /\ q \in Seq(Nat)
      /\ Len(s) \in Nat /\ Len(q) \in Nat /\ Len(q) # 0
  BY DEF Streaming
<1>2. /\ u <= Len(s) /\ u <= j /\ j <= h /\ (k = "legacy" => u = j)
      /\ Len(s) + Len(q) + j = h + u
      /\ \A i \in 1..Len(q) : q[i] = NthEvent(u, j, Len(s) + i)
      /\ \A i \in 1..Len(s) : s[i] = NthEvent(u, j, i)
  BY DEF Streaming
<1>3. Head(q) = NthEvent(u, j, Len(s) + 1) /\ Head(q) \in Nat
  BY <1>1, <1>2
<1> DEFINE e == Head(q)
           t == Tail(q)
<1>4. t \in Seq(Nat) /\ Len(t) = Len(q) - 1 /\ \A i \in 1..Len(q) - 1 : t[i] = q[i + 1]
  BY <1>1
<1>5. e = NthEvent(u, j, Len(s) + 1) /\ e \in Nat
  BY <1>3
<1> HIDE DEF e, t
<1>6. Append(s, e) \in Seq(Nat) /\ Len(Append(s, e)) = Len(s) + 1 /\ Append(s, e) # << >>
  BY <1>1, <1>5, AppendOne
<1>7. ASSUME NEW i \in 1..Len(s) + 1 PROVE Append(s, e)[i] = NthEvent(u, j, i)
  BY <1>1, <1>2, <1>5, AppendOne
<1>8. ASSUME NEW i \in 1..Len(t) PROVE t[i] = NthEvent(u, j, (Len(s) + 1) + i)
  <2>1. i \in 1..Len(q) - 1 /\ i + 1 \in 1..Len(q)
    BY <1>1, <1>4
  <2>2. t[i] = NthEvent(u, j, Len(s) + (i + 1))
    BY <1>2, <1>4, <2>1
  <2>3. Len(s) + (i + 1) = (Len(s) + 1) + i
    BY <1>1, <2>1
  <2> QED BY <2>2, <2>3
<1>9. (Len(s) + 1) + Len(t) + j = h + u
  <2> DEFINE m == Len(s)
             n == Len(q)
  <2>1. m \in Nat /\ n \in Nat /\ m + n + j = h + u
    BY <1>1, <1>2
  <2>2. Len(t) = n - 1
    BY <1>4
  <2> HIDE DEF m, n
  <2>3. (m + 1) + (n - 1) + j = h + u
    BY <1>1, <2>1
  <2> QED BY <2>2, <2>3 DEF m, n
<1>10. Streaming("live", k, u, j, Append(s, e), t, h)
  <2>1. u <= Len(s) + 1
    BY <1>1, <1>2
  <2>2. "live" \in StreamStates
    BY DEF StreamStates
  <2> QED BY <1>1, <1>2, <1>4, <1>6, <1>7, <1>8, <1>9, <2>1, <2>2 DEF Streaming
<1>11. Streaming("done", k, u, j, Append(s, e), << >>, h)
  <2>1. "done" \in StreamStates /\ << >> \in Seq(Nat)
    BY DEF StreamStates
  <2> QED BY <1>1, <1>2, <1>6, <1>7, <2>1 DEF Streaming
<1> QED BY <1>10, <1>11 DEF e, t

\* A stream begins, or its client goes away.
LEMMA StreamOpens ==
  ASSUME NEW a, NEW k, NEW u, NEW j, NEW s, NEW q, NEW h \in Nat,
         Streaming(a, k, u, j, s, q, h)
  PROVE  /\ a = "none" => Streaming("start", k, u, j, s, q, h)
         /\ Streaming("gone", k, u, j, s, << >>, h)
BY DEF Streaming, StreamStates

Rising(got) == \A i, j \in 1..Len(got) : i < j => got[i] < got[j]
GapOf(k, u, j) == IF k = "legacy" THEN {} ELSE (u + 1)..j
LastOf(a, s, h) == IF a = "live" THEN h ELSE s[Len(s)]
Complete(got, gap, last) ==
  \A i \in (1..last) \ gap : \E j \in 1..Len(got) : got[j] = i

\* What a stream has and gets is in order, and leaves out only what came between the copy
\* that it replayed and its subscription.
LEMMA StreamOrdered ==
  ASSUME NEW a, NEW k \in {"legacy", "connect"}, NEW u, NEW j, NEW s, NEW q, NEW h \in Nat,
         Streaming(a, k, u, j, s, q, h)
  PROVE  /\ Rising(s \o q)
         /\ a \in {"live", "done"} =>
              Complete(s \o q, GapOf(k, u, j), LastOf(a, s, h))
<1> DEFINE got == s \o q
           gap == GapOf(k, u, j)
           last == LastOf(a, s, h)
<1>1. /\ u \in Nat /\ j \in Nat /\ s \in Seq(Nat) /\ q \in Seq(Nat) /\ got \in Seq(Nat)
      /\ Len(s) \in Nat /\ Len(q) \in Nat /\ Len(got) = Len(s) + Len(q)
  BY DEF Streaming
<1>2. a # "live" => q = << >> /\ Len(q) = 0
  BY DEF Streaming
<1>3. ASSUME NEW i \in 1..Len(got) PROVE got[i] = NthEvent(u, j, i)
  <2>1. CASE i <= Len(s)
    <3>1. i \in 1..Len(s) /\ got[i] = s[i]
      BY <1>1, <2>1
    <3> QED BY <3>1 DEF Streaming
  <2>2. CASE i > Len(s)
    <3>1. a = "live" /\ i - Len(s) \in 1..Len(q) /\ got[i] = q[i - Len(s)]
      BY <1>1, <1>2, <2>2
    <3>2. \A m \in 1..Len(q) : q[m] = NthEvent(u, j, Len(s) + m)
      BY <3>1 DEF Streaming
    <3>3. Len(s) + (i - Len(s)) = i
      BY <1>1
    <3> QED BY <3>1, <3>2, <3>3
  <2> QED BY <1>1, <2>1, <2>2
<1>4. u < Len(got) => u <= j /\ (k = "legacy" => u = j)
  BY <1>1, <1>2 DEF Streaming
<1>5. ASSUME NEW i \in 1..Len(got), NEW m \in 1..Len(got), i < m PROVE got[i] < got[m]
  <2>1. i \in Nat /\ m \in Nat /\ (u < m => u <= j) /\ i < m
    BY <1>1, <1>4, <1>5
  <2>2. NthEvent(u, j, i) < NthEvent(u, j, m)
    BY <1>1, <2>1 DEF NthEvent
  <2> QED BY <1>3, <2>2
<1>6. ASSUME a \in {"live", "done"}, NEW i \in (1..last) \ gap
      PROVE  \E m \in 1..Len(got) : got[m] = i
  <2>1. Len(got) >= 1 \/ a = "live"
    BY <1>1, <1>6 DEF Streaming
  <2>2. last = IF a = "live" THEN Len(got) + j - u ELSE NthEvent(u, j, Len(got))
    <3>1. CASE a = "live"
      BY <1>1, <3>1 DEF Streaming, LastOf
    <3>2. CASE a # "live"
      <4>1. Len(got) = Len(s) /\ Len(s) \in 1..Len(s)
        BY <1>1, <1>2, <1>6, <2>1, <3>2
      <4> QED BY <3>2, <4>1 DEF Streaming, LastOf
    <3> QED BY <3>1, <3>2
  <2>3. a = "live" => u <= Len(got) /\ u <= j /\ (k = "legacy" => u = j)
    BY <1>1 DEF Streaming
  <2>4. i \in Nat /\ i >= 1 /\ i <= last /\ (i <= u \/ i > j \/ k = "legacy")
    BY <1>1, <1>6, <2>2 DEF NthEvent, GapOf
  <2>5. CASE i <= u
    <3>1. i \in 1..Len(got) /\ NthEvent(u, j, i) = i
      BY <1>1, <1>4, <1>6, <2>1, <2>2, <2>3, <2>4, <2>5 DEF NthEvent
    <3> QED BY <1>3, <3>1
  <2>6. CASE i > u
    <3>1. i - j + u \in 1..Len(got) /\ NthEvent(u, j, i - j + u) = i
      BY <1>1, <1>4, <1>6, <2>1, <2>2, <2>3, <2>4, <2>6 DEF NthEvent
    <3> QED BY <1>3, <3>1
  <2> QED BY <1>1, <2>4, <2>5, <2>6
<1> QED BY <1>5, <1>6 DEF Rising, Complete

\* A step of c's generator.
LEMMA StreamMoves ==
  ASSUME StreamInv, NEW c \in Streams,
         NEW a, NEW u, NEW j, NEW s, NEW q,
         UNCHANGED <<isPty, history, kind>>,
         at' = [at EXCEPT ![c] = a], upto' = [upto EXCEPT ![c] = u],
         joined' = [joined EXCEPT ![c] = j], sent' = [sent EXCEPT ![c] = s],
         queue' = [queue EXCEPT ![c] = q],
         Streaming(a, kind[c], u, j, s, q, Len(history))
  PROVE  StreamInv'
<1>1. a \in StreamStates /\ u \in Nat /\ j \in Nat /\ s \in Seq(Nat) /\ q \in Seq(Nat)
  BY DEF Streaming
<1>2. /\ at' \in [Streams -> StreamStates] /\ upto' \in [Streams -> Nat]
      /\ joined' \in [Streams -> Nat] /\ sent' \in [Streams -> Seq(Nat)]
      /\ queue' \in [Streams -> Seq(Nat)]
  BY <1>1 DEF StreamInv
<1>3. ASSUME NEW d \in Streams
      PROVE  Streaming(at'[d], kind[d], upto'[d], joined'[d], sent'[d], queue'[d], Len(history))
  <2>1. CASE d = c
    BY <2>1 DEF StreamInv
  <2>2. CASE d # c
    BY <2>2 DEF StreamInv
  <2> QED BY <2>1, <2>2
<1>4. Envd!EndIsLast'
  BY DEF StreamInv, Envd!EndIsLast, Envd!Ended
<1> QED BY <1>2, <1>3, <1>4 DEF StreamInv

\* A generator yields from the history, or subscribes behind its end.
LEMMA StreamReplays ==
  ASSUME StreamInv, NEW c \in Streams, Envd!Replay(c)
  PROVE  StreamInv'
<1> DEFINE v == Envd!ReplayedUpto(c)
<1>1. /\ Streaming(at[c], kind[c], upto[c], joined[c], sent[c], queue[c], Len(history))
      /\ at[c] \in {"start", "replay"} /\ Len(history) \in Nat /\ upto[c] \in Nat
      /\ UNCHANGED <<isPty, history, kind, queue>> /\ upto' = [upto EXCEPT ![c] = v]
      /\ v = IF kind[c] = "legacy" \/ at[c] = "start" THEN Len(history) ELSE upto[c]
  BY DEF StreamInv, Envd!Replay, Envd!procVars, Envd!ReplayedUpto
<1>2. v \in Nat /\ queue' = [queue EXCEPT ![c] = queue[c]]
  BY <1>1 DEF StreamInv
<1>3. CASE Len(sent[c]) < v
  <2>1. PICK a \in {"replay", "done"} : at' = [at EXCEPT ![c] = a]
    BY <1>1, <1>3 DEF Envd!Replay, Envd!Yield, StreamInv
  <2>2. sent' = [sent EXCEPT ![c] = Append(sent[c], Len(sent[c]) + 1)]
        /\ joined' = [joined EXCEPT ![c] = joined[c]]
    BY <1>3 DEF Envd!Replay, Envd!Yield, StreamInv
  <2> HIDE DEF v
  <2>3. Streaming(a, kind[c], v, joined[c], Append(sent[c], Len(sent[c]) + 1), queue[c],
                  Len(history))
    BY <1>1, <1>2, <1>3, StreamYields
  <2> QED BY <1>1, <1>2, <2>1, <2>2, <2>3, StreamMoves, ZenonT(60)
<1>4. CASE ~(Len(sent[c]) < v)
  <2>1. /\ at' = [at EXCEPT ![c] = "live"] /\ joined' = [joined EXCEPT ![c] = Len(history)]
        /\ sent' = [sent EXCEPT ![c] = sent[c]]
    BY <1>4 DEF Envd!Replay, Envd!Subscribe, StreamInv
  <2> HIDE DEF v
  <2>2. Streaming("live", kind[c], v, Len(history), sent[c], queue[c], Len(history))
    BY <1>1, <1>2, <1>4, StreamYields
  <2> QED BY <1>1, <1>2, <2>1, <2>2, StreamMoves
<1> QED BY <1>3, <1>4

\* A generator follows its queue.
LEMMA StreamLives ==
  ASSUME StreamInv, NEW c \in Streams, Envd!Follow(c)
  PROVE  StreamInv'
<1> DEFINE s == Append(sent[c], Head(queue[c]))
<1>1. /\ Streaming("live", kind[c], upto[c], joined[c], sent[c], queue[c], Len(history))
      /\ at[c] = "live" /\ queue[c] # << >> /\ Len(history) \in Nat
      /\ UNCHANGED <<isPty, history, kind, upto, joined>> /\ sent' = [sent EXCEPT ![c] = s]
  BY DEF StreamInv, Envd!Follow, Envd!Yield, Envd!procVars
<1>2. upto' = [upto EXCEPT ![c] = upto[c]] /\ joined' = [joined EXCEPT ![c] = joined[c]]
  BY <1>1 DEF StreamInv
<1>3. /\ Streaming("live", kind[c], upto[c], joined[c], s, Tail(queue[c]), Len(history))
      /\ Streaming("done", kind[c], upto[c], joined[c], s, << >>, Len(history))
  BY <1>1, StreamFollows
<1>4. CASE history[Head(queue[c])] = "end"
  <2>1. at' = [at EXCEPT ![c] = "done"]
    BY <1>4 DEF Envd!Follow, Envd!Yield
  <2>2. queue' = [queue EXCEPT ![c] = << >>]
    BY <2>1 DEF Envd!Follow, StreamInv
  <2> HIDE DEF s
  <2> QED BY <1>1, <1>2, <1>3, <2>1, <2>2, StreamMoves
<1>5. CASE history[Head(queue[c])] # "end"
  <2>1. at' = [at EXCEPT ![c] = "live"]
    BY <1>1, <1>5 DEF Envd!Follow, Envd!Yield
  <2>2. at'[c] # "done"
    BY <2>1 DEF StreamInv
  <2>3. queue' = [queue EXCEPT ![c] = Tail(queue[c])]
    BY <2>2 DEF Envd!Follow
  <2> HIDE DEF s
  <2> QED BY <1>1, <1>2, <1>3, <2>1, <2>3, StreamMoves
<1> QED BY <1>4, <1>5

\* A stream is opened, or its client leaves.
LEMMA StreamComesAndGoes ==
  ASSUME StreamInv, NEW c \in Streams, Envd!Open(c) \/ Envd!Leave(c)
  PROVE  StreamInv'
<1>0. UNCHANGED <<isPty, history, kind>>
  BY DEF Envd!Open, Envd!Leave, Envd!procVars
<1>1. /\ Streaming(at[c], kind[c], upto[c], joined[c], sent[c], queue[c], Len(history))
      /\ Len(history) \in Nat /\ UNCHANGED <<upto, joined, sent>>
  BY DEF StreamInv, Envd!Open, Envd!Leave, Envd!procVars
<1>2. /\ upto' = [upto EXCEPT ![c] = upto[c]] /\ joined' = [joined EXCEPT ![c] = joined[c]]
      /\ sent' = [sent EXCEPT ![c] = sent[c]]
  BY <1>1 DEF StreamInv
<1>3. CASE Envd!Open(c)
  <2>1. at' = [at EXCEPT ![c] = "start"] /\ at[c] = "none"
        /\ queue' = [queue EXCEPT ![c] = queue[c]]
    BY <1>3 DEF Envd!Open, StreamInv
  <2>2. Streaming("start", kind[c], upto[c], joined[c], sent[c], queue[c], Len(history))
    BY <1>1, <2>1, StreamOpens
  <2> QED BY <1>0, <1>2, <2>1, <2>2, StreamMoves
<1>4. CASE Envd!Leave(c)
  <2>1. at' = [at EXCEPT ![c] = "gone"] /\ queue' = [queue EXCEPT ![c] = << >>]
    BY <1>4 DEF Envd!Leave
  <2>2. Streaming("gone", kind[c], upto[c], joined[c], sent[c], << >>, Len(history))
    BY <1>1, StreamOpens
  <2> QED BY <1>0, <1>2, <2>1, <2>2, StreamMoves
<1> QED BY <1>3, <1>4

\* An event is emitted; what follows a terminal's end is not.
LEMMA StreamsEmit ==
  ASSUME StreamInv, NEW what \in Envd!AllPipes \cup {"end"}, Envd!Emit(what),
         UNCHANGED <<isPty, Envd!streamVars>>,
         what # "end" => ~Envd!TerminalClosed
  PROVE  StreamInv'
<1>1. /\ history' = Append(history, what) /\ UNCHANGED <<isPty, kind, at, upto, sent, joined>>
      /\ \A c \in Streams :
           queue'[c] = IF at[c] = "live" THEN Append(queue[c], Len(history')) ELSE queue[c]
      /\ queue' = [c \in Streams |-> queue'[c]]
  BY DEF Envd!Emit, Envd!streamVars
<1>2. history \in Seq(Envd!AllPipes \cup {"end"})
  BY DEF StreamInv
<1>3. /\ Len(history) \in Nat /\ history' \in Seq(Envd!AllPipes \cup {"end"})
      /\ Len(history') = Len(history) + 1
  BY <1>1, <1>2
<1>4. ASSUME NEW c \in Streams
      PROVE  Streaming(at[c], kind[c], upto[c], joined[c], sent[c], queue'[c], Len(history'))
  <2>1. Streaming(at[c], kind[c], upto[c], joined[c], sent[c],
                  IF at[c] = "live" THEN Append(queue[c], Len(history) + 1) ELSE queue[c],
                  Len(history) + 1)
    BY <1>3, StreamGets DEF StreamInv
  <2> QED BY <1>1, <1>3, <2>1
<1>5. queue' \in [Streams -> Seq(Nat)]
  <2>1. \A c \in Streams : queue'[c] \in Seq(Nat)
    BY <1>4 DEF Streaming
  <2> QED BY <1>1, <2>1
<1>6. Envd!EndIsLast'
  <2>1. CASE what = "end"
    <3>1. history'[Len(history')] = "end"
      BY <1>1, <1>2, <1>3, <2>1
    <3> QED BY <3>1 DEF Envd!EndIsLast
  <2>2. CASE what # "end"
    <3>1. isPty => \A i \in 1..Len(history) : history[i] # "end"
      BY <2>2 DEF Envd!TerminalClosed, Envd!Ended
    <3>2. isPty => \A i \in 1..Len(history') : history'[i] # "end"
      BY <1>1, <1>2, <1>3, <2>2, <3>1
    <3> QED BY <1>1, <3>2 DEF Envd!EndIsLast, Envd!Ended
  <2> QED BY <2>1, <2>2
<1> QED BY <1>1, <1>3, <1>4, <1>5, <1>6 DEF StreamInv

\* Streams of a process and its history, always.
LEMMA AlwaysStreamInv == Envd!Spec => []StreamInv
<1>1. Envd!Init => StreamInv
  <2> SUFFICES ASSUME Envd!Init PROVE StreamInv
    OBVIOUS
  <2>1. /\ history = << >> /\ kind \in [Streams -> {"legacy", "connect"}]
        /\ at = [c \in Streams |-> "none"] /\ upto = [c \in Streams |-> 0]
        /\ joined = [c \in Streams |-> 0] /\ sent = [c \in Streams |-> << >>]
        /\ queue = [c \in Streams |-> << >>]
    BY DEF Envd!Init, Envd!Kinds
  <2>2. /\ history \in Seq(Envd!AllPipes \cup {"end"}) /\ Len(history) = 0
        /\ at \in [Streams -> StreamStates] /\ upto \in [Streams -> Nat]
        /\ joined \in [Streams -> Nat] /\ sent \in [Streams -> Seq(Nat)]
        /\ queue \in [Streams -> Seq(Nat)]
    BY <2>1 DEF StreamStates
  <2>3. ASSUME NEW k PROVE Streaming("none", k, 0, 0, << >>, << >>, 0)
    BY DEF Streaming, StreamStates
  <2>4. Envd!EndIsLast
    BY <2>2 DEF Envd!EndIsLast, Envd!Ended
  <2> QED BY <2>1, <2>2, <2>3, <2>4 DEF StreamInv
<1>2. StreamInv /\ [Envd!Next]_(Envd!vars) => StreamInv'
  <2> SUFFICES ASSUME StreamInv, [Envd!Next]_(Envd!vars) PROVE StreamInv'
    OBVIOUS
  <2>1. CASE \E p \in Envd!AllPipes : Envd!ReadChunk(p)
    <3>1. PICK p \in Envd!AllPipes : Envd!ReadChunk(p)
      BY <2>1
    <3>2. Envd!Emit(p) /\ UNCHANGED <<isPty, Envd!streamVars>> /\ ~Envd!TerminalClosed
      BY <3>1 DEF Envd!ReadChunk
    <3> QED BY <3>2, StreamsEmit
  <2>2. CASE Envd!WaitProcess /\ ~isPty
    <3>1. Envd!Emit("end") /\ UNCHANGED <<isPty, Envd!streamVars>>
      BY <2>2 DEF Envd!WaitProcess
    <3> QED BY <3>1, StreamsEmit
  <2>3. CASE Envd!WaitReader
    <3>1. Envd!Emit("end") /\ UNCHANGED <<isPty, Envd!streamVars>>
      BY <2>3 DEF Envd!WaitReader
    <3> QED BY <3>1, StreamsEmit
  <2>4. CASE UNCHANGED <<isPty, history, Envd!streamVars, queue>>
    BY <2>4 DEF StreamInv, Envd!streamVars, Envd!EndIsLast, Envd!Ended
  <2>5. CASE \E c \in Streams : Envd!Open(c) \/ Envd!Replay(c) \/ Envd!Follow(c) \/ Envd!Leave(c)
    BY <2>5, StreamComesAndGoes, StreamReplays, StreamLives
  <2>6. CASE Envd!Exit \/ (Envd!WaitProcess /\ isPty)
             \/ \E p \in Envd!AllPipes : Envd!Write(p) \/ Envd!Shut(p) \/ Envd!ReadEnds(p)
    BY <2>4, <2>6 DEF Envd!Exit, Envd!WaitProcess, Envd!Write, Envd!Shut, Envd!ReadEnds
  <2>7. CASE UNCHANGED Envd!vars
    BY <2>4, <2>7 DEF Envd!vars, Envd!procVars
  <2> QED BY <2>1, <2>2, <2>3, <2>5, <2>6, <2>7 DEF Envd!Next
<1> QED BY <1>1, <1>2, PTL DEF Envd!Spec

\* What a stream gives its client is what the process wrote, in its order, but for the one
\* window between replay and subscription, for any number of streams and chunks.
THEOREM WholeStreams == Envd!Spec => []Envd!StreamsWhole
<1>1. StreamInv => Envd!StreamsWhole
  <2> SUFFICES ASSUME StreamInv PROVE Envd!StreamsWhole
    OBVIOUS
  <2>1. ASSUME NEW c \in Streams
        PROVE  /\ Rising(sent[c] \o queue[c])
               /\ at[c] \in {"live", "done"} =>
                    Complete(sent[c] \o queue[c], GapOf(kind[c], upto[c], joined[c]),
                             LastOf(at[c], sent[c], Len(history)))
    <3>1. Streaming(at[c], kind[c], upto[c], joined[c], sent[c], queue[c], Len(history))
          /\ kind[c] \in {"legacy", "connect"} /\ Len(history) \in Nat
      BY DEF StreamInv
    <3> QED BY <3>1, StreamOrdered
  <2>2. Envd!InOrder
    BY <2>1 DEF Envd!InOrder, Envd!Got, Rising
  <2>3. Envd!NothingElseMissed
    BY <2>1 DEF Envd!NothingElseMissed, Envd!Got, Envd!Gap, GapOf, LastOf, Complete
  <2> QED BY <2>2, <2>3 DEF StreamInv, Envd!StreamsWhole
<1> QED BY <1>1, AlwaysStreamInv, PTL

------------------------------------------------------------------------------
(* WebSockets                                                              *)

HasCode(q) == \E k \in 1..Len(q) : q[k] \in Bridge!Codes
OnlyCodes(q) == \A k \in 1..Len(q) : q[k] \in Bridge!Codes
\* A link on which b messages were put and a of them were taken away: the others in their
\* order and, when the node that puts is over, perhaps a close behind them.
Flow(q, a, b, over) ==
  /\ a <= b /\ Len(q) \in {b - a, b - a + 1}
  /\ \A k \in 1..(b - a) : q[k] = a + k
  /\ Len(q) = b - a + 1 => q[b - a + 1] \in Bridge!Codes /\ over

\* Messages are told from closes.
LEMMA NumbersAreNoCodes == \A k \in Nat : k \notin Bridge!Codes
BY DEF Bridge!Codes, Bridge!Normal, Bridge!InternalError, Bridge!Abnormal

\* Where codes are in a queue that grows or is taken from.
LEMMA CodesPut ==
  ASSUME NEW q \in Seq(Int), NEW x \in Int
  PROVE  /\ HasCode(Append(q, x)) => HasCode(q) \/ x \in Bridge!Codes
         /\ OnlyCodes(q) /\ x \in Bridge!Codes => OnlyCodes(Append(q, x))
BY DEF HasCode, OnlyCodes

\* The packet that is taken, and those that stay.
LEMMA CodesTaken ==
  ASSUME NEW q \in Seq(Int), q # << >>
  PROVE  /\ Tail(q) \in Seq(Int) /\ Head(q) \in Int
         /\ HasCode(Tail(q)) => HasCode(q)
         /\ Head(q) \in Bridge!Codes => HasCode(q)
         /\ OnlyCodes(q) => OnlyCodes(Tail(q)) /\ Head(q) \in Bridge!Codes
<1>1. Len(q) \in Nat \ {0} /\ Len(Tail(q)) = Len(q) - 1 /\ Tail(q) \in Seq(Int)
      /\ Head(q) = q[1] /\ Head(q) \in Int
  OBVIOUS
<1>2. \A k \in 1..Len(q) - 1 : Tail(q)[k] = q[k + 1] /\ k + 1 \in 1..Len(q)
  BY <1>1
<1>3. 1 \in 1..Len(q)
  BY <1>1
<1> QED BY <1>1, <1>2, <1>3 DEF HasCode, OnlyCodes

\* A node puts its next message, or its close.
LEMMA FlowPuts ==
  ASSUME NEW q \in Seq(Int), NEW a \in Nat, NEW b \in Nat, Flow(q, a, b, FALSE)
  PROVE  /\ Flow(Append(q, b + 1), a, b + 1, FALSE)
         /\ \A x \in Bridge!Codes : Flow(Append(q, x), a, b, TRUE)
<1>1. a <= b /\ Len(q) = b - a /\ b - a \in Nat /\ \A k \in 1..(b - a) : q[k] = a + k
  BY DEF Flow
<1>2. ASSUME NEW x
      PROVE  /\ Len(Append(q, x)) = b - a + 1 /\ Append(q, x)[b - a + 1] = x
             /\ \A k \in 1..(b - a) : Append(q, x)[k] = a + k
  <2>1. /\ Len(Append(q, x)) = Len(q) + 1 /\ Append(q, x)[Len(q) + 1] = x
        /\ \A k \in 1..Len(q) : Append(q, x)[k] = q[k]
    OBVIOUS
  <2> QED BY <1>1, <2>1
<1>3. Flow(Append(q, b + 1), a, b + 1, FALSE)
  <2>1. b + 1 - a = b - a + 1 /\ a + (b - a + 1) = b + 1 /\ a <= b + 1
    BY <1>1
  <2>2. \A k \in 1..(b + 1 - a) : Append(q, b + 1)[k] = a + k
    BY <1>1, <1>2, <2>1
  <2>3. Len(Append(q, b + 1)) = b + 1 - a
    BY <1>2, <2>1
  <2> QED BY <2>1, <2>2, <2>3 DEF Flow
<1>4. ASSUME NEW x \in Bridge!Codes PROVE Flow(Append(q, x), a, b, TRUE)
  BY <1>1, <1>2 DEF Flow
<1> QED BY <1>3, <1>4

\* The next node takes a message, or the close, which is the last it finds.
LEMMA FlowTaken ==
  ASSUME NEW q \in Seq(Int), NEW a \in Nat, NEW b \in Nat, NEW over, Flow(q, a, b, over),
         q # << >>
  PROVE  /\ Head(q) \notin Bridge!Codes =>
              Head(q) = a + 1 /\ Flow(Tail(q), a + 1, b, over)
         /\ Head(q) \in Bridge!Codes => a = b /\ over /\ Tail(q) = << >>
<1>1. /\ a <= b /\ Len(q) \in {b - a, b - a + 1} /\ b - a \in Nat /\ Len(q) \in Nat \ {0}
      /\ \A k \in 1..(b - a) : q[k] = a + k
      /\ Len(q) = b - a + 1 => q[b - a + 1] \in Bridge!Codes /\ over
  BY DEF Flow
<1>2. /\ Head(q) = q[1] /\ Len(Tail(q)) = Len(q) - 1 /\ Tail(q) \in Seq(Int)
      /\ \A k \in 1..Len(q) - 1 : Tail(q)[k] = q[k + 1]
  BY <1>1
<1>3. CASE b = a
  <2>1. Len(q) = 1 /\ Head(q) \in Bridge!Codes /\ over /\ Len(Tail(q)) = 0
    BY <1>1, <1>2, <1>3
  <2>2. \A s \in Seq(Int) : Len(s) = 0 => s = << >>
    OBVIOUS
  <2> QED BY <1>2, <1>3, <2>1, <2>2
<1>4. CASE b # a
  <2>1. b - a >= 1 /\ Head(q) = a + 1 /\ a + 1 <= b /\ b - (a + 1) = b - a - 1
    BY <1>1, <1>2, <1>4
  <2>2. Head(q) \notin Bridge!Codes
    BY <2>1, NumbersAreNoCodes
  <2>3. Len(Tail(q)) \in {b - (a + 1), b - (a + 1) + 1}
    BY <1>1, <1>2, <2>1
  <2>4. ASSUME NEW k \in 1..(b - (a + 1)) PROVE Tail(q)[k] = (a + 1) + k
    <3>1. k + 1 \in 1..(b - a) /\ k \in 1..Len(q) - 1
      BY <1>1, <2>1
    <3>2. Tail(q)[k] = a + (k + 1)
      BY <1>1, <1>2, <3>1
    <3> QED BY <3>1, <3>2
  <2>5. Len(Tail(q)) = b - (a + 1) + 1 => Tail(q)[b - (a + 1) + 1] \in Bridge!Codes /\ over
    <3>1. b - (a + 1) + 1 = b - a /\ (b - a) + 1 = b - a + 1
      BY <1>1
    <3>2. SUFFICES ASSUME Len(Tail(q)) = b - a PROVE Tail(q)[b - a] \in Bridge!Codes /\ over
      BY <3>1
    <3>3. Len(q) = b - a + 1 /\ b - a \in 1..Len(q) - 1
      BY <1>1, <1>2, <2>1, <3>2
    <3> QED BY <1>1, <1>2, <3>3
  <2> QED BY <2>1, <2>2, <2>3, <2>4, <2>5 DEF Flow
<1> QED BY <1>3, <1>4

\* An empty link.
LEMMA FlowEmpty == ASSUME NEW a \in Nat, NEW over PROVE Flow(<< >>, a, a, over)
BY DEF Flow

HopStates ==
  [pc : {"idle", "connect", "pump", "ended"}, tries : Nat, out : {"run", "closing", "done"},
   back : {"run", "closing", "done"}, left : BOOLEAN, failed : BOOLEAN]
ClientEnds == {Bridge!Open, Bridge!Left, Bridge!Refused} \cup Bridge!Codes
Queues == [Bridge!Links -> Seq(Int)]
BridgeTypes ==
  /\ up \in Queues /\ down \in Queues
  /\ shut \in [Bridge!Links -> SUBSET {"near", "far"}]
  /\ hop \in [Bridge!Chain -> HopStates]
  /\ client \in [sent : Nat, got : Int, end : ClientEnds]
  /\ guest \in [sent : Nat, heard : Int, end : Int]
  /\ faults \in Nat

Connecting(h) == hop[h].pc \in {"idle", "connect"}
\* What no message has come through, while hop h is not connected.
Unused(h) ==
  /\ \A i \in 1..h : /\ hop[i].pc # "pump" /\ hop[i].out = "run" /\ hop[i].back = "run"
                     /\ ~hop[i].left /\ down[i] = << >>
  /\ client.got = 0 /\ client.end \notin Bridge!Codes
  /\ \A i \in Bridge!Links : OnlyCodes(up[i])
  /\ \A g \in Bridge!Chain : ~hop[g].failed
Early == \A h \in Bridge!Chain : Connecting(h) => Unused(h)

\* Node i puts no message on its link to the client any more.
Over(i) ==
  IF i = 0 THEN client.end # Bridge!Open
  ELSE IF i = Hops + 1 THEN guest.end # Bridge!Open ELSE hop[i].back # "run"
\* Nothing happened that takes messages away.
Calm ==
  /\ faults = 0 /\ client.end \notin {Bridge!Left, Bridge!Refused}
  /\ \A h \in Bridge!Chain : ~hop[h].failed
Nodes == 0..(Hops + 1)
\* n[i] messages came to node i.  The guest is the first to close, a close goes behind all
\* messages, and who is told of it has them all.
Flowing(n) ==
  /\ n[0] = client.got /\ n[Hops + 1] = guest.sent
  /\ \A h \in Bridge!Chain : Connecting(h) => \A i \in 0..h : n[i] = 0
  /\ \A i \in Bridge!Links : Flow(down[i], n[i - 1], n[i], Over(i))
  /\ \A i \in Bridge!Links : Over(i - 1) => down[i] = << >> /\ Over(i)
  /\ \A i \in Nodes : Over(i) => n[i] = guest.sent /\ guest.end # Bridge!Open
  /\ \A i \in Bridge!Links : shut[i] # {} \/ HasCode(up[i]) => Over(i)
  /\ \A h \in Bridge!Chain : hop[h].left \/ hop[h].out # "run" => Over(h)
BridgeInv ==
  BridgeTypes /\ Early /\ (Calm => \E n \in [Nodes -> Nat] : Flowing(n))

\* The numbers of the nodes, hops and links.
LEMMA ChainPlaces ==
  ASSUME Bridge!BridgeBounds
  PROVE  /\ Hops \in Nat /\ Hops >= 1 /\ Bridge!Links = 1..(Hops + 1) /\ Bridge!Chain = 1..Hops
         /\ 1 \in Bridge!Chain /\ 1 \in Bridge!Links /\ Hops + 1 \in Bridge!Links
         /\ Hops \in Bridge!Chain /\ Hops + 1 \notin Bridge!Chain /\ 0 \notin Bridge!Links
         /\ \A h \in Bridge!Chain : /\ h \in Bridge!Links /\ h + 1 \in Bridge!Links /\ h \in Nodes
                                    /\ h \in Nat /\ h # 0 /\ h # Hops + 1 /\ h + 1 # h
                                    /\ h + 1 - 1 = h
         /\ \A i \in Bridge!Links : i \in Nodes /\ i - 1 \in Nodes /\ i \in Nat
         /\ 0 \in Nodes /\ Hops + 1 \in Nodes
BY DEF Bridge!BridgeBounds, Bridge!Links, Bridge!Chain, Nodes

\* Queues p are q after a packet x was put on link i, or one was taken from it.
Grown(p, q, i, x) ==
  /\ p \in Queues /\ \A j \in Bridge!Links : p[j] = IF j = i THEN Append(q[i], x) ELSE q[j]
  /\ \A j \in Bridge!Links : HasCode(p[j]) => HasCode(q[j]) \/ (j = i /\ x \in Bridge!Codes)
  /\ x \in Bridge!Codes /\ (\A j \in Bridge!Links : OnlyCodes(q[j])) =>
       \A j \in Bridge!Links : OnlyCodes(p[j])
Shrunk(p, q, i) ==
  /\ p \in Queues /\ \A j \in Bridge!Links : p[j] = IF j = i THEN Tail(q[i]) ELSE q[j]
  /\ \A j \in Bridge!Links : HasCode(p[j]) => HasCode(q[j])
  /\ (\A j \in Bridge!Links : OnlyCodes(q[j])) => \A j \in Bridge!Links : OnlyCodes(p[j])

\* What Put makes of the queues.
LEMMA LinkPut ==
  ASSUME NEW q \in Queues, NEW i \in Bridge!Links, NEW x \in Int
  PROVE  Grown(Bridge!Put(q, i, x), q, i, x)
<1> DEFINE p == Bridge!Put(q, i, x)
<1>1. /\ p \in Queues /\ q[i] \in Seq(Int)
      /\ \A j \in Bridge!Links : p[j] = IF j = i THEN Append(q[i], x) ELSE q[j]
  BY DEF Queues, Bridge!Put
<1> HIDE DEF p
<1>2. \A j \in Bridge!Links : HasCode(p[j]) => HasCode(q[j]) \/ (j = i /\ x \in Bridge!Codes)
  BY <1>1, CodesPut
<1>3. x \in Bridge!Codes /\ (\A j \in Bridge!Links : OnlyCodes(q[j])) =>
        \A j \in Bridge!Links : OnlyCodes(p[j])
  BY <1>1, CodesPut
<1>4. Grown(p, q, i, x)
  BY <1>1, <1>2, <1>3 DEF Grown
<1> QED BY <1>4 DEF p

\* What Took makes of the queues.
LEMMA LinkTook ==
  ASSUME NEW q \in Queues, NEW i \in Bridge!Links, q[i] # << >>
  PROVE  Shrunk(Bridge!Took(q, i), q, i)
<1> DEFINE p == Bridge!Took(q, i)
<1>1. /\ p \in Queues /\ q[i] \in Seq(Int)
      /\ \A j \in Bridge!Links : p[j] = IF j = i THEN Tail(q[i]) ELSE q[j]
  BY DEF Queues, Bridge!Took
<1> HIDE DEF p
<1>2. /\ \A j \in Bridge!Links : HasCode(p[j]) => HasCode(q[j])
      /\ (\A j \in Bridge!Links : OnlyCodes(q[j])) => \A j \in Bridge!Links : OnlyCodes(p[j])
  BY <1>1, CodesTaken
<1>3. Shrunk(p, q, i)
  BY <1>1, <1>2 DEF Shrunk
<1> QED BY <1>3 DEF p

\* No node is over while the guest is open, and none between an open one and the client.
LEMMA OverAhead ==
  ASSUME Bridge!BridgeBounds, NEW n, Flowing(n)
  PROVE  /\ guest.end = Bridge!Open => \A i \in Nodes : ~Over(i)
         /\ \A i \in Bridge!Links : ~Over(i) => ~Over(i - 1)
         /\ \A h \in Bridge!Chain : Over(h) => Over(h + 1)
BY ChainPlaces DEF Flowing

\* A message comes to node i, which passes it on.
LEMMA NodePasses ==
  ASSUME Bridge!BridgeBounds, BridgeTypes, NEW n \in [Nodes -> Nat], Flowing(n),
         NEW i \in Nodes, ~Over(i),
         i <= Hops => /\ down[i + 1] # << >> /\ Head(down[i + 1]) \notin Bridge!Codes
                      /\ down'[i + 1] = Tail(down[i + 1]),
         i >= 1 => down'[i] = Append(down[i], n[i] + 1),
         \A j \in Bridge!Links \ {i, i + 1} : down'[j] = down[j],
         \A j \in Nodes : Over(j)' = Over(j),
         client'.got = IF i = 0 THEN n[0] + 1 ELSE client.got,
         guest'.sent = IF i = Hops + 1 THEN n[i] + 1 ELSE guest.sent,
         guest'.end = guest.end,
         UNCHANGED <<up, shut>>,
         \A h \in Bridge!Chain : Connecting(h)' => Connecting(h) /\ h < i,
         \A h \in Bridge!Chain : hop'[h].left = hop[h].left /\ hop'[h].out = hop[h].out
  PROVE  \E m \in [Nodes -> Nat] : Flowing(m)'
<1> DEFINE m == [n EXCEPT ![i] = n[i] + 1]
<1>1. /\ m \in [Nodes -> Nat] /\ m[i] = n[i] + 1 /\ n[i] \in Nat
      /\ \A j \in Nodes \ {i} : m[j] = n[j]
  OBVIOUS
<1> HIDE DEF m
<1>2. i \in Nat /\ i <= Hops + 1 /\ (i <= Hops => i + 1 \in Bridge!Links /\ i + 1 - 1 = i /\ i + 1 # i)
      /\ (i >= 1 => i \in Bridge!Links) /\ Hops \in Nat
  BY ChainPlaces DEF Nodes
<1>3. m[0] = client'.got /\ m[Hops + 1] = guest'.sent
  BY <1>1, <1>2, ChainPlaces DEF Flowing
<1>4. ASSUME NEW h \in Bridge!Chain, Connecting(h)', NEW j \in 0..h PROVE m[j] = 0
  <2>0. h \in 1..Hops
    BY ChainPlaces
  <2>1. j \in Nodes \ {i} /\ Connecting(h)
    BY <1>2, <1>4, <2>0 DEF Nodes
  <2> QED BY <1>1, <2>1 DEF Flowing
<1>5. ASSUME NEW j \in Bridge!Links PROVE Flow(down'[j], m[j - 1], m[j], Over(j)')
  <2>1. /\ Flow(down[j], n[j - 1], n[j], Over(j)) /\ Over(j)' = Over(j)
        /\ down[j] \in Seq(Int) /\ j - 1 \in Nodes /\ j \in Nodes /\ j \in Nat
        /\ n[j - 1] \in Nat /\ n[j] \in Nat
    BY ChainPlaces DEF Flowing, BridgeTypes, Queues
  <2>2. CASE j = i
    <3>0. ~Over(j) /\ j - 1 # i /\ j >= 1
      BY <2>1, <2>2, ChainPlaces
    <3>1. Flow(down[j], n[j - 1], n[j], FALSE)
      BY <2>1, <3>0 DEF Flow
    <3>2. Flow(Append(down[j], n[j] + 1), n[j - 1], n[j] + 1, FALSE)
      BY <2>1, <3>1, FlowPuts
    <3>3. m[j - 1] = n[j - 1] /\ m[j] = n[j] + 1 /\ down'[j] = Append(down[j], n[j] + 1)
      BY <1>1, <2>1, <2>2, <3>0
    <3>4. Flow(down'[j], m[j - 1], m[j], FALSE)
      BY <3>2, <3>3
    <3>5. ~Over(j)'
      BY <2>1, <3>0
    <3> QED BY <3>4, <3>5 DEF Flow
  <2>3. CASE j = i + 1
    <3>1. /\ down[j] # << >> /\ Head(down[j]) \notin Bridge!Codes /\ down'[j] = Tail(down[j])
          /\ j - 1 = i /\ j # i
      BY <1>2, <2>1, <2>3, ChainPlaces
    <3>2. Flow(Tail(down[j]), n[j - 1] + 1, n[j], Over(j))
      BY <2>1, <3>1, FlowTaken
    <3>3. m[j - 1] = n[j - 1] + 1 /\ m[j] = n[j]
      BY <1>1, <2>1, <3>1
    <3> QED BY <2>1, <3>1, <3>2, <3>3
  <2>4. CASE j # i /\ j # i + 1
    <3>1. j - 1 # i /\ down'[j] = down[j]
      BY <1>2, <2>1, <2>4
    <3>2. m[j - 1] = n[j - 1] /\ m[j] = n[j]
      BY <1>1, <2>1, <2>4, <3>1
    <3> QED BY <2>1, <3>1, <3>2
  <2> QED BY <2>2, <2>3, <2>4
<1>6. ASSUME NEW j \in Bridge!Links, Over(j - 1)' PROVE down'[j] = << >> /\ Over(j)'
  <2>1. Over(j - 1) /\ Over(j) /\ down[j] = << >> /\ j \in Nodes
    BY <1>6, ChainPlaces DEF Flowing
  <2>2. j # i /\ j # i + 1
    BY <1>2, <2>1
  <2> QED BY <2>1, <2>2
<1>7. ASSUME NEW j \in Nodes, Over(j)' PROVE m[j] = guest'.sent /\ guest'.end # Bridge!Open
  <2>1. Over(j) /\ j # i /\ n[j] = guest.sent /\ guest.end # Bridge!Open
    BY <1>7 DEF Flowing
  <2>2. i # Hops + 1
    BY <2>1, ChainPlaces DEF Over
  <2> QED BY <1>1, <2>1, <2>2
<1>8. \A j \in Bridge!Links : shut'[j] # {} \/ HasCode(up'[j]) => Over(j)'
  BY ChainPlaces DEF Flowing
<1>9. \A h \in Bridge!Chain : hop'[h].left \/ hop'[h].out # "run" => Over(h)'
  BY ChainPlaces DEF Flowing
<1>10. Flowing(m)'
  BY <1>3, <1>4, <1>5, <1>6, <1>7, <1>8, <1>9 DEF Flowing
<1> QED BY <1>1, <1>10

\* The close comes to node i, which puts its own behind what it passed on.
LEMMA NodeEnds ==
  ASSUME Bridge!BridgeBounds, BridgeTypes, NEW n \in [Nodes -> Nat], Flowing(n),
         NEW i \in Nodes, ~Over(i), NEW x \in Bridge!Codes,
         i <= Hops => /\ down[i + 1] # << >> /\ Head(down[i + 1]) \in Bridge!Codes
                      /\ down'[i + 1] = Tail(down[i + 1]),
         i >= 1 => down'[i] = Append(down[i], x),
         \A j \in Bridge!Links \ {i, i + 1} : down'[j] = down[j],
         \A j \in Nodes \ {i} : Over(j)' = Over(j), Over(i)',
         client'.got = client.got, guest'.sent = guest.sent,
         i = Hops + 1 \/ guest'.end = guest.end,
         \A j \in Bridge!Links : shut'[j] # {} => shut[j] # {} \/ j \in {i, i + 1},
         \A j \in Bridge!Links : HasCode(up'[j]) => HasCode(up[j]) \/ (i = 0 /\ j = 1),
         \A h \in Bridge!Chain : Connecting(h)' => Connecting(h),
         \A h \in Bridge!Chain : hop'[h].left = hop[h].left /\ hop'[h].out = hop[h].out
  PROVE  Flowing(n)'
<1>2. i \in Nat /\ i <= Hops + 1 /\ (i <= Hops => i + 1 \in Bridge!Links /\ i + 1 - 1 = i /\ i + 1 # i)
      /\ (i >= 1 => i \in Bridge!Links) /\ Hops \in Nat /\ (i > Hops => i = Hops + 1)
  BY ChainPlaces DEF Nodes
<1>3. n[0] = client'.got /\ n[Hops + 1] = guest'.sent
  BY DEF Flowing
<1>4. \A h \in Bridge!Chain : Connecting(h)' => \A j \in 0..h : n[j] = 0
  BY DEF Flowing
<1>5. i <= Hops => /\ n[i] = n[i + 1] /\ Over(i + 1) /\ down'[i + 1] = << >>
  <2> SUFFICES ASSUME i <= Hops PROVE n[i] = n[i + 1] /\ Over(i + 1) /\ down'[i + 1] = << >>
    OBVIOUS
  <2>1. /\ Flow(down[i + 1], n[i], n[i + 1], Over(i + 1)) /\ down[i + 1] \in Seq(Int)
        /\ n[i] \in Nat /\ n[i + 1] \in Nat
    <3>1. i + 1 \in Bridge!Links /\ i + 1 - 1 = i /\ i \in Nodes /\ i + 1 \in Nodes
      BY <1>2, ChainPlaces
    <3>2. Flow(down[i + 1], n[i], n[i + 1], Over(i + 1))
      <4> DEFINE j == i + 1
      <4>1. j \in Bridge!Links /\ j - 1 = i
        BY <1>2, <3>1
      <4> HIDE DEF j
      <4>2. Flow(down[j], n[j - 1], n[j], Over(j))
        BY <4>1 DEF Flowing
      <4>3. Flow(down[j], n[i], n[j], Over(j))
        BY <4>1, <4>2
      <4> QED BY <4>3 DEF j
    <3>3. down[i + 1] \in Seq(Int)
      BY <3>1 DEF BridgeTypes, Queues
    <3> QED BY <3>1, <3>2, <3>3
  <2>2. /\ down[i + 1] # << >> /\ Head(down[i + 1]) \in Bridge!Codes
        /\ down'[i + 1] = Tail(down[i + 1])
    OBVIOUS
  <2>3. n[i] = n[i + 1] /\ Over(i + 1) /\ Tail(down[i + 1]) = << >>
    BY <2>1, <2>2, FlowTaken
  <2> QED BY <2>2, <2>3
<1>6. n[i] = guest.sent /\ guest'.end # Bridge!Open
  <2>1. CASE i <= Hops
    <3>1. i + 1 \in Nodes /\ i # Hops + 1
      BY <1>2, <2>1 DEF Nodes
    <3> QED BY <1>5, <2>1, <3>1 DEF Flowing
  <2>2. CASE i > Hops
    BY <1>2, <2>2, ChainPlaces DEF Flowing, Over
  <2> QED BY <1>2, <2>1, <2>2
<1>7. ASSUME NEW j \in Bridge!Links PROVE Flow(down'[j], n[j - 1], n[j], Over(j)')
  <2>1. /\ Flow(down[j], n[j - 1], n[j], Over(j)) /\ down[j] \in Seq(Int)
        /\ j - 1 \in Nodes /\ j \in Nodes /\ j \in Nat /\ n[j - 1] \in Nat /\ n[j] \in Nat
    BY ChainPlaces DEF Flowing, BridgeTypes, Queues
  <2>2. CASE j = i
    <3>1. ~Over(j) /\ j >= 1
      BY <2>1, <2>2, ChainPlaces
    <3>2. Flow(down[j], n[j - 1], n[j], FALSE)
      BY <2>1, <3>1 DEF Flow
    <3>3. Flow(Append(down[j], x), n[j - 1], n[j], TRUE)
      BY <2>1, <3>2, FlowPuts
    <3>4. Flow(down'[j], n[j - 1], n[j], TRUE)
      BY <2>2, <3>1, <3>3
    <3> QED BY <2>2, <3>4 DEF Flow
  <2>3. CASE j = i + 1
    <3>1. down'[j] = << >> /\ n[j - 1] = n[j]
      BY <1>2, <1>5, <2>1, <2>3, ChainPlaces
    <3> QED BY <2>1, <3>1, FlowEmpty
  <2>4. CASE j # i /\ j # i + 1
    BY <2>1, <2>4
  <2> QED BY <2>2, <2>3, <2>4
<1>8. ASSUME NEW j \in Bridge!Links, Over(j - 1)' PROVE down'[j] = << >> /\ Over(j)'
  <2>1. j \in Nodes /\ j - 1 \in Nodes /\ j \in Nat
    BY ChainPlaces
  <2>2. CASE j = i + 1
    <3>1. i <= Hops /\ j # i
      BY <1>2, <2>1, <2>2, ChainPlaces
    <3> QED BY <1>5, <2>1, <2>2, <3>1
  <2>3. CASE j # i + 1
    <3>1. j - 1 # i
      BY <1>2, <2>1, <2>3
    <3>2. Over(j - 1) /\ Over(j) /\ down[j] = << >>
      BY <1>8, <2>1, <3>1 DEF Flowing
    <3> QED BY <2>1, <2>3, <3>2
  <2> QED BY <2>2, <2>3
<1>9. ASSUME NEW j \in Nodes, Over(j)' PROVE n[j] = guest'.sent /\ guest'.end # Bridge!Open
  <2>1. CASE j = i
    BY <1>6, <2>1
  <2>2. CASE j # i
    BY <1>6, <1>9, <2>2 DEF Flowing
  <2> QED BY <2>1, <2>2
<1>10. \A j \in Bridge!Links : Over(j) => Over(j)'
  BY ChainPlaces
<1>11. ASSUME NEW j \in Bridge!Links, shut'[j] # {} \/ HasCode(up'[j]) PROVE Over(j)'
  <2>1. CASE shut[j] # {} \/ HasCode(up[j])
    BY <1>10, <2>1 DEF Flowing
  <2>2. CASE j = i
    BY <2>2
  <2>3. CASE j = i + 1
    <3>1. i <= Hops
      BY <1>2, <2>3, ChainPlaces
    <3> QED BY <1>5, <1>10, <2>3, <3>1
  <2> QED BY <1>11, <2>1, <2>2, <2>3
<1>12. \A h \in Bridge!Chain : hop'[h].left \/ hop'[h].out # "run" => Over(h)'
  BY <1>10, ChainPlaces DEF Flowing
<1> QED BY <1>3, <1>4, <1>7, <1>8, <1>9, <1>11, <1>12 DEF Flowing

\* No message moves, and who is told of a close, or ends a pump, is over already.
LEMMA NodesRest ==
  ASSUME Bridge!BridgeBounds, BridgeTypes, NEW n \in [Nodes -> Nat], Flowing(n),
         UNCHANGED down,
         \A j \in Nodes : Over(j)' = Over(j),
         client'.got = client.got, guest'.sent = guest.sent, guest'.end = guest.end,
         \A j \in Bridge!Links : shut'[j] # {} => shut[j] # {} \/ Over(j),
         \A j \in Bridge!Links : HasCode(up'[j]) => HasCode(up[j]) \/ Over(j),
         \A h \in Bridge!Chain : Connecting(h)' => Connecting(h),
         \A h \in Bridge!Chain :
           hop'[h].left \/ hop'[h].out # "run" => hop[h].left \/ hop[h].out # "run" \/ Over(h)
  PROVE  Flowing(n)'
<1>1. n[0] = client'.got /\ n[Hops + 1] = guest'.sent
      /\ \A h \in Bridge!Chain : Connecting(h)' => \A j \in 0..h : n[j] = 0
  BY DEF Flowing
<1>2. \A j \in Bridge!Links : /\ Flow(down'[j], n[j - 1], n[j], Over(j)')
                              /\ Over(j - 1)' => down'[j] = << >> /\ Over(j)'
  BY ChainPlaces DEF Flowing
<1>3. \A j \in Nodes : Over(j)' => n[j] = guest'.sent /\ guest'.end # Bridge!Open
  BY DEF Flowing
<1>4. /\ \A j \in Bridge!Links : shut'[j] # {} \/ HasCode(up'[j]) => Over(j)'
      /\ \A h \in Bridge!Chain : hop'[h].left \/ hop'[h].out # "run" => Over(h)'
  BY ChainPlaces DEF Flowing
<1> QED BY <1>1, <1>2, <1>3, <1>4 DEF Flowing

\* A hop that pumps changes, and the two links at it.
LEMMA HopActs ==
  ASSUME Bridge!BridgeBounds, BridgeInv, NEW k \in Bridge!Chain, hop[k].pc = "pump",
         NEW r \in HopStates, r.pc \in {"pump", "ended"}, hop[k].failed => r.failed,
         hop' = [hop EXCEPT ![k] = r], UNCHANGED <<client, guest, faults>>,
         up' \in Queues, down' \in Queues,
         shut' \in [Bridge!Links -> SUBSET {"near", "far"}],
         \A j \in Bridge!Links \ {k, k + 1} : down'[j] = down[j],
         (\A j \in Bridge!Links : OnlyCodes(up[j])) =>
           (r.failed => hop[k].failed) /\ \A j \in Bridge!Links : OnlyCodes(up'[j])
  PROVE  /\ BridgeTypes' /\ Early' /\ (Calm' => Calm)
         /\ \A h \in Bridge!Chain : Connecting(h)' => Connecting(h) /\ h < k
         /\ hop'[k] = r /\ \A h \in Bridge!Chain \ {k} : hop'[h] = hop[h]
         /\ \A j \in Nodes \ {k} : Over(j)' = Over(j)
         /\ Over(k)' <=> r.back # "run"
<1>1. /\ hop' \in [Bridge!Chain -> HopStates] /\ hop'[k] = r
      /\ \A h \in Bridge!Chain \ {k} : hop'[h] = hop[h]
  BY DEF BridgeInv, BridgeTypes
<1>2. BridgeTypes'
  BY <1>1 DEF BridgeInv, BridgeTypes
<1>3. ASSUME NEW h \in Bridge!Chain, Connecting(h)'
      PROVE  Connecting(h) /\ h < k /\ Unused(h)
  <2>1. h # k /\ Connecting(h)
    BY <1>1, <1>3 DEF Connecting
  <2>2. Unused(h)
    BY <2>1 DEF BridgeInv, Early
  <2>3. h \in Nat /\ k \in Nat /\ k >= 1
    BY ChainPlaces
  <2>4. k \notin 1..h
    BY <2>2 DEF Unused
  <2> QED BY <2>1, <2>2, <2>3, <2>4
<1>4. ASSUME NEW h \in Bridge!Chain, Connecting(h)' PROVE Unused(h)'
  <2>1. Unused(h) /\ h < k
    BY <1>3, <1>4
  <2>2. \A i \in 1..h : i \in Bridge!Chain \ {k} /\ i \in Bridge!Links \ {k, k + 1}
    BY <2>1 DEF Bridge!BridgeBounds, Bridge!Links, Bridge!Chain
  <2>3. \A i \in 1..h : hop'[i] = hop[i] /\ down'[i] = down[i]
    BY <1>1, <2>2
  <2>4. (r.failed => hop[k].failed) /\ \A j \in Bridge!Links : OnlyCodes(up'[j])
    BY <2>1 DEF Unused
  <2>5. \A g \in Bridge!Chain : ~hop'[g].failed
    BY <1>1, <2>1, <2>4 DEF Unused
  <2> QED BY <2>1, <2>3, <2>4, <2>5 DEF Unused
<1>5. Calm' => Calm
  BY <1>1 DEF Calm
<1>6. \A j \in Nodes \ {k} : Over(j)' = Over(j)
  <2> SUFFICES ASSUME NEW j \in Nodes \ {k} PROVE Over(j)' = Over(j)
    OBVIOUS
  <2>1. j = 0 \/ j = Hops + 1 \/ j \in Bridge!Chain \ {k}
    BY DEF Nodes, Bridge!Chain, Bridge!BridgeBounds
  <2> QED BY <1>1, <2>1 DEF Over
<1>7. Over(k)' <=> r.back # "run"
  BY <1>1, ChainPlaces DEF Over
<1> QED BY <1>1, <1>2, <1>3, <1>4, <1>5, <1>6, <1>7 DEF Early

\* The client's messages on their way to the guest.
LEMMA BridgeOutward ==
  ASSUME Bridge!BridgeBounds, BridgeInv, NEW k \in Bridge!Chain, Bridge!Outward(k)
  PROVE  BridgeInv'
<1>1. /\ hop[k].pc = "pump" /\ up[k] # << >> /\ up[k][1] \notin Bridge!Codes
      /\ UNCHANGED <<down, client, guest, faults>>
      /\ k \in Bridge!Links /\ k + 1 \in Bridge!Links /\ k + 1 # k
  BY ChainPlaces DEF Bridge!Outward, Bridge!Pumping
<1>2. /\ up \in Queues /\ down \in Queues /\ hop[k] \in HopStates /\ up[k] \in Seq(Int)
      /\ shut \in [Bridge!Links -> SUBSET {"near", "far"}]
      /\ hop = [hop EXCEPT ![k] = hop[k]]
  BY <1>1 DEF BridgeInv, BridgeTypes, Queues
<1>3. Head(up[k]) = up[k][1] /\ Head(up[k]) \in Int
  BY <1>1, <1>2
<1>4. ~OnlyCodes(up[k])
  BY <1>1, <1>2, CodesTaken, <1>3
<1>5. /\ Bridge!Took(up, k) \in Queues
      /\ \A j \in Bridge!Links : HasCode(Bridge!Took(up, k)[j]) => HasCode(up[j])
  BY <1>1, <1>2, LinkTook DEF Shrunk
<1>6. CASE hop' = hop /\ shut' = shut
  <2>1. up' \in Queues /\ \A j \in Bridge!Links : HasCode(up'[j]) => HasCode(up[j])
    <3>1. CASE up' = Bridge!Took(up, k)
      BY <1>5, <3>1
    <3>2. CASE up' = Bridge!Put(Bridge!Took(up, k), k + 1, Head(up[k]))
      <4> DEFINE q == Bridge!Took(up, k)
      <4>1. q \in Queues /\ \A j \in Bridge!Links : HasCode(q[j]) => HasCode(up[j])
        BY <1>5
      <4>2. up' = Bridge!Put(q, k + 1, Head(up[k]))
        BY <3>2
      <4> HIDE DEF q
      <4>3. up' \in Queues /\ \A j \in Bridge!Links : HasCode(up'[j]) => HasCode(q[j])
        <5>1. Grown(up', q, k + 1, Head(up[k]))
          BY <1>1, <1>3, <4>1, <4>2, LinkPut
        <5> QED BY <1>1, <1>3, <5>1 DEF Grown
      <4> QED BY <4>1, <4>3
    <3> QED BY <1>6, <3>1, <3>2, <1>1, <1>2 DEF Bridge!Outward, HopStates
  <2>2. /\ BridgeTypes' /\ Early' /\ (Calm' => Calm)
        /\ \A h \in Bridge!Chain : Connecting(h)' => Connecting(h) /\ h < k
        /\ \A h \in Bridge!Chain \ {k} : hop'[h] = hop[h]
        /\ \A j \in Nodes \ {k} : Over(j)' = Over(j)
        /\ Over(k)' <=> hop[k].back # "run"
    BY <1>1, <1>2, <1>4, <1>6, <2>1, HopActs
  <2>3. \A j \in Nodes : Over(j)' = Over(j)
    BY <1>1, <1>6 DEF Over
  <2>4. ASSUME Calm', NEW n \in [Nodes -> Nat], Flowing(n) PROVE Flowing(n)'
    BY <1>1, <1>6, <2>1, <2>2, <2>3, <2>4, NodesRest DEF BridgeInv
  <2> QED BY <2>2, <2>4 DEF BridgeInv
<1>7. CASE /\ up' = Bridge!Took(up, k)
           /\ hop' = [hop EXCEPT ![k].out = "closing", ![k].left = TRUE, ![k].failed = TRUE]
           /\ shut' = [shut EXCEPT ![k + 1] = @ \cup {"near"}]
  <2> DEFINE r == [hop[k] EXCEPT !.out = "closing", !.left = TRUE, !.failed = TRUE]
  <2>1. hop' = [hop EXCEPT ![k] = r]
    BY <1>7
  <2>2. r \in HopStates
    BY <1>2 DEF HopStates
  <2>3. r.pc = "pump" /\ r.failed
    BY <1>1, <1>2 DEF HopStates
  <2> HIDE DEF r
  <2>4. shut' \in [Bridge!Links -> SUBSET {"near", "far"}]
    BY <1>1, <1>2, <1>7
  <2>5. BridgeTypes' /\ Early' /\ hop'[k] = r
    BY <1>1, <1>2, <1>4, <1>5, <1>7, <2>1, <2>2, <2>3, <2>4, HopActs
  <2>6. ~Calm'
    BY <2>3, <2>5 DEF Calm
  <2> QED BY <2>5, <2>6 DEF BridgeInv
<1> QED BY <1>6, <1>7 DEF Bridge!Outward

\* The client is gone, as a hop is told: the guest was, if nothing else happened.
LEMMA BridgeDisconnected ==
  ASSUME Bridge!BridgeBounds, BridgeInv, NEW k \in Bridge!Chain, Bridge!Disconnected(k)
  PROVE  BridgeInv'
<1> DEFINE r == [hop[k] EXCEPT !.out = "closing", !.left = TRUE]
<1>1. /\ hop[k].pc = "pump" /\ up[k] # << >> /\ up[k][1] \in Bridge!Codes
      /\ UNCHANGED <<down, client, guest, faults>> /\ hop' = [hop EXCEPT ![k] = r]
      /\ up' = Bridge!Took(up, k) \/ up' = Bridge!Put(Bridge!Took(up, k), k + 1, Bridge!Normal)
      /\ shut' = [shut EXCEPT ![k] = @ \cup {"far"}, ![k + 1] = @ \cup {"near"}]
  BY DEF Bridge!Disconnected, Bridge!Pumping
<1>2. /\ up \in Queues /\ down \in Queues /\ hop[k] \in HopStates /\ up[k] \in Seq(Int)
      /\ shut \in [Bridge!Links -> SUBSET {"near", "far"}]
      /\ k \in Bridge!Links /\ k + 1 \in Bridge!Links /\ k + 1 # k /\ k \in Nodes
  BY ChainPlaces DEF BridgeInv, BridgeTypes, Queues
<1>3. /\ r \in HopStates /\ r.pc = "pump" /\ (r.failed <=> hop[k].failed)
      /\ r.back = hop[k].back
  BY <1>1, <1>2 DEF HopStates
<1> HIDE DEF r
<1>4. HasCode(up[k])
  <2>1. Head(up[k]) = up[k][1]
    BY <1>1, <1>2
  <2> QED BY <1>1, <1>2, <2>1, CodesTaken
<1>5. shut' \in [Bridge!Links -> SUBSET {"near", "far"}]
      /\ \A j \in Bridge!Links : shut'[j] # {} => shut[j] # {} \/ j = k \/ j = k + 1
  BY <1>1, <1>2
<1>6. Bridge!Normal \in Bridge!Codes /\ Bridge!Normal \in Int
  BY DEF Bridge!Codes, Bridge!Normal
<1>7. /\ up' \in Queues
      /\ \A j \in Bridge!Links : HasCode(up'[j]) => HasCode(up[j]) \/ j = k + 1
      /\ (\A j \in Bridge!Links : OnlyCodes(up[j])) => \A j \in Bridge!Links : OnlyCodes(up'[j])
  <2> DEFINE q == Bridge!Took(up, k)
  <2>1. /\ q \in Queues /\ \A j \in Bridge!Links : HasCode(q[j]) => HasCode(up[j])
        /\ (\A j \in Bridge!Links : OnlyCodes(up[j])) => \A j \in Bridge!Links : OnlyCodes(q[j])
    BY <1>1, <1>2, LinkTook DEF Shrunk
  <2>2. up' = q \/ up' = Bridge!Put(q, k + 1, Bridge!Normal)
    BY <1>1
  <2> HIDE DEF q
  <2>3. CASE up' = q
    BY <2>1, <2>3
  <2>4. CASE up' = Bridge!Put(q, k + 1, Bridge!Normal)
    <3>1. /\ up' \in Queues
          /\ \A j \in Bridge!Links : HasCode(up'[j]) => HasCode(q[j]) \/ j = k + 1
          /\ (\A j \in Bridge!Links : OnlyCodes(q[j])) =>
               \A j \in Bridge!Links : OnlyCodes(up'[j])
      <4>1. Grown(up', q, k + 1, Bridge!Normal)
        BY <1>2, <1>6, <2>1, <2>4, LinkPut
      <4> QED BY <1>6, <4>1 DEF Grown
    <3> QED BY <2>1, <3>1
  <2> QED BY <2>2, <2>3, <2>4
<1>8. /\ BridgeTypes' /\ Early' /\ (Calm' => Calm)
      /\ \A h \in Bridge!Chain : Connecting(h)' => Connecting(h) /\ h < k
      /\ hop'[k] = r /\ \A h \in Bridge!Chain \ {k} : hop'[h] = hop[h]
      /\ \A j \in Nodes \ {k} : Over(j)' = Over(j)
      /\ Over(k)' <=> r.back # "run"
  BY <1>1, <1>2, <1>3, <1>5, <1>7, HopActs
<1>9. \A j \in Nodes : Over(j)' = Over(j)
  <2>1. Over(k)' = Over(k)
    BY <1>3, <1>8, ChainPlaces DEF Over
  <2> QED BY <1>8, <2>1
<1>10. ASSUME Calm', NEW n \in [Nodes -> Nat], Flowing(n) PROVE Flowing(n)'
  <2>1. Over(k) /\ Over(k + 1)
    BY <1>2, <1>4, <1>10, OverAhead DEF Flowing
  <2>2. \A h \in Bridge!Chain :
          hop'[h].left \/ hop'[h].out # "run" => hop[h].left \/ hop[h].out # "run" \/ Over(h)
    BY <1>8, <2>1
  <2> QED BY <1>1, <1>5, <1>7, <1>8, <1>9, <1>10, <2>1, <2>2, NodesRest, ZenonT(60) DEF BridgeInv
<1> QED BY <1>8, <1>10 DEF BridgeInv

\* A pump is over, or its hop.
LEMMA BridgeClosed ==
  ASSUME Bridge!BridgeBounds, BridgeInv, NEW k \in Bridge!Chain,
         Bridge!Closed(k) \/ Bridge!Finish(k)
  PROVE  BridgeInv'
<1>1. /\ hop[k].pc = "pump" /\ UNCHANGED <<client, guest, faults>>
  BY DEF Bridge!Closed, Bridge!Finish, Bridge!Pumping
<1>2. /\ up \in Queues /\ down \in Queues /\ hop[k] \in HopStates
      /\ shut \in [Bridge!Links -> SUBSET {"near", "far"}]
      /\ k \in Bridge!Links /\ k + 1 \in Bridge!Links /\ k + 1 # k /\ k \in Nodes
  BY ChainPlaces DEF BridgeInv, BridgeTypes
<1>3. CASE Bridge!Closed(k)
  <2>1. PICK r \in HopStates :
          /\ hop' = [hop EXCEPT ![k] = r] /\ r.pc = "pump" /\ r.failed = hop[k].failed
          /\ (r.back # "run" <=> hop[k].back # "run") /\ r.left = hop[k].left
          /\ (r.out # "run" <=> hop[k].out # "run")
    <3>1. CASE hop[k].out = "closing" /\ hop' = [hop EXCEPT ![k].out = "done"]
      <4> DEFINE r == [hop[k] EXCEPT !.out = "done"]
      <4>1. hop' = [hop EXCEPT ![k] = r]
        BY <3>1
      <4>2. r \in HopStates /\ r.pc = "pump" /\ r.failed = hop[k].failed
            /\ r.back = hop[k].back /\ r.left = hop[k].left /\ r.out = "done"
        BY <1>1, <1>2 DEF HopStates
      <4> HIDE DEF r
      <4> QED BY <3>1, <4>1, <4>2
    <3>2. CASE hop[k].back = "closing" /\ hop' = [hop EXCEPT ![k].back = "done"]
      <4> DEFINE r == [hop[k] EXCEPT !.back = "done"]
      <4>1. hop' = [hop EXCEPT ![k] = r]
        BY <3>2
      <4>2. r \in HopStates /\ r.pc = "pump" /\ r.failed = hop[k].failed
            /\ r.out = hop[k].out /\ r.left = hop[k].left /\ r.back = "done"
        BY <1>1, <1>2 DEF HopStates
      <4> HIDE DEF r
      <4> QED BY <3>2, <4>1, <4>2
    <3> QED BY <1>3, <3>1, <3>2 DEF Bridge!Closed
  <2>2. UNCHANGED <<up, down, shut>>
    BY <1>3 DEF Bridge!Closed
  <2>3. /\ BridgeTypes' /\ Early' /\ (Calm' => Calm)
        /\ \A h \in Bridge!Chain : Connecting(h)' => Connecting(h) /\ h < k
        /\ hop'[k] = r /\ \A h \in Bridge!Chain \ {k} : hop'[h] = hop[h]
        /\ \A j \in Nodes \ {k} : Over(j)' = Over(j)
        /\ Over(k)' <=> r.back # "run"
    <3>1. (hop[k].failed => r.failed) /\ (r.failed => hop[k].failed)
          /\ r.pc \in {"pump", "ended"} /\ r \in HopStates
          /\ \A j \in Bridge!Links \ {k, k + 1} : down'[j] = down[j]
      BY <2>1, <2>2
    <3>2. (\A j \in Bridge!Links : OnlyCodes(up[j])) => \A j \in Bridge!Links : OnlyCodes(up'[j])
      BY <2>2
    <3>3. /\ up' \in Queues /\ down' \in Queues /\ hop' = [hop EXCEPT ![k] = r]
          /\ shut' \in [Bridge!Links -> SUBSET {"near", "far"}]
      BY <1>2, <2>1, <2>2
    <3> QED BY <1>1, <1>2, <3>1, <3>2, <3>3, HopActs
  <2>4. \A j \in Nodes : Over(j)' = Over(j)
    <3>1. Over(k)' = Over(k)
      BY <2>1, <2>3, ChainPlaces DEF Over
    <3> QED BY <2>3, <3>1
  <2>5. ASSUME Calm', NEW n \in [Nodes -> Nat], Flowing(n) PROVE Flowing(n)'
    <3>1. \A h \in Bridge!Chain :
            hop'[h].left \/ hop'[h].out # "run" => hop[h].left \/ hop[h].out # "run"
      BY <2>1, <2>3
    <3> QED BY <1>1, <2>2, <2>3, <2>4, <2>5, <3>1, NodesRest DEF BridgeInv
  <2> QED BY <2>3, <2>5 DEF BridgeInv
<1>4. CASE Bridge!Finish(k)
  <2> DEFINE r == [hop[k] EXCEPT !.pc = "ended"]
  <2>1. /\ hop' = [hop EXCEPT ![k] = r] /\ (hop[k].out = "done" \/ hop[k].back = "done")
        /\ up' = up \/ up' = Bridge!Put(up, k + 1, Bridge!Normal)
        /\ down' = down \/ (hop[k].failed /\ down' = Bridge!Put(down, k, Bridge!InternalError))
        /\ shut' = [shut EXCEPT ![k] = IF hop[k].failed THEN @ \cup {"far"} ELSE @,
                                ![k + 1] = @ \cup {"near"}]
    BY <1>4 DEF Bridge!Finish
  <2>2. /\ r \in HopStates /\ r.pc = "ended" /\ r.failed = hop[k].failed
        /\ r.back = hop[k].back /\ r.left = hop[k].left /\ r.out = hop[k].out
    BY <1>1, <1>2 DEF HopStates
  <2> HIDE DEF r
  <2>3. /\ Bridge!Normal \in Bridge!Codes /\ Bridge!Normal \in Int /\ Bridge!InternalError \in Int
    BY DEF Bridge!Codes, Bridge!Normal, Bridge!InternalError
  <2>4. /\ up' \in Queues
        /\ \A j \in Bridge!Links : HasCode(up'[j]) => HasCode(up[j]) \/ j = k + 1
        /\ (\A j \in Bridge!Links : OnlyCodes(up[j])) => \A j \in Bridge!Links : OnlyCodes(up'[j])
    <3>1. CASE up' = up
      BY <1>2, <3>1
    <3>2. CASE up' = Bridge!Put(up, k + 1, Bridge!Normal)
      <4>1. Grown(up', up, k + 1, Bridge!Normal)
        BY <1>2, <2>3, <3>2, LinkPut
      <4> QED BY <2>3, <4>1 DEF Grown
    <3> QED BY <2>1, <3>1, <3>2
  <2>5. down' \in Queues /\ \A j \in Bridge!Links \ {k, k + 1} : down'[j] = down[j]
    <3>1. CASE down' = down
      BY <1>2, <3>1
    <3>2. CASE down' = Bridge!Put(down, k, Bridge!InternalError)
      <4>1. Grown(down', down, k, Bridge!InternalError)
        BY <1>2, <2>3, <3>2, LinkPut
      <4> QED BY <4>1 DEF Grown
    <3> QED BY <2>1, <3>1, <3>2
  <2>6. /\ shut' \in [Bridge!Links -> SUBSET {"near", "far"}]
        /\ ~hop[k].failed => \A j \in Bridge!Links : shut'[j] # {} => shut[j] # {} \/ j = k + 1
    BY <1>2, <2>1
  <2>7. /\ BridgeTypes' /\ Early' /\ (Calm' => Calm)
        /\ \A h \in Bridge!Chain : Connecting(h)' => Connecting(h) /\ h < k
        /\ hop'[k] = r /\ \A h \in Bridge!Chain \ {k} : hop'[h] = hop[h]
        /\ \A j \in Nodes \ {k} : Over(j)' = Over(j)
        /\ Over(k)' <=> r.back # "run"
    BY <1>1, <1>2, <2>1, <2>2, <2>4, <2>5, <2>6, HopActs
  <2>8. \A j \in Nodes : Over(j)' = Over(j)
    <3>1. Over(k)' = Over(k)
      BY <2>2, <2>7, ChainPlaces DEF Over
    <3> QED BY <2>7, <3>1
  <2>9. ASSUME Calm', NEW n \in [Nodes -> Nat], Flowing(n) PROVE Flowing(n)'
    <3>1. ~hop[k].failed /\ down' = down
      BY <2>1, <2>7, <2>9 DEF Calm
    <3>2. Over(k)
      <4>1. hop[k].out = "done" => Over(k)
        BY <2>9 DEF Flowing
      <4>2. hop[k].back = "done" => Over(k)
        BY ChainPlaces DEF Over
      <4> QED BY <2>1, <4>1, <4>2
    <3>3. Over(k + 1)
      BY <2>9, <3>2, OverAhead
    <3>4. \A h \in Bridge!Chain :
            hop'[h].left \/ hop'[h].out # "run" => hop[h].left \/ hop[h].out # "run"
      BY <2>2, <2>7
    <3> QED BY <1>1, <2>4, <2>6, <2>7, <2>8, <2>9, <3>1, <3>3, <3>4, NodesRest DEF BridgeInv
  <2> QED BY <2>7, <2>9 DEF BridgeInv
<1> QED BY <1>3, <1>4

\* The head of the link to node i + 1 is the next message for node i, or the close.
LEMMA NextOnLink ==
  ASSUME Bridge!BridgeBounds, BridgeTypes, NEW n \in [Nodes -> Nat], Flowing(n),
         NEW i \in Nodes, NEW l \in Bridge!Links, l = i + 1, down[l] # << >>
  PROVE  /\ Head(down[l]) \notin Bridge!Codes => Head(down[l]) = n[i] + 1
         /\ Head(down[l]) \in Bridge!Codes => Over(l)
<1>1. l - 1 = i /\ l \in Nodes /\ n[i] \in Nat /\ n[l] \in Nat /\ down[l] \in Seq(Int)
  <2>1. l \in Nodes /\ i \in Int
    BY ChainPlaces DEF Nodes
  <2>2. l - 1 = i
    BY <2>1
  <2>3. down[l] \in Seq(Int)
    BY DEF BridgeTypes, Queues
  <2> QED BY <2>1, <2>2, <2>3
<1>2. Flow(down[l], n[l - 1], n[l], Over(l))
  BY DEF Flowing
<1>3. Flow(down[l], n[i], n[l], Over(l))
  BY <1>1, <1>2
<1> QED BY <1>1, <1>3, FlowTaken

\* A message of the guest on its way to the client.
LEMMA BridgeInward ==
  ASSUME Bridge!BridgeBounds, BridgeInv, NEW k \in Bridge!Chain, Bridge!Inward(k)
  PROVE  BridgeInv'
<1> DEFINE q == Bridge!Took(down, k + 1)
           x == Head(down[k + 1])
<1>1. /\ hop[k].pc = "pump" /\ hop[k].back = "run" /\ down[k + 1] # << >>
      /\ x \notin Bridge!Codes /\ UNCHANGED <<up, shut, client, guest, faults>>
      /\ \/ /\ hop[k].left \/ shut[k] # {} 
            /\ hop' = [hop EXCEPT ![k].back = "closing"] /\ down' = q
         \/ down' = Bridge!Put(q, k, x) /\ hop' = hop
  BY DEF Bridge!Inward, Bridge!Pumping, Bridge!Received
<1>2. /\ up \in Queues /\ down \in Queues /\ hop[k] \in HopStates /\ down[k + 1] \in Seq(Int)
      /\ shut \in [Bridge!Links -> SUBSET {"near", "far"}]
      /\ k \in Bridge!Links /\ k + 1 \in Bridge!Links /\ k + 1 # k /\ k \in Nodes
  BY ChainPlaces DEF BridgeInv, BridgeTypes, Queues
<1>3. /\ q \in Queues /\ q[k + 1] = Tail(down[k + 1])
      /\ \A j \in Bridge!Links \ {k + 1} : q[j] = down[j]
  BY <1>1, <1>2, LinkTook DEF Shrunk
<1>4. x \in Int
  BY <1>1, <1>2
<1>5. (\A j \in Bridge!Links : OnlyCodes(up[j])) => \A j \in Bridge!Links : OnlyCodes(up'[j])
  BY <1>1
<1> HIDE DEF q, x
<1>6. CASE down' = Bridge!Put(q, k, x) /\ hop' = hop
  <2>1. Grown(down', q, k, x)
    BY <1>2, <1>3, <1>4, <1>6, LinkPut
  <2>2. /\ down' \in Queues /\ down'[k] = Append(down[k], x)
        /\ down'[k + 1] = Tail(down[k + 1])
        /\ \A j \in Bridge!Links \ {k, k + 1} : down'[j] = down[j]
    BY <1>2, <1>3, <2>1 DEF Grown
  <2>3. hop' = [hop EXCEPT ![k] = hop[k]] /\ hop[k].pc \in {"pump", "ended"}
    BY <1>1, <1>6 DEF BridgeInv, BridgeTypes
  <2>4. /\ BridgeTypes' /\ Early' /\ (Calm' => Calm)
        /\ \A h \in Bridge!Chain : Connecting(h)' => Connecting(h) /\ h < k
        /\ hop'[k] = hop[k] /\ \A h \in Bridge!Chain \ {k} : hop'[h] = hop[h]
        /\ \A j \in Nodes \ {k} : Over(j)' = Over(j)
        /\ Over(k)' <=> hop[k].back # "run"
    BY <1>1, <1>2, <1>5, <2>2, <2>3, HopActs
  <2>5. \A j \in Nodes : Over(j)' = Over(j)
    BY <1>1, <1>6 DEF Over
  <2>6. ASSUME Calm', NEW n \in [Nodes -> Nat], Flowing(n)
        PROVE  \E m \in [Nodes -> Nat] : Flowing(m)'
    <3>1. x = n[k] + 1
      BY <1>1, <1>2, <2>6, NextOnLink DEF BridgeInv, x
    <3>2. down'[k] = Append(down[k], n[k] + 1)
      BY <2>2, <3>1
    <3>3. ~Over(k) /\ k # 0 /\ k # Hops + 1
      BY <1>1, ChainPlaces DEF Over
    <3>4. /\ client'.got = IF k = 0 THEN n[0] + 1 ELSE client.got
          /\ guest'.sent = IF k = Hops + 1 THEN n[k] + 1 ELSE guest.sent
          /\ guest'.end = guest.end
      BY <1>1, <3>3
    <3>5. \A h \in Bridge!Chain : hop'[h].left = hop[h].left /\ hop'[h].out = hop[h].out
      BY <1>6
    <3>6. /\ down[k + 1] # << >> /\ Head(down[k + 1]) \notin Bridge!Codes
          /\ down'[k + 1] = Tail(down[k + 1])
      BY <1>1, <2>2 DEF x
    <3> QED BY <1>1, <1>2, <2>2, <2>4, <2>5, <2>6, <3>2, <3>3, <3>4, <3>5, <3>6, NodePasses DEF BridgeInv
  <2> QED BY <2>4, <2>6 DEF BridgeInv
<1>7. CASE /\ hop[k].left \/ shut[k] # {}
           /\ hop' = [hop EXCEPT ![k].back = "closing"] /\ down' = q
  <2> DEFINE r == [hop[k] EXCEPT !.back = "closing"]
  <2>1. hop' = [hop EXCEPT ![k] = r]
    BY <1>7
  <2>2. /\ r \in HopStates /\ r.pc \in {"pump", "ended"} /\ (r.failed <=> hop[k].failed)
    BY <1>1, <1>2 DEF HopStates
  <2> HIDE DEF r
  <2>3. down' \in Queues /\ \A j \in Bridge!Links \ {k, k + 1} : down'[j] = down[j]
    BY <1>3, <1>7
  <2>4. BridgeTypes' /\ Early' /\ (Calm' => Calm)
    BY <1>1, <1>2, <1>5, <2>1, <2>2, <2>3, HopActs
  <2>5. ~Calm'
    <3> SUFFICES ASSUME Calm PROVE FALSE
      BY <2>4
    <3>1. PICK n \in [Nodes -> Nat] : Flowing(n)
      BY DEF BridgeInv
    <3>2. Over(k)
      BY <1>2, <1>7, <3>1 DEF Flowing
    <3> QED BY <1>1, <3>2, ChainPlaces DEF Over
  <2> QED BY <2>4, <2>5 DEF BridgeInv
<1> QED BY <1>1, <1>6, <1>7

\* The close from the guest on its way to the client.
LEMMA BridgeUpstreamEnds ==
  ASSUME Bridge!BridgeBounds, BridgeInv, NEW k \in Bridge!Chain, Bridge!UpstreamEnds(k)
  PROVE  BridgeInv'
<1> DEFINE q == Bridge!Took(down, k + 1)
           r == [hop[k] EXCEPT !.back = "closing"]
<1>1. /\ hop[k].pc = "pump" /\ hop[k].back = "run" /\ down[k + 1] # << >>
      /\ Head(down[k + 1]) \in Bridge!Codes /\ UNCHANGED <<up, client, guest, faults>>
      /\ hop' = [hop EXCEPT ![k] = r]
      /\ \/ /\ hop[k].left \/ "far" \in shut[k]
            /\ shut' = [shut EXCEPT ![k + 1] = @ \cup {"near"}] /\ down' = q
         \/ /\ shut' = [shut EXCEPT ![k + 1] = @ \cup {"near"}, ![k] = @ \cup {"far"}]
            /\ down' = Bridge!Put(q, k, Bridge!Normal)
  BY DEF Bridge!UpstreamEnds, Bridge!Pumping, Bridge!Received
<1>2. /\ up \in Queues /\ down \in Queues /\ hop[k] \in HopStates /\ down[k + 1] \in Seq(Int)
      /\ shut \in [Bridge!Links -> SUBSET {"near", "far"}]
      /\ k \in Bridge!Links /\ k + 1 \in Bridge!Links /\ k + 1 # k /\ k \in Nodes
      /\ Bridge!Normal \in Int /\ Bridge!Normal \in Bridge!Codes
  <2>1. Bridge!Normal \in Int /\ Bridge!Normal \in Bridge!Codes
    BY DEF Bridge!Normal, Bridge!Codes
  <2> QED BY <2>1, ChainPlaces DEF BridgeInv, BridgeTypes, Queues
<1>3. /\ q \in Queues /\ q[k + 1] = Tail(down[k + 1])
      /\ \A j \in Bridge!Links \ {k + 1} : q[j] = down[j]
  BY <1>1, <1>2, LinkTook DEF Shrunk
<1>4. /\ r \in HopStates /\ r.pc \in {"pump", "ended"} /\ (r.failed <=> hop[k].failed)
      /\ r.back = "closing" /\ r.left = hop[k].left /\ r.out = hop[k].out
  BY <1>1, <1>2 DEF HopStates
<1>5. (\A j \in Bridge!Links : OnlyCodes(up[j])) => \A j \in Bridge!Links : OnlyCodes(up'[j])
  BY <1>1
<1> HIDE DEF q, r
<1>6. /\ down' \in Queues /\ down'[k + 1] = Tail(down[k + 1])
      /\ \A j \in Bridge!Links \ {k, k + 1} : down'[j] = down[j]
      /\ hop[k].left \/ shut[k] # {} \/ down'[k] = Append(down[k], Bridge!Normal)
  <2>1. CASE down' = q /\ (hop[k].left \/ "far" \in shut[k])
    BY <1>2, <1>3, <2>1
  <2>2. CASE down' = Bridge!Put(q, k, Bridge!Normal)
    <3>1. Grown(down', q, k, Bridge!Normal)
      BY <1>2, <1>3, <2>2, LinkPut
    <3> QED BY <1>2, <1>3, <3>1 DEF Grown
  <2> QED BY <1>1, <2>1, <2>2
<1>7. /\ shut' \in [Bridge!Links -> SUBSET {"near", "far"}]
      /\ \A j \in Bridge!Links : shut'[j] # {} => shut[j] # {} \/ j \in {k, k + 1}
  BY <1>1, <1>2
<1>8. /\ BridgeTypes' /\ Early' /\ (Calm' => Calm)
      /\ \A h \in Bridge!Chain : Connecting(h)' => Connecting(h) /\ h < k
      /\ hop'[k] = r /\ \A h \in Bridge!Chain \ {k} : hop'[h] = hop[h]
      /\ \A j \in Nodes \ {k} : Over(j)' = Over(j)
      /\ Over(k)' <=> r.back # "run"
  BY <1>1, <1>2, <1>4, <1>5, <1>6, <1>7, HopActs
<1>9. ASSUME Calm', NEW n \in [Nodes -> Nat], Flowing(n) PROVE Flowing(n)'
  <2>1. ~Over(k) /\ Over(k)' /\ k # 0 /\ k # Hops + 1
    BY <1>1, <1>4, <1>8, ChainPlaces DEF Over
  <2>2. down'[k] = Append(down[k], Bridge!Normal)
    BY <1>2, <1>6, <1>9, <2>1 DEF Flowing
  <2>3. /\ down[k + 1] # << >> /\ Head(down[k + 1]) \in Bridge!Codes
        /\ down'[k + 1] = Tail(down[k + 1])
    BY <1>1, <1>6
  <2>4. \A h \in Bridge!Chain : hop'[h].left = hop[h].left /\ hop'[h].out = hop[h].out
    BY <1>4, <1>8
  <2>5. /\ client'.got = client.got /\ guest'.sent = guest.sent /\ guest'.end = guest.end
        /\ \A j \in Bridge!Links : HasCode(up'[j]) => HasCode(up[j])
    BY <1>1
  <2> QED BY <1>2, <1>6, <1>7, <1>8, <1>9, <2>1, <2>2, <2>3, <2>4, <2>5, NodeEnds DEF BridgeInv
<1> QED BY <1>8, <1>9 DEF BridgeInv

\* The client sends, leaves, or receives.
LEMMA BridgeClient ==
  ASSUME Bridge!BridgeBounds, BridgeInv,
         Bridge!ClientSends \/ Bridge!ClientLeaves \/ Bridge!ClientReceives
  PROVE  BridgeInv'
<1>1. UNCHANGED <<hop, guest, faults>> /\ client.end = Bridge!Open
  BY DEF Bridge!ClientSends, Bridge!ClientLeaves, Bridge!ClientReceives
<1>2. /\ up \in Queues /\ down \in Queues /\ down[1] \in Seq(Int)
      /\ shut \in [Bridge!Links -> SUBSET {"near", "far"}] /\ 1 \in Bridge!Links
      /\ client \in [sent : Nat, got : Int, end : ClientEnds] /\ 1 \in Bridge!Chain
  BY ChainPlaces DEF BridgeInv, BridgeTypes, Queues
<1>3. Bridge!Normal \in Int /\ Bridge!Normal \in Bridge!Codes
  BY DEF Bridge!Normal, Bridge!Codes
<1>4. \A j \in Nodes \ {0} : Over(j)' = Over(j)
  BY <1>1 DEF Over
<1>5. \A h \in Bridge!Chain : Connecting(h)' = Connecting(h) /\ (Connecting(h) => Unused(h))
  BY <1>1 DEF Connecting, BridgeInv, Early
<1>6. \A h \in Bridge!Chain : 1 \in 1..h
  BY ChainPlaces
<1>7. CASE Bridge!ClientSends
  <2>1. /\ hop[1].pc = "pump" /\ shut[1] = {} /\ UNCHANGED <<down, shut>>
        /\ client' = [client EXCEPT !.sent = client.sent + 1]
        /\ up' = Bridge!Put(up, 1, client.sent + 1)
    BY <1>7 DEF Bridge!ClientSends, Bridge!Connected, Bridge!Pumping
  <2>2. /\ client' \in [sent : Nat, got : Int, end : ClientEnds]
        /\ client'.got = client.got /\ client'.end = client.end /\ client.sent + 1 \in Nat
    BY <1>2, <2>1
  <2>3. Grown(up', up, 1, client.sent + 1) /\ client.sent + 1 \notin Bridge!Codes
    BY <1>2, <2>1, <2>2, LinkPut, NumbersAreNoCodes
  <2>4. BridgeTypes'
    BY <1>1, <2>1, <2>2, <2>3 DEF BridgeInv, BridgeTypes, Grown
  <2>5. Early'
    BY <1>5, <1>6, <2>1 DEF Early, Unused
  <2>6. ASSUME Calm', NEW n \in [Nodes -> Nat], Flowing(n) PROVE Flowing(n)'
    <3>1. Over(0)' = Over(0)
      BY <2>2 DEF Over
    <3>2. \A j \in Bridge!Links : HasCode(up'[j]) => HasCode(up[j])
      BY <2>3 DEF Grown
    <3> QED BY <1>1, <1>4, <1>5, <2>1, <2>2, <2>6, <3>1, <3>2, NodesRest DEF BridgeInv
  <2>7. Calm' => Calm
    BY <1>1, <2>2 DEF Calm
  <2> QED BY <2>4, <2>5, <2>6, <2>7 DEF BridgeInv
<1>8. CASE Bridge!ClientLeaves
  <2>1. /\ client' = [client EXCEPT !.end = Bridge!Left] /\ UNCHANGED down
        /\ up' = Bridge!Put(up, 1, Bridge!Normal) /\ shut' = [shut EXCEPT ![1] = @ \cup {"near"}]
    BY <1>8 DEF Bridge!ClientLeaves
  <2>2. /\ client' \in [sent : Nat, got : Int, end : ClientEnds]
        /\ client'.got = client.got /\ client'.end = Bridge!Left
    BY <1>2, <2>1 DEF ClientEnds
  <2>3. Bridge!Left \notin Bridge!Codes
    BY DEF Bridge!Left, Bridge!Codes, Bridge!Normal, Bridge!Abnormal, Bridge!InternalError
  <2>4. Grown(up', up, 1, Bridge!Normal)
    BY <1>2, <1>3, <2>1, LinkPut
  <2>5. BridgeTypes'
    BY <1>1, <1>2, <2>1, <2>2, <2>4 DEF BridgeInv, BridgeTypes, Grown
  <2>6. Early'
    <3> SUFFICES ASSUME NEW h \in Bridge!Chain, Connecting(h)' PROVE Unused(h)'
      BY DEF Early
    <3>1. Unused(h)
      BY <1>5
    <3>2. \A j \in Bridge!Links : OnlyCodes(up'[j])
      BY <1>3, <2>4, <3>1 DEF Grown, Unused
    <3> QED BY <1>1, <2>1, <2>2, <2>3, <3>1, <3>2 DEF Unused
  <2>7. ~Calm'
    BY <2>2 DEF Calm
  <2> QED BY <2>5, <2>6, <2>7 DEF BridgeInv
<1>9. CASE Bridge!ClientReceives
  <2> DEFINE x == Head(down[1])
  <2>1. /\ down[1] # << >> /\ down' = Bridge!Took(down, 1)
        /\ IF x \in Bridge!Codes
           THEN /\ client' = [client EXCEPT !.end = x]
                /\ up' = up \/ up' = Bridge!Put(up, 1, Bridge!Normal)
                /\ shut' = [shut EXCEPT ![1] = @ \cup {"near"}]
           ELSE client' = [client EXCEPT !.got = x] /\ UNCHANGED <<up, shut>>
    BY <1>9 DEF Bridge!ClientReceives
  <2>2. x \in Int
    BY <1>2, <2>1
  <2>3. Shrunk(down', down, 1)
    BY <1>2, <2>1, LinkTook
  <2> HIDE DEF x
  <2>4. \A h \in Bridge!Chain : ~Connecting(h)
    BY <1>5, <1>6, <2>1 DEF Unused
  <2>5. Early'
    BY <1>5, <2>4 DEF Early
  <2>6. CASE x \in Bridge!Codes
    <3>1. /\ client' \in [sent : Nat, got : Int, end : ClientEnds]
          /\ client'.got = client.got /\ client'.end = x
      BY <1>2, <2>1, <2>6 DEF ClientEnds
    <3>2. /\ up' \in Queues
          /\ \A j \in Bridge!Links : HasCode(up'[j]) => HasCode(up[j]) \/ j = 1
      <4>1. CASE up' = up
        BY <1>2, <4>1
      <4>2. CASE up' = Bridge!Put(up, 1, Bridge!Normal)
        <5>1. Grown(up', up, 1, Bridge!Normal)
          BY <1>2, <1>3, <4>2, LinkPut
        <5> QED BY <5>1 DEF Grown
      <4> QED BY <2>1, <2>6, <4>1, <4>2
    <3>3. /\ shut' \in [Bridge!Links -> SUBSET {"near", "far"}]
          /\ \A j \in Bridge!Links : shut'[j] # {} => shut[j] # {} \/ j = 1
      BY <1>2, <2>1, <2>6
    <3>4. BridgeTypes'
      BY <1>1, <2>3, <3>1, <3>2, <3>3 DEF BridgeInv, BridgeTypes, Shrunk
    <3>5. Calm' => Calm
      BY <1>1, <3>1 DEF Calm, Bridge!Open, Bridge!Left, Bridge!Refused
    <3>6. x # Bridge!Open
      BY <2>6 DEF Bridge!Open, Bridge!Codes, Bridge!Normal, Bridge!Abnormal, Bridge!InternalError
    <3>7. ASSUME Calm', NEW n \in [Nodes -> Nat], Flowing(n) PROVE Flowing(n)'
      <4>1. ~Over(0) /\ Over(0)' /\ 0 \in Nodes
        BY <1>1, <3>1, <3>6, ChainPlaces DEF Over
      <4>2. /\ down[0 + 1] # << >> /\ Head(down[0 + 1]) \in Bridge!Codes
            /\ down'[0 + 1] = Tail(down[0 + 1])
        BY <1>2, <2>1, <2>3, <2>6 DEF Shrunk, x
      <4>3. \A j \in Bridge!Links \ {0, 0 + 1} : down'[j] = down[j]
        BY <1>2, <2>3 DEF Shrunk
      <4>4. /\ \A j \in Bridge!Links : shut'[j] # {} => shut[j] # {} \/ j \in {0, 0 + 1}
            /\ \A j \in Bridge!Links : HasCode(up'[j]) => HasCode(up[j]) \/ (0 = 0 /\ j = 1)
        BY <3>2, <3>3
      <4>5. /\ client'.got = client.got /\ guest'.sent = guest.sent /\ guest'.end = guest.end
            /\ \A h \in Bridge!Chain : hop'[h].left = hop[h].left /\ hop'[h].out = hop[h].out
            /\ ~(0 >= 1)
        BY <1>1, <3>1
      <4> QED BY <1>3, <1>4, <1>5, <3>7, <4>1, <4>2, <4>3, <4>4, <4>5, NodeEnds DEF BridgeInv
    <3> QED BY <2>5, <3>4, <3>5, <3>7 DEF BridgeInv
  <2>7. CASE x \notin Bridge!Codes
    <3>1. /\ client' \in [sent : Nat, got : Int, end : ClientEnds]
          /\ client'.got = x /\ client'.end = client.end /\ UNCHANGED <<up, shut>>
      BY <1>2, <2>1, <2>2, <2>7
    <3>2. BridgeTypes'
      BY <1>1, <2>3, <3>1 DEF BridgeInv, BridgeTypes, Shrunk
    <3>3. Calm' => Calm
      BY <1>1, <3>1 DEF Calm
    <3>4. ASSUME Calm', NEW n \in [Nodes -> Nat], Flowing(n)
          PROVE  \E m \in [Nodes -> Nat] : Flowing(m)'
      <4>1. ~Over(0) /\ 0 \in Nodes /\ Over(0)' = Over(0)
        BY <1>1, <3>1, ChainPlaces DEF Over
      <4>2. /\ down[0 + 1] # << >> /\ Head(down[0 + 1]) \notin Bridge!Codes
            /\ down'[0 + 1] = Tail(down[0 + 1])
        BY <1>2, <2>1, <2>3, <2>7 DEF Shrunk, x
      <4>3. \A j \in Bridge!Links \ {0, 0 + 1} : down'[j] = down[j]
        BY <1>2, <2>3 DEF Shrunk
      <4>4. x = n[0] + 1
        BY <1>2, <2>1, <2>7, <3>4, <4>1, NextOnLink DEF BridgeInv, x
      <4>5. /\ client'.got = IF 0 = 0 THEN n[0] + 1 ELSE client.got
            /\ guest'.sent = IF 0 = Hops + 1 THEN n[0] + 1 ELSE guest.sent
            /\ guest'.end = guest.end
            /\ \A h \in Bridge!Chain : hop'[h].left = hop[h].left /\ hop'[h].out = hop[h].out
            /\ ~(0 >= 1)
        BY <1>1, <3>1, <4>4, ChainPlaces
      <4>6. \A j \in Nodes : Over(j)' = Over(j)
        BY <1>4, <4>1
      <4>7. \A h \in Bridge!Chain : Connecting(h)' => Connecting(h) /\ h < 0
        BY <1>5, <2>4
      <4> QED BY <3>1, <3>4, <4>1, <4>2, <4>3, <4>5, <4>6, <4>7, NodePasses DEF BridgeInv
    <3> QED BY <2>5, <3>2, <3>3, <3>4 DEF BridgeInv
  <2> QED BY <2>6, <2>7
<1> QED BY <1>7, <1>8, <1>9

\* What the guest does leaves the links before the last alone.
LEMMA GuestEarly ==
  ASSUME Bridge!BridgeBounds, Early, UNCHANGED <<hop, client>>,
         \A j \in Bridge!Links \ {Hops + 1} : down'[j] = down[j],
         (\A j \in Bridge!Links : OnlyCodes(up[j])) => \A j \in Bridge!Links : OnlyCodes(up'[j])
  PROVE  Early' /\ \A j \in Nodes \ {Hops + 1} : Over(j)' = Over(j)
<1>1. ASSUME NEW h \in Bridge!Chain, Connecting(h)' PROVE Unused(h)'
  <2>1. Unused(h)
    BY <1>1 DEF Early, Connecting
  <2>2. \A i \in 1..h : i \in Bridge!Links \ {Hops + 1}
    BY DEF Bridge!BridgeBounds, Bridge!Links, Bridge!Chain
  <2> QED BY <2>1, <2>2 DEF Unused
<1>2. \A j \in Nodes \ {Hops + 1} : Over(j)' = Over(j)
  BY DEF Over
<1> QED BY <1>1, <1>2 DEF Early

\* The guest sends, closes, or hears.
LEMMA BridgeGuest ==
  ASSUME Bridge!BridgeBounds, BridgeInv,
         Bridge!GuestSends \/ Bridge!GuestCloses \/ Bridge!GuestHears
  PROVE  BridgeInv'
<1> DEFINE i == Hops + 1
<1>1. UNCHANGED <<hop, client, faults>> /\ guest.end = Bridge!Open
  BY DEF Bridge!GuestSends, Bridge!GuestCloses, Bridge!GuestHears
<1>2. /\ i \in Nodes /\ i \in Bridge!Links /\ ~(i <= Hops) /\ i # 0 /\ i \in Nat
      /\ \A h \in Bridge!Chain : h < i
      /\ \A j \in Bridge!Links \ {i, i + 1} : j \in Bridge!Links \ {i}
  BY DEF Bridge!BridgeBounds, Bridge!Links, Bridge!Chain, Nodes
<1>3. /\ up \in Queues /\ down \in Queues
      /\ shut \in [Bridge!Links -> SUBSET {"near", "far"}]
      /\ guest \in [sent : Nat, heard : Int, end : Int]
  BY DEF BridgeInv, BridgeTypes
<1>4. Bridge!Normal \in Int /\ Bridge!Normal \in Bridge!Codes
  BY DEF Bridge!Normal, Bridge!Codes
<1>5. /\ \A h \in Bridge!Chain : Connecting(h)' = Connecting(h)
      /\ \A h \in Bridge!Chain : hop'[h].left = hop[h].left /\ hop'[h].out = hop[h].out
      /\ client'.got = client.got /\ Calm' = Calm
  BY <1>1 DEF Connecting, Calm
<1>6. ~Over(i) /\ (Over(i)' <=> guest'.end # Bridge!Open)
  BY <1>1, <1>2 DEF Over
<1>7. ASSUME /\ \A j \in Bridge!Links \ {i} : down'[j] = down[j]
             /\ (\A j \in Bridge!Links : OnlyCodes(up[j])) =>
                  \A j \in Bridge!Links : OnlyCodes(up'[j])
      PROVE  Early' /\ \A j \in Nodes \ {i} : Over(j)' = Over(j)
  BY <1>1, <1>7, GuestEarly DEF BridgeInv
<1>8. CASE Bridge!GuestSends
  <2>1. /\ guest' = [guest EXCEPT !.sent = guest.sent + 1] /\ UNCHANGED <<up, shut>>
        /\ down' = Bridge!Put(down, i, guest.sent + 1)
    BY <1>8 DEF Bridge!GuestSends
  <2>2. /\ guest' \in [sent : Nat, heard : Int, end : Int] /\ guest'.sent = guest.sent + 1
        /\ guest'.end = guest.end /\ guest.sent + 1 \in Int
    BY <1>3, <2>1
  <2> HIDE DEF i
  <2>3. Grown(down', down, i, guest.sent + 1)
    BY <1>2, <1>3, <2>1, <2>2, LinkPut
  <2>4. /\ down' \in Queues /\ down'[i] = Append(down[i], guest.sent + 1)
        /\ \A j \in Bridge!Links \ {i} : down'[j] = down[j]
    BY <1>2, <2>3 DEF Grown
  <2>5. Early' /\ \A j \in Nodes \ {i} : Over(j)' = Over(j)
    BY <1>7, <2>1, <2>4
  <2>6. BridgeTypes'
    BY <1>1, <2>1, <2>2, <2>4 DEF BridgeInv, BridgeTypes
  <2>7. ASSUME Calm', NEW n \in [Nodes -> Nat], Flowing(n)
        PROVE  \E m \in [Nodes -> Nat] : Flowing(m)'
    <3>1. n[i] = guest.sent
      BY <2>7 DEF Flowing, i
    <3>2. /\ down'[i] = Append(down[i], n[i] + 1)
          /\ client'.got = IF i = 0 THEN n[0] + 1 ELSE client.got
          /\ guest'.sent = IF i = Hops + 1 THEN n[i] + 1 ELSE guest.sent
      BY <1>2, <1>5, <2>2, <2>4, <3>1 DEF i
    <3>9. Over(i)' = Over(i)
      BY <1>1, <1>2, <2>2 DEF Over, i
    <3>3. \A j \in Nodes : Over(j)' = Over(j)
      BY <2>5, <3>9
    <3>4. \A h \in Bridge!Chain : Connecting(h)' => Connecting(h) /\ h < i
      BY <1>2, <1>5
    <3>5. \A j \in Bridge!Links \ {i, i + 1} : down'[j] = down[j]
      BY <1>2, <2>4
    <3> QED BY <1>2, <1>5, <1>6, <2>1, <2>2, <2>7, <3>2, <3>3, <3>4, <3>5, NodePasses DEF BridgeInv
  <2> QED BY <1>5, <2>5, <2>6, <2>7 DEF BridgeInv
<1>9. CASE Bridge!GuestCloses
  <2>1. /\ guest' = [guest EXCEPT !.end = Bridge!Left] /\ UNCHANGED up
        /\ down' = Bridge!Put(down, i, Bridge!Normal)
        /\ shut' = [shut EXCEPT ![i] = @ \cup {"far"}]
    BY <1>9 DEF Bridge!GuestCloses
  <2>2. /\ guest' \in [sent : Nat, heard : Int, end : Int] /\ guest'.sent = guest.sent
        /\ guest'.end # Bridge!Open
    BY <1>3, <2>1 DEF Bridge!Left, Bridge!Open
  <2> HIDE DEF i
  <2>3. Grown(down', down, i, Bridge!Normal)
    BY <1>2, <1>3, <1>4, <2>1, LinkPut
  <2>4. /\ down' \in Queues /\ down'[i] = Append(down[i], Bridge!Normal)
        /\ \A j \in Bridge!Links \ {i} : down'[j] = down[j]
    BY <1>2, <2>3 DEF Grown
  <2>5. Early' /\ \A j \in Nodes \ {i} : Over(j)' = Over(j)
    BY <1>7, <2>1, <2>4
  <2>6. /\ shut' \in [Bridge!Links -> SUBSET {"near", "far"}]
        /\ \A j \in Bridge!Links : shut'[j] # {} => shut[j] # {} \/ j \in {i, i + 1}
    BY <1>2, <1>3, <2>1
  <2>7. BridgeTypes'
    BY <1>1, <2>1, <2>2, <2>4, <2>6 DEF BridgeInv, BridgeTypes
  <2>8. ASSUME Calm', NEW n \in [Nodes -> Nat], Flowing(n) PROVE Flowing(n)'
    <3>1. /\ \A j \in Bridge!Links \ {i, i + 1} : down'[j] = down[j]
          /\ \A j \in Bridge!Links : HasCode(up'[j]) => HasCode(up[j])
          /\ Over(i)' /\ i = Hops + 1
      BY <1>2, <1>6, <2>1, <2>2, <2>4 DEF i
    <3> QED BY <1>2, <1>4, <1>5, <1>6, <2>2, <2>4, <2>5, <2>6, <2>8, <3>1, NodeEnds DEF BridgeInv
  <2> QED BY <1>5, <2>5, <2>7, <2>8 DEF BridgeInv
<1>10. CASE Bridge!GuestHears
  <2> DEFINE x == Head(up[i])
  <2>1. /\ up[i] # << >> /\ up' = Bridge!Took(up, i)
        /\ IF x \in Bridge!Codes
           THEN /\ guest' = [guest EXCEPT !.end = x]
                /\ down' = down \/ down' = Bridge!Put(down, i, Bridge!Normal)
                /\ shut' = [shut EXCEPT ![i] = @ \cup {"far"}]
           ELSE guest' = [guest EXCEPT !.heard = x] /\ UNCHANGED <<down, shut>>
    BY <1>10 DEF Bridge!GuestHears
  <2> HIDE DEF i
  <2>2. up[i] \in Seq(Int) /\ x \in Int
    BY <1>2, <1>3, <2>1 DEF Queues
  <2>3. Shrunk(up', up, i)
    BY <1>2, <1>3, <2>1, LinkTook
  <2> HIDE DEF x
  <2>4. /\ down' \in Queues /\ \A j \in Bridge!Links \ {i} : down'[j] = down[j]
        /\ shut' \in [Bridge!Links -> SUBSET {"near", "far"}]
    <3>1. shut' \in [Bridge!Links -> SUBSET {"near", "far"}]
      BY <1>2, <1>3, <2>1
    <3>2. CASE down' = down
      BY <1>3, <3>1, <3>2
    <3>3. CASE down' = Bridge!Put(down, i, Bridge!Normal)
      <4>1. Grown(down', down, i, Bridge!Normal)
        BY <1>2, <1>3, <1>4, <3>3, LinkPut
      <4> QED BY <1>2, <3>1, <4>1 DEF Grown
    <3> QED BY <2>1, <3>2, <3>3
  <2>5. Early' /\ \A j \in Nodes \ {i} : Over(j)' = Over(j)
    BY <1>7, <2>3, <2>4 DEF Shrunk
  <2>6. guest' \in [sent : Nat, heard : Int, end : Int]
    BY <1>3, <2>1, <2>2
  <2>7. BridgeTypes'
    BY <1>1, <2>3, <2>4, <2>6 DEF BridgeInv, BridgeTypes, Shrunk
  <2>8. ASSUME Calm', NEW n \in [Nodes -> Nat], Flowing(n) PROVE Flowing(n)'
    <3>1. x \notin Bridge!Codes
      <4>1. x \in Bridge!Codes => HasCode(up[i])
        BY <2>1, <2>2, CodesTaken DEF x
      <4> QED BY <1>2, <1>6, <2>8, <4>1 DEF Flowing
    <3>2. /\ guest'.sent = guest.sent /\ guest'.end = guest.end /\ UNCHANGED <<down, shut>>
      BY <1>3, <2>1, <3>1
    <3>9. Over(i)' = Over(i)
      BY <1>1, <1>2, <3>2 DEF Over, i
    <3>3. \A j \in Nodes : Over(j)' = Over(j)
      BY <2>5, <3>9
    <3>4. \A j \in Bridge!Links : HasCode(up'[j]) => HasCode(up[j])
      BY <2>3 DEF Shrunk
    <3> QED BY <1>5, <2>8, <3>2, <3>3, <3>4, NodesRest DEF BridgeInv
  <2> QED BY <1>5, <2>5, <2>7, <2>8 DEF BridgeInv
<1> QED BY <1>8, <1>9, <1>10

\* A link breaks, which is a fault; it is one between two ends that are connected.
LEMMA BridgeBreak ==
  ASSUME Bridge!BridgeBounds, BridgeInv, NEW i \in Bridge!Links, Bridge!Break(i)
  PROVE  BridgeInv'
<1>1. /\ faults' = faults + 1 /\ UNCHANGED <<hop, client, guest>>
      /\ \A h \in Bridge!Chain : h \in {i - 1, i} => hop[h].pc = "pump"
      /\ shut' = [shut EXCEPT ![i] = {"near", "far"}]
      /\ up' = [up EXCEPT ![i] = <<Bridge!Abnormal>>]
      /\ down' = [down EXCEPT ![i] = <<Bridge!Abnormal>>]
  BY DEF Bridge!Break, Bridge!Fault, Bridge!Pumping
<1>2. BridgeTypes /\ Early
  BY DEF BridgeInv
<1>3. /\ Bridge!Abnormal \in Int /\ <<Bridge!Abnormal>> \in Seq(Int)
      /\ OnlyCodes(<<Bridge!Abnormal>>)
  BY DEF Bridge!Abnormal, Bridge!Codes, OnlyCodes
<1>4. BridgeTypes'
  BY <1>1, <1>2, <1>3 DEF BridgeTypes, Queues
<1>5. ~Calm'
  BY <1>1, <1>2 DEF BridgeTypes, Calm
<1>6. ASSUME NEW h \in Bridge!Chain, Connecting(h)' PROVE Unused(h)'
  <2>1. Unused(h)
    BY <1>1, <1>2, <1>6 DEF Connecting, Early
  <2>2. \A j \in 1..h : j \in Bridge!Chain /\ j \in Bridge!Links
    BY DEF Bridge!BridgeBounds, Bridge!Chain, Bridge!Links
  <2>3. \A j \in 1..h : j # i /\ down'[j] = down[j]
    BY <1>1, <1>2, <2>1, <2>2 DEF Unused, BridgeTypes, Queues
  <2>4. \A j \in Bridge!Links : OnlyCodes(up'[j])
    BY <1>1, <1>2, <1>3, <2>1 DEF Unused, BridgeTypes, Queues
  <2> QED BY <1>1, <2>1, <2>3, <2>4 DEF Unused
<1> QED BY <1>4, <1>5, <1>6 DEF BridgeInv, Early

\* A hop starts to connect, or is connected; then no hop behind it is not.
LEMMA HopConnects ==
  ASSUME Bridge!BridgeBounds, BridgeInv, NEW k \in Bridge!Chain, NEW r \in HopStates,
         hop' = [hop EXCEPT ![k] = r], Connecting(k), r.pc \in {"connect", "pump"},
         r.out = hop[k].out, r.back = hop[k].back, r.left = hop[k].left,
         r.failed = hop[k].failed,
         r.pc = "pump" => \A h \in Bridge!Chain : Connecting(h) => h <= k,
         UNCHANGED <<up, down, shut, client, guest, faults>>
  PROVE  BridgeInv'
<1>1. BridgeTypes /\ Early /\ BridgeTypes'
  BY DEF BridgeInv, BridgeTypes
<1>2. /\ hop'[k] = r /\ \A h \in Bridge!Chain \ {k} : hop'[h] = hop[h]
      /\ \A h \in Bridge!Chain : Connecting(h)' => Connecting(h)
  BY <1>1 DEF BridgeTypes, Connecting
<1>3. \A h \in Bridge!Chain :
        /\ hop'[h].out = hop[h].out /\ hop'[h].back = hop[h].back
        /\ hop'[h].left = hop[h].left /\ hop'[h].failed = hop[h].failed
  BY <1>2
<1>4. ASSUME NEW h \in Bridge!Chain, Connecting(h)' PROVE Unused(h)'
  <2>1. Unused(h)
    BY <1>1, <1>2, <1>4 DEF Early
  <2>2. \A j \in 1..h : j \in Bridge!Chain
    BY DEF Bridge!BridgeBounds, Bridge!Chain
  <2>3. ASSUME NEW j \in 1..h PROVE hop'[j].pc # "pump"
    <3>1. CASE j # k
      BY <1>2, <2>1, <2>2, <3>1 DEF Unused
    <3>2. CASE j = k
      <4>1. h = k => r.pc # "pump"
        BY <1>2, <1>4 DEF Connecting
      <4>2. h # k => ~(h <= k)
        BY <3>2 DEF Bridge!BridgeBounds, Bridge!Chain
      <4> QED BY <1>2, <1>4, <3>2, <4>1, <4>2
    <3> QED BY <3>1, <3>2
  <2> QED BY <1>3, <2>1, <2>2, <2>3 DEF Unused
<1>5. (Calm' => Calm) /\ \A j \in Nodes : Over(j)' = Over(j)
  <2>1. Calm' => Calm
    BY <1>3 DEF Calm
  <2>2. \A j \in Nodes : j = 0 \/ j = Hops + 1 \/ j \in Bridge!Chain
    BY DEF Nodes, Bridge!Chain, Bridge!BridgeBounds
  <2> QED BY <1>3, <2>1, <2>2 DEF Over
<1>6. ASSUME Calm', NEW n \in [Nodes -> Nat], Flowing(n) PROVE Flowing(n)'
  BY <1>1, <1>2, <1>3, <1>5, <1>6, NodesRest
<1> QED BY <1>1, <1>4, <1>5, <1>6 DEF BridgeInv, Early

\* A hop dials the next one, or accepts.
LEMMA BridgeConnects ==
  ASSUME Bridge!BridgeBounds, BridgeInv, NEW h \in Bridge!Chain,
         Bridge!Dial(h) \/ Bridge!Accept(h)
  PROVE  BridgeInv'
<1>1. /\ UNCHANGED <<up, down, shut, client, guest, faults>>
      /\ hop \in [Bridge!Chain -> HopStates] /\ Early
  BY DEF Bridge!Dial, Bridge!Accept, BridgeInv, BridgeTypes
<1>2. CASE Bridge!Dial(h)
  <2> DEFINE k == h + 1
             r == [hop[k] EXCEPT !.pc = "connect"]
  <2>1. k \in Bridge!Chain
    BY <1>2 DEF Bridge!Dial, Bridge!Chain, Bridge!BridgeBounds
  <2>2. hop[k].pc = "idle" /\ hop' = [hop EXCEPT ![k] = r]
    BY <1>2 DEF Bridge!Dial
  <2> HIDE DEF k
  <2>3. /\ r \in HopStates /\ r.pc = "connect" /\ r.out = hop[k].out /\ r.back = hop[k].back
        /\ r.left = hop[k].left /\ r.failed = hop[k].failed
    BY <1>1, <2>1 DEF HopStates
  <2> HIDE DEF r
  <2>4. Connecting(k)
    BY <2>2 DEF Connecting
  <2> QED BY <1>1, <2>1, <2>2, <2>3, <2>4, HopConnects
<1>3. CASE Bridge!Accept(h)
  <2> DEFINE r == [hop[h] EXCEPT !.pc = "pump"]
  <2>1. /\ hop[h].pc = "connect" /\ hop' = [hop EXCEPT ![h] = r]
        /\ h < Hops => hop[h + 1].pc = "pump"
    BY <1>3 DEF Bridge!Accept
  <2>2. /\ r \in HopStates /\ r.pc = "pump" /\ r.out = hop[h].out /\ r.back = hop[h].back
        /\ r.left = hop[h].left /\ r.failed = hop[h].failed
    BY <1>1 DEF HopStates
  <2> HIDE DEF r
  <2>3. Connecting(h)
    BY <2>1 DEF Connecting
  <2>4. ASSUME NEW g \in Bridge!Chain, Connecting(g), ~(g <= h) PROVE FALSE
    <3>1. h < Hops /\ h + 1 \in 1..g
      BY <2>4 DEF Bridge!Chain, Bridge!BridgeBounds
    <3>2. Unused(g)
      BY <1>1, <2>4 DEF Early
    <3> QED BY <2>1, <3>1, <3>2 DEF Unused
  <2> QED BY <1>1, <2>1, <2>2, <2>3, <2>4, HopConnects
<1> QED BY <1>2, <1>3

\* Nothing is under way, and nobody is over.
Blank ==
  /\ client.got = 0 /\ guest.sent = 0 /\ guest.end = Bridge!Open
  /\ client.end \notin {Bridge!Left, Bridge!Refused} => client.end = Bridge!Open
  /\ \A j \in Bridge!Links : down[j] = << >>
  /\ Calm => \A j \in Bridge!Links : shut[j] = {} /\ ~HasCode(up[j])
  /\ \A h \in Bridge!Chain : hop[h].back = "run" /\ hop[h].out = "run" /\ ~hop[h].left

\* Then no message came to any node.
LEMMA NothingYet ==
  ASSUME Bridge!BridgeBounds
  PROVE  Blank => (Calm => \E n \in [Nodes -> Nat] : Flowing(n))
<1> SUFFICES ASSUME Blank, Calm PROVE \E n \in [Nodes -> Nat] : Flowing(n)
  OBVIOUS
<1> DEFINE n == [i \in Nodes |-> 0]
<1>1. n \in [Nodes -> Nat] /\ \A i \in Nodes : n[i] = 0
  OBVIOUS
<1> HIDE DEF n
<1>2. ASSUME NEW i \in Nodes PROVE ~Over(i)
  <2>1. i = 0 \/ i = Hops + 1 \/ i \in Bridge!Chain
    BY DEF Nodes, Bridge!Chain, Bridge!BridgeBounds
  <2> QED BY <2>1 DEF Over, Blank, Calm
<1>3. \A i \in Bridge!Links : Flow(down[i], n[i - 1], n[i], Over(i))
  BY <1>1, FlowEmpty, ChainPlaces DEF Blank
<1>4. \A h \in Bridge!Chain : \A i \in 0..h : i \in Nodes
  BY DEF Bridge!Chain, Nodes, Bridge!BridgeBounds
<1>5. Flowing(n)
  BY <1>1, <1>2, <1>3, <1>4, ChainPlaces DEF Flowing, Blank
<1> QED BY <1>1, <1>5

\* A hop could not connect: nothing came through it yet, and what was opened ahead of it
\* is not used any more.
LEMMA BridgeFails ==
  ASSUME Bridge!BridgeBounds, BridgeInv, NEW k \in Bridge!Chain, Bridge!AttemptFails(k)
  PROVE  BridgeInv'
<1>1. BridgeTypes /\ Early
  BY DEF BridgeInv
<1> DEFINE pc2 == IF hop[k].pc = "connect" /\ hop[k].tries + 1 >= Tries
                  THEN "ended" ELSE hop[k].pc
           r == [hop[k] EXCEPT !.tries = hop[k].tries + 1, !.pc = pc2]
<1>2. /\ hop[k].pc = "connect" /\ (faults' = faults \/ faults' = faults + 1)
      /\ hop' = [g \in Bridge!Chain |->
                   IF g > k THEN Bridge!Still ELSE IF g = k THEN r ELSE hop[g]]
      /\ up' = [i \in Bridge!Links |-> IF i > k THEN << >> ELSE up[i]]
      /\ down' = [i \in Bridge!Links |-> IF i > k THEN << >> ELSE down[i]]
      /\ shut' = [i \in Bridge!Links |-> IF i > k THEN {} ELSE shut[i]]
      /\ client' = [client EXCEPT !.end = IF hop'[1].pc = "ended" /\ client.end = Bridge!Open
                                          THEN Bridge!Refused ELSE client.end]
      /\ guest' = Bridge!NewEnd
  BY DEF Bridge!AttemptFails, Bridge!Fault
<1>3. /\ r \in HopStates /\ r.out = hop[k].out /\ r.back = hop[k].back /\ r.left = hop[k].left
      /\ r.failed = hop[k].failed /\ r.pc # "pump"
  <2>1. hop[k] \in HopStates /\ pc2 \in {"connect", "ended"}
    BY <1>1, <1>2 DEF BridgeTypes
  <2> HIDE DEF pc2
  <2> DEFINE q == [hop[k] EXCEPT !.tries = hop[k].tries + 1]
  <2>2. q \in HopStates
    BY <2>1 DEF HopStates
  <2>3. /\ q.out = hop[k].out /\ q.back = hop[k].back /\ q.left = hop[k].left
        /\ q.failed = hop[k].failed
    BY <2>1 DEF HopStates
  <2>4. r = [q EXCEPT !.pc = pc2]
    OBVIOUS
  <2> HIDE DEF q, r
  <2>5. r \in HopStates
    BY <2>1, <2>2, <2>4 DEF HopStates
  <2>6. /\ r.out = q.out /\ r.back = q.back /\ r.left = q.left
        /\ r.failed = q.failed /\ r.pc = pc2
    BY <2>1, <2>2, <2>4 DEF HopStates
  <2> QED BY <2>1, <2>3, <2>5, <2>6
<1> HIDE DEF r
<1>4. /\ Bridge!Still \in HopStates /\ Bridge!Still.pc = "idle" /\ Bridge!Still.out = "run"
      /\ Bridge!Still.back = "run" /\ ~Bridge!Still.left /\ ~Bridge!Still.failed
  BY DEF Bridge!Still, HopStates
<1>5. Unused(k)
  BY <1>1, <1>2 DEF Early, Connecting
<1>6. /\ \A h \in Bridge!Chain : h \in Nat /\ h >= 1 /\ (~(h > k) => h \in 1..k)
      /\ \A j \in Bridge!Links : j \in Nat /\ j >= 1 /\ (~(j > k) => j \in 1..k /\ j \in Bridge!Chain)
      /\ \A j \in 1..k : j \in Bridge!Chain
  BY DEF Bridge!Chain, Bridge!Links, Bridge!BridgeBounds
<1>7. ASSUME NEW h \in Bridge!Chain
      PROVE  /\ hop'[h] \in HopStates /\ hop'[h].pc # "pump" /\ hop'[h].out = "run"
             /\ hop'[h].back = "run" /\ ~hop'[h].left /\ ~hop'[h].failed
  <2>1. CASE h > k
    BY <1>2, <1>4, <2>1
  <2>2. CASE h = k
    BY <1>2, <1>3, <1>5, <1>6, <2>2 DEF Unused
  <2>3. CASE ~(h > k) /\ h # k
    <3>1. hop'[h] = hop[h] /\ h \in 1..k
      BY <1>2, <1>6, <2>3
    <3> QED BY <1>1, <1>5, <3>1 DEF Unused, BridgeTypes
  <2> QED BY <2>1, <2>2, <2>3
<1>8. \A j \in Bridge!Links : down'[j] = << >>
  BY <1>2, <1>5, <1>6 DEF Unused
<1>9. /\ client' \in [sent : Nat, got : Int, end : ClientEnds] /\ client'.got = 0
      /\ client'.end \notin Bridge!Codes
      /\ client'.end \notin {Bridge!Left, Bridge!Refused} =>
           client'.end = Bridge!Open /\ client.end \notin {Bridge!Left, Bridge!Refused}
  <2>1. client \in [sent : Nat, got : Int, end : ClientEnds] /\ client.got = 0
        /\ client.end \notin Bridge!Codes
    BY <1>1, <1>5 DEF BridgeTypes, Unused
  <2>2. Bridge!Refused \in ClientEnds /\ Bridge!Refused \notin Bridge!Codes
    BY DEF ClientEnds, Bridge!Refused, Bridge!Codes, Bridge!Normal, Bridge!InternalError,
           Bridge!Abnormal
  <2>3. client' = client \/ client' = [client EXCEPT !.end = Bridge!Refused]
    BY <1>2, <2>1
  <2> QED BY <2>1, <2>2, <2>3 DEF ClientEnds
<1>10. \A j \in Bridge!Links : up'[j] \in Seq(Int) /\ OnlyCodes(up'[j])
  <2>1. << >> \in Seq(Int) /\ OnlyCodes(<< >>)
    BY DEF OnlyCodes
  <2> QED BY <1>1, <1>2, <1>5, <2>1 DEF Unused, BridgeTypes, Queues
<1>11. BridgeTypes'
  <2>1. up' \in Queues
    <3>1. \A j \in Bridge!Links : (IF j > k THEN << >> ELSE up[j]) \in Seq(Int)
      BY <1>1 DEF BridgeTypes, Queues
    <3> QED BY <1>2, <3>1 DEF Queues
  <2>5. down' \in Queues
    <3>1. \A j \in Bridge!Links : (IF j > k THEN << >> ELSE down[j]) \in Seq(Int)
      BY <1>1 DEF BridgeTypes, Queues
    <3> QED BY <1>2, <3>1 DEF Queues
  <2>2. shut' \in [Bridge!Links -> SUBSET {"near", "far"}]
    BY <1>1, <1>2 DEF BridgeTypes
  <2>3. hop' \in [Bridge!Chain -> HopStates]
    BY <1>2, <1>7
  <2>4. guest' \in [sent : Nat, heard : Int, end : Int] /\ faults' \in Nat
    BY <1>1, <1>2 DEF Bridge!NewEnd, Bridge!Open, BridgeTypes
  <2> QED BY <1>9, <2>1, <2>2, <2>3, <2>4, <2>5 DEF BridgeTypes
<1>12. Early'
  <2>1. \A h \in Bridge!Chain : \A j \in 1..h : j \in Bridge!Chain /\ j \in Bridge!Links
    BY DEF Bridge!Chain, Bridge!Links, Bridge!BridgeBounds
  <2> QED BY <1>7, <1>8, <1>9, <1>10, <2>1 DEF Early, Unused
<1>13. ASSUME Calm' PROVE \A j \in Bridge!Links : shut'[j] = {} /\ ~HasCode(up'[j])
  <2>1. Calm
    BY <1>1, <1>2, <1>5, <1>9, <1>13 DEF Calm, BridgeTypes, Unused
  <2>2. PICK n \in [Nodes -> Nat] : Flowing(n)
    BY <2>1 DEF BridgeInv
  <2>3. \A j \in Bridge!Links : ~(j > k) => ~Over(j)
    BY <1>5, <1>6, ChainPlaces DEF Unused, Over
  <2>4. ~HasCode(<< >>)
    BY DEF HasCode
  <2> QED BY <1>2, <2>2, <2>3, <2>4 DEF Flowing
<1>14. Blank'
  <2>1. guest'.sent = 0 /\ guest'.end = Bridge!Open
    BY <1>2 DEF Bridge!NewEnd
  <2> QED BY <1>7, <1>8, <1>9, <1>13, <2>1 DEF Blank
<1>15. Blank' => (Calm' => (\E n \in [Nodes -> Nat] : Flowing(n))')
  BY NothingYet, PTL
<1> QED BY <1>11, <1>12, <1>14, <1>15 DEF BridgeInv

\* Nobody has sent anything.
LEMMA BridgeStarts == ASSUME Bridge!BridgeBounds, Bridge!Init PROVE BridgeInv
<1>1. /\ \A i \in Bridge!Links : up[i] = << >> /\ down[i] = << >> /\ shut[i] = {}
      /\ up \in Queues /\ down \in Queues /\ shut \in [Bridge!Links -> SUBSET {"near", "far"}]
  BY DEF Bridge!Init, Queues
<1>2. /\ client = [sent |-> 0, got |-> 0, end |-> Bridge!Open] /\ guest = Bridge!NewEnd
      /\ faults = 0 /\ Bridge!Open \in ClientEnds /\ Bridge!Open \notin Bridge!Codes
  BY DEF Bridge!Init, ClientEnds, Bridge!Open, Bridge!Codes, Bridge!Normal, Bridge!InternalError,
         Bridge!Abnormal
<1>3. /\ hop \in [Bridge!Chain -> HopStates]
      /\ \A h \in Bridge!Chain : /\ hop[h].pc # "pump" /\ hop[h].out = "run" /\ ~hop[h].left
                                 /\ hop[h].back = "run" /\ ~hop[h].failed
  BY DEF Bridge!Init, Bridge!Still, HopStates
<1>4. BridgeTypes
  BY <1>1, <1>2, <1>3 DEF BridgeTypes, Bridge!NewEnd, Bridge!Open
<1>5. ~HasCode(<< >>) /\ OnlyCodes(<< >>)
  BY DEF HasCode, OnlyCodes
<1>6. Early
  <2>1. \A h \in Bridge!Chain : \A j \in 1..h : j \in Bridge!Chain /\ j \in Bridge!Links
    BY DEF Bridge!Chain, Bridge!Links, Bridge!BridgeBounds
  <2> QED BY <1>1, <1>2, <1>3, <1>5, <2>1 DEF Early, Unused
<1>7. Blank
  BY <1>1, <1>2, <1>3, <1>5 DEF Blank, Bridge!NewEnd
<1> QED BY <1>4, <1>6, <1>7, NothingYet DEF BridgeInv

\* Whatever happens between the two ends.
LEMMA BridgeSteps ==
  ASSUME Bridge!BridgeBounds, BridgeInv, [Bridge!Next]_(Bridge!vars)
  PROVE  BridgeInv'
<1>1. CASE \E h \in Bridge!Chain :
             \/ Bridge!Dial(h) \/ Bridge!Accept(h) \/ Bridge!AttemptFails(h)
             \/ Bridge!Outward(h) \/ Bridge!Disconnected(h) \/ Bridge!Inward(h)
             \/ Bridge!UpstreamEnds(h) \/ Bridge!Closed(h) \/ Bridge!Finish(h)
  BY <1>1, BridgeConnects, BridgeFails, BridgeOutward, BridgeDisconnected, BridgeInward,
     BridgeUpstreamEnds, BridgeClosed
<1>2. CASE \E i \in Bridge!Links : Bridge!Break(i)
  BY <1>2, BridgeBreak
<1>3. CASE Bridge!ClientSends \/ Bridge!ClientLeaves \/ Bridge!ClientReceives
  BY <1>3, BridgeClient
<1>4. CASE Bridge!GuestSends \/ Bridge!GuestCloses \/ Bridge!GuestHears
  BY <1>4, BridgeGuest
<1>5. CASE UNCHANGED Bridge!vars
  <2>1. UNCHANGED <<up, down, shut, hop, client, guest, faults>>
    BY <1>5 DEF Bridge!vars
  <2>2. BridgeTypes' = BridgeTypes /\ Early' = Early /\ Calm' = Calm
    BY <2>1 DEF BridgeTypes, Early, Connecting, Unused, Calm
  <2>3. (\E n \in [Nodes -> Nat] : Flowing(n))' = (\E n \in [Nodes -> Nat] : Flowing(n))
    BY <2>1 DEF Flowing, Over, Connecting
  <2> QED BY <2>2, <2>3 DEF BridgeInv
<1> QED BY <1>1, <1>2, <1>3, <1>4, <1>5 DEF Bridge!Next

\* Messages on the links of a chain, always.
LEMMA AlwaysBridgeInv ==
  ASSUME Bridge!BridgeBounds PROVE Bridge!Spec => []BridgeInv
<1>1. Bridge!Init => BridgeInv
  BY BridgeStarts
<1>2. BridgeInv /\ [Bridge!Next]_(Bridge!vars) => BridgeInv'
  BY BridgeSteps
<1> QED BY <1>1, <1>2, PTL DEF Bridge!Spec

\* A client whose WebSocket ends with 1000 has every message of the guest, unless a link
\* broke or a send to a guest that had closed failed (NormalEndIsWhole): in
\* proxy.py the pump passes a close on only behind what it received before it.
THEOREM WholeBridges ==
  ASSUME Bridge!BridgeBounds PROVE Bridge!Spec => []Bridge!NormalEndIsWhole
<1>1. BridgeInv => Bridge!NormalEndIsWhole
  <2> SUFFICES ASSUME BridgeInv, client.end = Bridge!Normal, faults = 0,
                      \A h \in Bridge!Chain : ~hop[h].failed
               PROVE  client.got = guest.sent
    BY DEF Bridge!NormalEndIsWhole, BridgeInv, BridgeTypes
  <2>1. Calm /\ Over(0)
    BY DEF Calm, Over, Bridge!Normal, Bridge!Left, Bridge!Refused, Bridge!Open
  <2>2. PICK n \in [Nodes -> Nat] : Flowing(n)
    BY <2>1 DEF BridgeInv
  <2> QED BY <2>1, <2>2, ChainPlaces DEF Flowing
<1> QED BY <1>1, AlwaysBridgeInv, PTL

-----------------------------------------------------------------------------
(* A guest's files *)

Cells == Files!Piece \cup {<<None, 1>>}

Writing ==
  [pc : {"idle", "read", "mkdir", "cut", "append", "whole", "verify", "done"},
   op : {"upload", "write", "replace", None}, i : {1, 2}, answer : {"none", "ok", "failed"},
   overlap : BOOLEAN, unnoticed : BOOLEAN]

\* A file has pieces and a mode, and a directory it is in.
FilesTree ==
  /\ tree \in [Files!Paths -> Files!Contents \cup {None}]
  /\ Files!There(Files!Inner) => Files!There(Files!Dir)
  /\ known \in [Files!Paths -> {"current", "old", None}]

\* What a writer that nobody disturbed knows of its file, of which s are the pieces.
WriterKnows(c, w, s) ==
  /\ c.pc \in {"read", "mkdir", "cut"} => c.i = 1
  /\ \/ c.overlap \/ c.unnoticed
     \/ /\ c.pc = "append" /\ c.i = 1 /\ c.op = "upload" => s = << >>
        /\ c.pc = "append" /\ c.i = 2 => s = << <<w, 1>> >>
        /\ c.pc = "verify" => s = Files!Data(w)

FilesWriters ==
  /\ writer \in [Writers -> Writing] /\ late \subseteq Files!Piece
  /\ \A w \in Writers : WriterKnows(writer[w], w, Files!Pieces(Files!Inner))

\* What a watcher's client was told of a path is as the watcher last saw it, and as it is unless
\* it changed since.
FilesWatcher ==
  \A p \in Files!Paths : p \in Files!Watched \ hidden =>
    /\ known[p] = None <=> seen[p] = None
    /\ p \notin changed => known[p] = IF Files!There(p) THEN "current" ELSE None

FilesInv == FilesTree /\ FilesWriters /\ FilesWatcher

\* Paths that are watched are paths.
LEMMA WatchedPaths == Files!Watched \subseteq Files!Paths
BY DEF Files!Watched, Files!WatchedBy, Files!Paths

\* The three paths.
LEMMA ThePaths ==
  /\ Files!Inner \in Files!Paths /\ Files!Dir \in Files!Paths /\ Files!Outer \in Files!Paths
  /\ Files!Inner # Files!Dir /\ Files!Inner # Files!Outer /\ Files!Dir # Files!Outer
BY DEF Files!Inner, Files!Dir, Files!Outer, Files!Paths

\* The tree stays as it is.
LEMMA SameTree ==
  ASSUME FilesTree, FilesWatcher, Files!TreeSame, UNCHANGED Files!watchVars
  PROVE  /\ FilesTree' /\ FilesWatcher' /\ Files!WatchersFollow
         /\ Files!Pieces(Files!Inner)' = Files!Pieces(Files!Inner)
         /\ Files!There(Files!Inner)' = Files!There(Files!Inner)
<1>1. UNCHANGED <<tree, changed, known, watching, seen, hidden>>
  BY DEF Files!TreeSame, Files!watchVars
<1>2. FilesTree'
  BY <1>1 DEF FilesTree, Files!There
<1>3. FilesWatcher'
  BY <1>1 DEF FilesWatcher, Files!Watched, Files!There
<1>4. Files!WatchersFollow
  BY <1>1, WatchedPaths DEF FilesWatcher, Files!WatchersFollow
<1> QED BY <1>1, <1>2, <1>3, <1>4 DEF Files!Pieces, Files!There

\* The tree becomes another one, and the watcher does not look.
LEMMA NewTree ==
  ASSUME Files!FilesBounds, FilesTree, FilesWatcher, UNCHANGED Files!watchVars,
         NEW new \in [Files!Paths -> Files!Contents \cup {None}], NEW paths,
         new[Files!Inner] # None => new[Files!Dir] # None, Files!Becomes(new, paths)
  PROVE  FilesTree' /\ FilesWatcher' /\ Files!WatchersFollow
<1>1. tree' = new /\ UNCHANGED <<watching, seen, hidden>>
  BY DEF Files!Becomes, Files!watchVars
<1>2. known' = [p \in Files!Paths |-> IF known[p] # None /\ p \in Files!Changes(new) \cup paths
                                      THEN "old" ELSE known[p]]
  BY DEF Files!Becomes
<1>3. FilesTree'
  <2>1. known' \in [Files!Paths -> {"current", "old", None}]
    BY <1>2 DEF FilesTree
  <2> QED BY <1>1, <2>1 DEF FilesTree, Files!There
<1>4. ASSUME NEW p \in Files!Paths, p \notin changed'
      PROVE  /\ p \notin changed /\ tree'[p] = tree[p] /\ known'[p] = known[p]
             /\ Files!There(p)' = Files!There(p)
  <2>1. p \notin changed /\ p \notin Files!Changes(new) \cup paths
    BY <1>4 DEF Files!Becomes
  <2>2. new[p] = tree[p]
    BY <2>1 DEF Files!Changes
  <2> QED BY <1>1, <1>2, <2>1, <2>2 DEF Files!There
<1>5. \A p \in Files!Paths : known'[p] = None <=> known[p] = None
  BY <1>2 DEF Files!FilesBounds
<1>6. FilesWatcher'
  BY <1>1, <1>4, <1>5 DEF FilesWatcher, Files!Watched
<1>7. Files!WatchersFollow
  <2> SUFFICES ASSUME changed' = {}, NEW p \in Files!Watched \ hidden'
               PROVE  known'[p] = IF Files!There(p) THEN "current" ELSE None
    BY DEF Files!WatchersFollow
  <2>1. p \in Files!Paths /\ p \notin changed'
    BY WatchedPaths
  <2> QED BY <1>1, <1>4, <2>1 DEF FilesWatcher
<1> QED BY <1>3, <1>6, <1>7

\* The mode of a path is set.
LEMMA NewMode ==
  ASSUME Files!FilesBounds, FilesTree, FilesWatcher, UNCHANGED Files!watchVars, NEW p \in Files!Paths,
         Files!There(p), tree' = [tree EXCEPT ![p].mode = 1 - @], UNCHANGED <<changed, known>>
  PROVE  FilesTree' /\ FilesWatcher' /\ Files!WatchersFollow
<1> DEFINE f == [tree[p] EXCEPT !.mode = 1 - @]
<1>1. tree[p] \in Files!Contents /\ tree' = [tree EXCEPT ![p] = f]
  BY DEF FilesTree, Files!There
<1>2. f \in Files!Contents
  BY <1>1 DEF Files!Contents
<1> HIDE DEF f
<1>3. /\ tree' \in [Files!Paths -> Files!Contents \cup {None}]
      /\ \A q \in Files!Paths : tree'[q] = None <=> tree[q] = None
  BY <1>1, <1>2 DEF FilesTree, Files!There, Files!FilesBounds
<1>4. \A q \in Files!Paths : Files!There(q)' <=> Files!There(q)
  BY <1>3 DEF Files!There
<1>5. UNCHANGED <<watching, seen, changed, known, hidden>>
  BY DEF Files!watchVars
<1>6. FilesTree'
  BY <1>3, <1>4, <1>5, ThePaths DEF FilesTree
<1>7. FilesWatcher'
  BY <1>4, <1>5 DEF FilesWatcher, Files!Watched
<1>8. Files!WatchersFollow
  BY <1>5, WatchedPaths DEF FilesWatcher, Files!WatchersFollow
<1> QED BY <1>6, <1>7, <1>8

\* A path is written.
LEMMA PathWritten ==
  ASSUME Files!FilesBounds, FilesTree, FilesWatcher, UNCHANGED Files!watchVars,
         NEW p \in {Files!Inner, Files!Outer}, NEW s \in Seq(Cells), Files!Write(p, s),
         p = Files!Inner => Files!There(Files!Dir)
  PROVE  /\ FilesTree' /\ FilesWatcher' /\ Files!WatchersFollow
         /\ Files!Pieces(p)' = s /\ tree'[p] # None /\ tree'[p].pieces = s
<1> DEFINE c == [pieces |-> s, mode |-> Files!Mode(p)]
           new == [tree EXCEPT ![p] = c]
<1>1. p \in Files!Paths /\ p # Files!Dir
  BY ThePaths
<1>2. Files!Mode(p) \in {0, 1}
  BY <1>1 DEF Files!Mode, Files!There, FilesTree, Files!Contents
<1>3. c \in Files!Contents /\ c.pieces = s
  BY <1>2 DEF Files!Contents, Cells
<1>4. Files!Becomes(new, {p})
  BY DEF Files!Write
<1> HIDE DEF c
<1>5. new \in [Files!Paths -> Files!Contents \cup {None}] /\ new[p] = c
  BY <1>1, <1>3 DEF FilesTree
<1>6. new[Files!Inner] # None => new[Files!Dir] # None
  BY <1>1, ThePaths DEF FilesTree, Files!There
<1>7. tree' = new
  BY <1>4 DEF Files!Becomes
<1> HIDE DEF new
<1>8. FilesTree' /\ FilesWatcher' /\ Files!WatchersFollow
  BY <1>4, <1>5, <1>6, NewTree
<1>9. c # None
  BY <1>3 DEF Files!FilesBounds
<1> QED BY <1>3, <1>5, <1>7, <1>8, <1>9 DEF Files!Pieces, Files!There

\* The directory is made.
LEMMA DirMade ==
  ASSUME Files!FilesBounds, FilesTree, FilesWatcher, UNCHANGED Files!watchVars, Files!MakeDir
  PROVE  /\ FilesTree' /\ FilesWatcher' /\ Files!WatchersFollow
         /\ Files!Pieces(Files!Inner)' = Files!Pieces(Files!Inner)
<1> DEFINE c == [pieces |-> << >>, mode |-> Files!Mode(Files!Dir)]
           new == [tree EXCEPT ![Files!Dir] = c]
<1>1. Files!Mode(Files!Dir) \in {0, 1}
  BY ThePaths DEF Files!Mode, Files!There, FilesTree, Files!Contents
<1>2. << >> \in Seq(Cells)
  OBVIOUS
<1>3. c \in Files!Contents
  BY <1>1, <1>2 DEF Files!Contents, Cells
<1>4. Files!Becomes(new, {})
  BY DEF Files!MakeDir
<1> HIDE DEF c
<1>5. /\ new \in [Files!Paths -> Files!Contents \cup {None}] /\ new[Files!Dir] # None
      /\ new[Files!Inner] = tree[Files!Inner]
  BY <1>3, ThePaths DEF FilesTree, Files!FilesBounds
<1>6. tree' = new
  BY <1>4 DEF Files!Becomes
<1> HIDE DEF new
<1>7. FilesTree' /\ FilesWatcher' /\ Files!WatchersFollow
  BY <1>4, <1>5, NewTree
<1> QED BY <1>5, <1>6, <1>7 DEF Files!Pieces, Files!There

\* A writer that learns that it was not alone.
LEMMA WriterDisturbed ==
  ASSUME NEW c \in Writing, NEW w, NEW s, NEW t, WriterKnows(c, w, s)
  PROVE  LET d == IF c.pc \notin {"idle", "done"} THEN [c EXCEPT !.overlap = TRUE] ELSE c IN
         d \in Writing /\ WriterKnows(d, w, t) /\ d.answer = c.answer
<1>1. CASE c.pc \in {"idle", "done"}
  BY <1>1 DEF WriterKnows
<1>2. CASE c.pc \notin {"idle", "done"}
  <2> DEFINE d == [c EXCEPT !.overlap = TRUE]
  <2>1. d \in Writing /\ d.overlap = TRUE /\ d.pc = c.pc /\ d.i = c.i /\ d.answer = c.answer
    BY DEF Writing
  <2> HIDE DEF d
  <2>2. WriterKnows(d, w, t)
    BY <2>1 DEF WriterKnows
  <2> QED BY <1>2, <2>1, <2>2 DEF d
<1> QED BY <1>1, <1>2

\* A writer goes on.
LEMMA WriterGoes ==
  ASSUME FilesWriters, FilesTree', FilesWatcher', Files!WatchersFollow, late' \subseteq Files!Piece,
         NEW w \in Writers, NEW c \in Writing, Files!Goto(w, c),
         WriterKnows(c, w, Files!Pieces(Files!Inner)'),
         c.answer = "ok" /\ writer[w].answer # "ok" =>
           \/ tree'[Files!Inner] # None /\ tree'[Files!Inner].pieces = Files!Data(w)
           \/ c.overlap \/ c.unnoticed
  PROVE  FilesInv' /\ Files!Told
<1>1. ASSUME NEW v \in Writers
      PROVE  /\ writer'[v] \in Writing /\ WriterKnows(writer'[v], v, Files!Pieces(Files!Inner)')
             /\ v # w => writer'[v].answer = writer[v].answer
             /\ v = w => writer'[v] = c
  <2>1. CASE v = w
    BY <2>1 DEF Files!Goto
  <2>2. CASE v # w
    <3>1. writer'[v] = IF writer[v].pc \notin {"idle", "done"}
                       THEN [writer[v] EXCEPT !.overlap = TRUE] ELSE writer[v]
      BY <2>2 DEF Files!Goto
    <3>2. writer[v] \in Writing /\ WriterKnows(writer[v], v, Files!Pieces(Files!Inner))
      BY DEF FilesWriters
    <3> QED BY <2>2, <3>1, <3>2, WriterDisturbed
  <2> QED BY <2>1, <2>2
<1>2. writer' \in [Writers -> Writing]
  <2>1. writer' = [v \in Writers |-> writer'[v]]
    BY DEF Files!Goto
  <2> QED BY <1>1, <2>1
<1>3. FilesWriters'
  BY <1>1, <1>2 DEF FilesWriters
<1>4. Files!WrittenWhole
  BY <1>1 DEF Files!WrittenWhole
<1> QED BY <1>3, <1>4 DEF FilesInv, Files!Told

\* Every writer under way learns that it was not alone.
LEMMA WritersDisturbed ==
  ASSUME FilesWriters, FilesTree', FilesWatcher', Files!WatchersFollow, late' \subseteq Files!Piece,
         writer' = [v \in Writers |-> IF writer[v].pc \notin {"idle", "done"}
                                      THEN [writer[v] EXCEPT !.overlap = TRUE] ELSE writer[v]]
  PROVE  FilesInv' /\ Files!Told
<1>1. ASSUME NEW v \in Writers
      PROVE  /\ writer'[v] \in Writing /\ WriterKnows(writer'[v], v, Files!Pieces(Files!Inner)')
             /\ writer'[v].answer = writer[v].answer
  <2>1. writer'[v] = IF writer[v].pc \notin {"idle", "done"}
                     THEN [writer[v] EXCEPT !.overlap = TRUE] ELSE writer[v]
    OBVIOUS
  <2>2. writer[v] \in Writing /\ WriterKnows(writer[v], v, Files!Pieces(Files!Inner))
    BY DEF FilesWriters
  <2> QED BY <2>1, <2>2, WriterDisturbed
<1>2. writer' \in [Writers -> Writing]
  <2>1. writer' = [v \in Writers |-> writer'[v]]
    OBVIOUS
  <2> QED BY <1>1, <2>1
<1>3. FilesWriters'
  BY <1>1, <1>2 DEF FilesWriters
<1>4. Files!WrittenWhole
  BY <1>1 DEF Files!WrittenWhole
<1> QED BY <1>3, <1>4 DEF FilesInv, Files!Told

\* A writer that goes on while the tree stays as it is.
LEMMA WriterWaits ==
  ASSUME FilesInv, NEW w \in Writers, NEW c \in Writing, Files!Goto(w, c), Files!TreeSame,
         UNCHANGED Files!watchVars, late' \subseteq Files!Piece,
         WriterKnows(c, w, Files!Pieces(Files!Inner)), c.answer = "ok" => writer[w].answer = "ok"
  PROVE  FilesInv' /\ Files!Told
<1>1. /\ FilesTree' /\ FilesWatcher' /\ Files!WatchersFollow
      /\ Files!Pieces(Files!Inner)' = Files!Pieces(Files!Inner)
  BY SameTree DEF FilesInv
<1> QED BY <1>1, WriterGoes DEF FilesInv

\* A writer that is answered "failed" where it waits.
LEMMA WriterFails ==
  ASSUME FilesInv, NEW w \in Writers, Files!Answer(w, "failed"), Files!TreeSame,
         UNCHANGED Files!watchVars, late' \subseteq Files!Piece
  PROVE  FilesInv' /\ Files!Told
<1> DEFINE a == IF writer[w].answer = "none" THEN "failed" ELSE writer[w].answer
           c == [writer[w] EXCEPT !.pc = "done", !.answer = a]
<1>1. writer[w] \in Writing /\ a \in {"none", "ok", "failed"} /\ (a = "ok" => writer[w].answer = "ok")
  BY DEF FilesInv, FilesWriters, Writing
<1>2. Files!Goto(w, c)
  BY DEF Files!Answer
<1> HIDE DEF a
<1>3. c \in Writing /\ c.pc = "done" /\ c.answer = a
  BY <1>1 DEF Writing
<1> HIDE DEF c
<1>4. WriterKnows(c, w, Files!Pieces(Files!Inner))
  BY <1>3 DEF WriterKnows
<1> QED BY <1>1, <1>2, <1>3, <1>4, WriterWaits

\* A writer that goes elsewhere, where it knows nothing yet.
LEMMA WriterTurns ==
  ASSUME FilesInv, NEW w \in Writers, NEW pc \in {"mkdir", "cut", "append", "whole"},
         Files!To(w, pc), Files!TreeSame, UNCHANGED <<late, Files!watchVars>>,
         pc # "whole" => writer[w].pc \in {"read", "mkdir", "cut"},
         pc = "append" /\ Files!Uploads(w) => Files!Pieces(Files!Inner) = << >>
  PROVE  FilesInv' /\ Files!Told
<1> DEFINE c == [writer[w] EXCEPT !.pc = pc]
<1>1. writer[w] \in Writing /\ WriterKnows(writer[w], w, Files!Pieces(Files!Inner))
  BY DEF FilesInv, FilesWriters
<1>2. /\ c \in Writing /\ c.pc = pc /\ c.i = writer[w].i /\ c.op = writer[w].op
      /\ c.answer = writer[w].answer
  BY <1>1 DEF Writing
<1>3. Files!Goto(w, c)
  BY DEF Files!To
<1> HIDE DEF c
<1>4. WriterKnows(c, w, Files!Pieces(Files!Inner))
  BY <1>1, <1>2 DEF WriterKnows, Files!Uploads
<1> QED BY <1>2, <1>3, <1>4, WriterWaits DEF FilesInv, FilesWriters

\* A request begins.
LEMMA WriterBegins ==
  ASSUME FilesInv, NEW w \in Writers, NEW op \in {"upload", "write", "replace"}, Files!Begin(w, op)
  PROVE  FilesInv' /\ Files!Told
<1> DEFINE p == IF op = "replace" THEN "read" ELSE "mkdir"
           b == \E v \in Writers : writer[v].pc \notin {"idle", "done"}
           c == [Files!New EXCEPT !.pc = p, !.op = op, !.overlap = b]
<1>1. Files!Goto(w, c) /\ Files!TreeSame /\ UNCHANGED <<late, Files!watchVars>>
  BY DEF Files!Begin
<1>2. p \in {"read", "mkdir"} /\ b \in BOOLEAN
  OBVIOUS
<1> HIDE DEF p, b
<1>3. Files!New \in Writing /\ Files!New.i = 1 /\ Files!New.answer = "none"
  BY DEF Files!New, Writing
<1>4. c \in Writing /\ c.i = 1 /\ c.answer = "none" /\ c.pc = p
  BY <1>2, <1>3 DEF Writing
<1> HIDE DEF c
<1>5. WriterKnows(c, w, Files!Pieces(Files!Inner))
  BY <1>2, <1>4 DEF WriterKnows
<1> QED BY <1>1, <1>4, <1>5, WriterWaits DEF FilesInv, FilesWriters

\* The steps of a writer up to its first piece.
LEMMA WriterPrepares ==
  ASSUME Files!FilesBounds, FilesInv, NEW w \in Writers,
         \/ Files!ReadFile(w) \/ Files!MakeParent(w) \/ Files!MakeParentFails(w)
         \/ Files!Cut(w) \/ Files!CutFails(w)
  PROVE  FilesInv' /\ Files!Told
<1>1. writer[w] \in Writing /\ WriterKnows(writer[w], w, Files!Pieces(Files!Inner))
  BY DEF FilesInv, FilesWriters
<1>2. late' \subseteq Files!Piece /\ UNCHANGED <<late, Files!watchVars>>
  BY DEF FilesInv, FilesWriters, Files!ReadFile, Files!MakeParent, Files!MakeParentFails, Files!Cut,
         Files!CutFails
<1>3. CASE Files!ReadFile(w)
  BY <1>2, <1>3, WriterTurns, WriterFails DEF Files!ReadFile, Files!At
<1>4. CASE Files!MakeParentFails(w)
  BY <1>2, <1>4, WriterTurns, WriterFails DEF Files!MakeParentFails, Files!At
<1>5. CASE Files!MakeParent(w)
  <2>1. PICK pc \in {"cut", "append", "whole"} :
          Files!To(w, pc) /\ (pc # "cut" => ~Files!Uploads(w))
    BY <1>5 DEF Files!MakeParent
  <2> DEFINE c == [writer[w] EXCEPT !.pc = pc]
  <2>2. /\ c \in Writing /\ c.pc = pc /\ c.i = writer[w].i /\ c.op = writer[w].op
        /\ c.answer = writer[w].answer
    BY <1>1 DEF Writing
  <2>3. Files!Goto(w, c) /\ writer[w].pc = "mkdir" /\ Files!MakeDir
    BY <1>5, <2>1 DEF Files!To, Files!MakeParent, Files!At
  <2> HIDE DEF c
  <2>4. WriterKnows(c, w, Files!Pieces(Files!Inner)')
    BY <1>1, <2>1, <2>2, <2>3 DEF WriterKnows, Files!Uploads
  <2>5. FilesTree' /\ FilesWatcher' /\ Files!WatchersFollow
    BY <1>2, <2>3, DirMade DEF FilesInv
  <2> QED BY <1>2, <2>2, <2>3, <2>4, <2>5, WriterGoes DEF FilesInv
<1>6. CASE Files!Cut(w) /\ ~Files!There(Files!Dir)
  <2>1. Files!Pieces(Files!Inner) = << >>
    BY <1>6 DEF FilesInv, FilesTree, Files!Pieces
  <2> QED BY <1>2, <1>6, <2>1, WriterTurns DEF Files!Cut, Files!At
<1>7. CASE Files!Cut(w) /\ Files!There(Files!Dir)
  <2> DEFINE c == [writer[w] EXCEPT !.pc = "append"]
  <2>1. /\ c \in Writing /\ c.pc = "append" /\ c.i = writer[w].i /\ c.answer = writer[w].answer
    BY <1>1 DEF Writing
  <2>2. Files!Goto(w, c) /\ writer[w].pc = "cut" /\ Files!Write(Files!Inner, << >>)
    BY <1>7 DEF Files!To, Files!Cut, Files!At
  <2> HIDE DEF c
  <2>3. << >> \in Seq(Cells)
    OBVIOUS
  <2>4. /\ FilesTree' /\ FilesWatcher' /\ Files!WatchersFollow
        /\ Files!Pieces(Files!Inner)' = << >>
    BY <1>2, <1>7, <2>2, <2>3, PathWritten DEF FilesInv
  <2>5. WriterKnows(c, w, Files!Pieces(Files!Inner)')
    BY <1>1, <2>1, <2>2, <2>4 DEF WriterKnows
  <2> QED BY <1>2, <2>1, <2>2, <2>4, <2>5, WriterGoes DEF FilesInv
<1>8. CASE Files!CutFails(w)
  <2> DEFINE c == [writer[w] EXCEPT !.pc = "append", !.unnoticed = TRUE]
  <2>1. /\ c \in Writing /\ c.pc = "append" /\ c.unnoticed = TRUE /\ c.answer = writer[w].answer
    BY <1>1 DEF Writing
  <2>2. Files!Goto(w, c) /\ Files!TreeSame
    BY <1>8 DEF Files!CutFails
  <2> HIDE DEF c
  <2>3. WriterKnows(c, w, Files!Pieces(Files!Inner))
    BY <2>1 DEF WriterKnows
  <2> QED BY <1>2, <2>1, <2>2, <2>3, WriterWaits
<1> QED BY <1>3, <1>4, <1>5, <1>6, <1>7, <1>8

\* The pieces of a file are pieces.
LEMMA ThePieces == ASSUME FilesTree PROVE Files!Pieces(Files!Inner) \in Seq(Cells)
<1>1. CASE Files!There(Files!Inner)
  BY <1>1, ThePaths DEF FilesTree, Files!There, Files!Pieces, Files!Contents, Cells
<1>2. CASE ~Files!There(Files!Inner)
  BY <1>2 DEF Files!Pieces
<1> QED BY <1>1, <1>2

\* Something is appended to one thing.
LEMMA TwoPieces == ASSUME NEW S, NEW a \in S, NEW b \in S PROVE Append(<<a>>, b) = <<a, b>>
<1>1. <<a>> \in Seq(S) /\ Len(<<a>>) = 1 /\ <<a>>[1] = a
  OBVIOUS
<1>2. /\ Append(<<a>>, b) \in Seq(S) /\ Len(Append(<<a>>, b)) = 2
      /\ Append(<<a>>, b)[1] = a /\ Append(<<a>>, b)[2] = b
  BY <1>1
<1>3. <<a, b>> \in Seq(S) /\ Len(<<a, b>>) = 2 /\ <<a, b>>[1] = a /\ <<a, b>>[2] = b
  OBVIOUS
<1>4. \A i \in 1..2 : Append(<<a>>, b)[i] = <<a, b>>[i]
  BY <1>2, <1>3
<1> QED BY <1>2, <1>3, <1>4, SeqEqual

\* A piece is appended.
LEMMA WriterAppends ==
  ASSUME Files!FilesBounds, FilesInv, NEW w \in Writers, Files!AppendPiece(w), Files!There(Files!Dir)
  PROVE  FilesInv' /\ Files!Told
<1> DEFINE i == writer[w].i
           s == Append(Files!Before(w), <<w, i>>)
<1>1. writer[w] \in Writing /\ WriterKnows(writer[w], w, Files!Pieces(Files!Inner))
  BY DEF FilesInv, FilesWriters
<1>2. /\ writer[w].pc = "append" /\ late' \subseteq Files!Piece /\ UNCHANGED Files!watchVars
      /\ Files!Write(Files!Inner, s) /\ Files!AfterPiece(w)
  BY DEF FilesInv, FilesWriters, Files!AppendPiece, Files!At
<1>3. i \in {1, 2}
  BY <1>1 DEF Writing
<1>4. Files!Before(w) \in Seq(Cells)
  BY ThePieces DEF Files!Before, FilesInv
<1>5. <<w, i>> \in Cells
  BY <1>3 DEF Cells, Files!Piece
<1>6. s \in Seq(Cells)
  BY <1>4, <1>5
<1>7. /\ FilesTree' /\ FilesWatcher' /\ Files!WatchersFollow
      /\ Files!Pieces(Files!Inner)' = s /\ tree'[Files!Inner] # None
      /\ tree'[Files!Inner].pieces = s
  BY <1>2, <1>6, PathWritten DEF FilesInv
<1>8. \/ writer[w].overlap \/ writer[w].unnoticed
      \/ (i = 1 /\ s = << <<w, 1>> >>) \/ (i = 2 /\ s = Files!Data(w))
  <2> SUFFICES ASSUME ~writer[w].overlap, ~writer[w].unnoticed
               PROVE  (i = 1 /\ s = << <<w, 1>> >>) \/ (i = 2 /\ s = Files!Data(w))
    OBVIOUS
  <2>1. CASE i = 1
    <3>1. Files!Before(w) = << >>
      BY <1>1, <1>2, <2>1 DEF WriterKnows, Files!Before, Files!Uploads
    <3> QED BY <2>1, <3>1
  <2>2. CASE i = 2
    <3>1. Files!Before(w) = << <<w, 1>> >>
      BY <1>1, <1>2, <2>2 DEF WriterKnows, Files!Before
    <3>2. s = Append(<< <<w, 1>> >>, <<w, 2>>)
      BY <2>2, <3>1
    <3> HIDE DEF s
    <3>3. Append(<< <<w, 1>> >>, <<w, 2>>) = << <<w, 1>>, <<w, 2>> >>
      <4>1. <<w, 1>> \in Files!Piece /\ <<w, 2>> \in Files!Piece
        BY DEF Files!Piece
      <4> QED BY <4>1, TwoPieces
    <3> QED BY <2>2, <3>2, <3>3 DEF Files!Data
  <2> QED BY <1>3, <2>1, <2>2
<1> HIDE DEF s
<1>9. CASE i = 1
  <2> DEFINE c == [writer[w] EXCEPT !.i = @ + 1]
  <2>1. c \in Writing /\ c.i = 2 /\ c.pc = "append" /\ c.answer = writer[w].answer
        /\ c.overlap = writer[w].overlap /\ c.unnoticed = writer[w].unnoticed
    BY <1>1, <1>2, <1>9 DEF Writing
  <2>2. Files!Goto(w, c)
    BY <1>2, <1>9 DEF Files!AfterPiece, Files!LastPiece
  <2> HIDE DEF c
  <2>3. WriterKnows(c, w, Files!Pieces(Files!Inner)')
    BY <1>7, <1>8, <1>9, <2>1 DEF WriterKnows
  <2> QED BY <1>2, <1>7, <2>1, <2>2, <2>3, WriterGoes DEF FilesInv
<1>10. CASE i = 2 /\ Files!Uploads(w)
  <2> DEFINE a == IF writer[w].answer = "none" THEN "ok" ELSE writer[w].answer
             c == [writer[w] EXCEPT !.pc = "done", !.answer = a]
  <2>1. Files!Goto(w, c)
    BY <1>2, <1>10 DEF Files!AfterPiece, Files!LastPiece, Files!Answer
  <2>2. a \in {"none", "ok", "failed"}
    BY <1>1 DEF Writing
  <2> HIDE DEF a
  <2>3. /\ c \in Writing /\ c.pc = "done"
        /\ c.overlap = writer[w].overlap /\ c.unnoticed = writer[w].unnoticed
    BY <1>1, <2>2 DEF Writing
  <2> HIDE DEF c
  <2>4. WriterKnows(c, w, Files!Pieces(Files!Inner)')
    BY <2>3 DEF WriterKnows
  <2> QED BY <1>2, <1>7, <1>8, <1>10, <2>1, <2>3, <2>4, WriterGoes DEF FilesInv
<1>11. CASE i = 2 /\ ~Files!Uploads(w)
  <2> DEFINE c == [writer[w] EXCEPT !.pc = "verify"]
  <2>1. c \in Writing /\ c.i = 2 /\ c.pc = "verify" /\ c.answer = writer[w].answer
        /\ c.overlap = writer[w].overlap /\ c.unnoticed = writer[w].unnoticed
    BY <1>1, <1>2, <1>11 DEF Writing
  <2>2. Files!Goto(w, c)
    BY <1>2, <1>11 DEF Files!AfterPiece, Files!LastPiece, Files!To
  <2> HIDE DEF c
  <2>3. WriterKnows(c, w, Files!Pieces(Files!Inner)')
    BY <1>7, <1>8, <1>11, <2>1 DEF WriterKnows
  <2> QED BY <1>2, <1>7, <2>1, <2>2, <2>3, WriterGoes DEF FilesInv
<1> QED BY <1>3, <1>9, <1>10, <1>11

\* A piece fails, and the writer with it, or it pipes the whole file.
LEMMA PieceFails ==
  ASSUME FilesInv, NEW w \in Writers, Files!PieceFailed(w), Files!TreeSame,
         UNCHANGED <<late, Files!watchVars>>
  PROVE  FilesInv' /\ Files!Told
<1>1. late' \subseteq Files!Piece
  BY DEF FilesInv, FilesWriters
<1>2. CASE Files!To(w, "whole")
  BY <1>2, WriterTurns
<1>3. CASE Files!Answer(w, "failed")
  BY <1>1, <1>3, WriterFails
<1> QED BY <1>2, <1>3 DEF Files!PieceFailed

\* A piece of an upload is appended twice, and the writer does not know.
LEMMA WriterAppendsTwice ==
  ASSUME Files!FilesBounds, FilesInv, NEW w \in Writers, Files!AppendTwice(w)
  PROVE  FilesInv' /\ Files!Told
<1> DEFINE x == <<w, writer[w].i>>
           s == Files!Pieces(Files!Inner) \o <<x, x>>
           on == [writer[w] EXCEPT !.unnoticed = TRUE]
<1>1. /\ writer[w] \in Writing /\ writer[w].i \in {1, 2} /\ Files!There(Files!Dir)
      /\ late' \subseteq Files!Piece /\ UNCHANGED Files!watchVars /\ Files!Write(Files!Inner, s)
      /\ writer[w].pc = "append"
  BY DEF FilesInv, FilesWriters, Files!AppendTwice, Writing, Files!At
<1>2. x \in Cells
  BY <1>1 DEF Cells, Files!Piece
<1>3. Files!Pieces(Files!Inner) \in Seq(Cells)
  BY ThePieces DEF FilesInv
<1> HIDE DEF x
<1>4. s \in Seq(Cells)
  <2>1. <<x, x>> \in Seq(Cells)
    BY <1>2
  <2> QED BY <1>3, <2>1
<1> HIDE DEF s
<1>5. FilesTree' /\ FilesWatcher' /\ Files!WatchersFollow
  BY <1>1, <1>4, PathWritten DEF FilesInv
<1>6. on \in Writing /\ on.unnoticed = TRUE /\ on.i = writer[w].i /\ on.pc = "append"
  BY <1>1 DEF Writing
<1>7. PICK c \in Writing : Files!Goto(w, c) /\ c.unnoticed = TRUE /\ c.pc \in {"append", "done"}
  <2>1. CASE ~Files!LastPiece(w)
    <3> DEFINE c == [on EXCEPT !.i = @ + 1]
    <3>1. Files!Goto(w, c)
      BY <2>1 DEF Files!AppendTwice
    <3> HIDE DEF on
    <3>2. c \in Writing /\ c.unnoticed = TRUE /\ c.pc = "append"
      BY <1>1, <1>6, <2>1 DEF Writing, Files!LastPiece
    <3> QED BY <3>1, <3>2
  <2>2. CASE Files!LastPiece(w)
    <3> DEFINE c == [on EXCEPT !.pc = "done", !.answer = "ok"]
    <3>1. Files!Goto(w, c)
      BY <2>2 DEF Files!AppendTwice
    <3> HIDE DEF on
    <3>2. c \in Writing /\ c.unnoticed = TRUE /\ c.pc = "done"
      BY <1>6 DEF Writing
    <3> QED BY <3>1, <3>2
  <2> QED BY <2>1, <2>2
<1>8. WriterKnows(c, w, Files!Pieces(Files!Inner)')
  BY <1>7 DEF WriterKnows
<1> QED BY <1>1, <1>5, <1>7, <1>8, WriterGoes DEF FilesInv

\* The whole file is written at once.
LEMMA WriterWritesWhole ==
  ASSUME Files!FilesBounds, FilesInv, NEW w \in Writers, Files!WriteWhole(w)
  PROVE  FilesInv' /\ Files!Told
<1>1. /\ writer[w] \in Writing /\ late' \subseteq Files!Piece
      /\ UNCHANGED late /\ UNCHANGED Files!watchVars
  BY DEF FilesInv, FilesWriters, Files!WriteWhole
<1>2. CASE ~Files!There(Files!Dir)
  BY <1>1, <1>2, WriterFails DEF Files!WriteWhole
<1>3. CASE Files!There(Files!Dir)
  <2> DEFINE c == [writer[w] EXCEPT !.pc = "verify"]
  <2>1. c \in Writing /\ c.pc = "verify" /\ c.answer = writer[w].answer
    BY <1>1 DEF Writing
  <2>2. Files!Goto(w, c) /\ Files!Write(Files!Inner, Files!Data(w))
    BY <1>3 DEF Files!WriteWhole, Files!To
  <2> HIDE DEF c
  <2>3. Files!Data(w) \in Seq(Cells)
    BY DEF Files!Data, Cells, Files!Piece
  <2>4. /\ FilesTree' /\ FilesWatcher' /\ Files!WatchersFollow
        /\ Files!Pieces(Files!Inner)' = Files!Data(w)
    BY <1>1, <1>3, <2>2, <2>3, PathWritten DEF FilesInv
  <2>5. WriterKnows(c, w, Files!Pieces(Files!Inner)')
    BY <2>1, <2>4 DEF WriterKnows
  <2> QED BY <1>1, <2>1, <2>2, <2>4, <2>5, WriterGoes DEF FilesInv
<1> QED BY <1>2, <1>3

\* The size is asked for, and the request answered.
LEMMA WriterVerifies ==
  ASSUME Files!FilesBounds, FilesInv, NEW w \in Writers, Files!Verify(w)
  PROVE  FilesInv' /\ Files!Told
<1> DEFINE how == IF Files!There(Files!Inner) THEN "ok" ELSE "failed"
           a == IF writer[w].answer = "none" THEN how ELSE writer[w].answer
           c == [writer[w] EXCEPT !.pc = "done", !.answer = a]
<1>1. /\ writer[w] \in Writing /\ WriterKnows(writer[w], w, Files!Pieces(Files!Inner))
      /\ writer[w].pc = "verify" /\ late' \subseteq Files!Piece
      /\ UNCHANGED Files!watchVars /\ Files!TreeSame
  BY DEF FilesInv, FilesWriters, Files!Verify, Files!At
<1>2. /\ a \in {"none", "ok", "failed"}
      /\ a = "ok" /\ writer[w].answer # "ok" => Files!There(Files!Inner)
  BY <1>1 DEF Writing
<1>3. Files!Goto(w, c)
  BY DEF Files!Verify, Files!Answer
<1> HIDE DEF a
<1>4. /\ c \in Writing /\ c.pc = "done" /\ c.answer = a
      /\ c.overlap = writer[w].overlap /\ c.unnoticed = writer[w].unnoticed
  BY <1>1, <1>2 DEF Writing
<1> HIDE DEF c
<1>5. /\ FilesTree' /\ FilesWatcher' /\ Files!WatchersFollow
      /\ Files!Pieces(Files!Inner)' = Files!Pieces(Files!Inner) /\ UNCHANGED tree
  BY <1>1, SameTree DEF FilesInv, Files!TreeSame
<1>6. WriterKnows(c, w, Files!Pieces(Files!Inner)')
  BY <1>4 DEF WriterKnows
<1>7. c.answer = "ok" /\ writer[w].answer # "ok" =>
        \/ tree'[Files!Inner] # None /\ tree'[Files!Inner].pieces = Files!Data(w)
        \/ c.overlap \/ c.unnoticed
  BY <1>1, <1>2, <1>4, <1>5 DEF WriterKnows, Files!Pieces, Files!There
<1> QED BY <1>1, <1>3, <1>4, <1>5, <1>6, <1>7, WriterGoes DEF FilesInv

\* The answer is lost, and the writer goes on.
LEMMA WriterUnanswered ==
  ASSUME FilesInv, NEW w \in Writers, Files!Unanswered(w)
  PROVE  FilesInv' /\ Files!Told
<1> DEFINE c == [writer[w] EXCEPT !.answer = "failed"]
<1>1. /\ writer[w] \in Writing /\ WriterKnows(writer[w], w, Files!Pieces(Files!Inner))
      /\ late' \subseteq Files!Piece /\ UNCHANGED Files!watchVars /\ Files!TreeSame
      /\ Files!Goto(w, c)
  BY DEF FilesInv, FilesWriters, Files!Unanswered
<1>2. /\ c \in Writing /\ c.answer = "failed" /\ c.pc = writer[w].pc /\ c.i = writer[w].i
      /\ c.op = writer[w].op /\ c.overlap = writer[w].overlap
      /\ c.unnoticed = writer[w].unnoticed
  BY <1>1 DEF Writing
<1> HIDE DEF c
<1>3. WriterKnows(c, w, Files!Pieces(Files!Inner))
  BY <1>1, <1>2 DEF WriterKnows
<1> QED BY <1>1, <1>2, <1>3, WriterWaits

\* Operations of one step, and a piece that comes late.
LEMMA FilesOperation ==
  ASSUME Files!FilesBounds, FilesInv,
         \/ \E p \in Files!Paths : Files!Remove(p) \/ Files!SetMode(p)
         \/ \E from, to \in {Files!Inner, Files!Outer} : Files!Move(from, to)
         \/ Files!Mkdir \/ Files!PutOuter
         \/ \E x \in Files!Piece : Files!LateAppend(x)
  PROVE  FilesInv' /\ Files!Told
<1>1. /\ UNCHANGED Files!watchVars /\ late' \subseteq Files!Piece
      /\ writer' = [v \in Writers |-> IF writer[v].pc \notin {"idle", "done"}
                                      THEN [writer[v] EXCEPT !.overlap = TRUE] ELSE writer[v]]
  BY DEF FilesInv, FilesWriters, Files!Remove, Files!SetMode, Files!Move, Files!Mkdir,
         Files!PutOuter, Files!LateAppend, Files!Operation
<1>2. ASSUME FilesTree' /\ FilesWatcher' /\ Files!WatchersFollow PROVE FilesInv' /\ Files!Told
  BY <1>1, <1>2, WritersDisturbed DEF FilesInv
<1>3. FilesTree /\ FilesWatcher
  BY DEF FilesInv
<1>4. ASSUME NEW p \in Files!Paths, Files!Remove(p) PROVE FilesInv' /\ Files!Told
  <2> DEFINE new == [q \in Files!Paths |->
                       IF q = p \/ (p = Files!Dir /\ q = Files!Inner) THEN None ELSE tree[q]]
  <2>1. Files!Becomes(new, {})
    BY <1>4 DEF Files!Remove
  <2>2. /\ new \in [Files!Paths -> Files!Contents \cup {None}]
        /\ new[Files!Inner] # None => new[Files!Dir] # None
    BY <1>3, ThePaths DEF FilesTree, Files!There
  <2> HIDE DEF new
  <2> QED BY <1>1, <1>2, <1>3, <2>1, <2>2, NewTree
<1>5. ASSUME NEW p \in Files!Paths, Files!SetMode(p) PROVE FilesInv' /\ Files!Told
  BY <1>1, <1>2, <1>3, <1>5, NewMode DEF Files!SetMode
<1>6. ASSUME NEW from \in {Files!Inner, Files!Outer}, NEW to \in {Files!Inner, Files!Outer},
             Files!Move(from, to)
      PROVE  FilesInv' /\ Files!Told
  <2> DEFINE d == [pieces |-> << >>, mode |-> 0]
             new == [p \in Files!Paths |->
                       IF p = from THEN None ELSE IF p = to THEN tree[from]
                       ELSE IF p = Files!Dir /\ ~Files!There(Files!Dir) /\ to = Files!Inner
                            THEN d ELSE tree[p]]
  <2>1. Files!Becomes(new, {to}) /\ from # to
    BY <1>6 DEF Files!Move
  <2>2. d \in Files!Contents
    BY DEF Files!Contents
  <2> HIDE DEF d
  <2>3. /\ new \in [Files!Paths -> Files!Contents \cup {None}]
        /\ new[Files!Inner] # None => new[Files!Dir] # None
    BY <1>3, <2>1, <2>2, ThePaths DEF FilesTree, Files!There, Files!FilesBounds
  <2> HIDE DEF new
  <2> QED BY <1>1, <1>2, <1>3, <2>1, <2>3, NewTree
<1>7. CASE Files!Mkdir
  BY <1>1, <1>2, <1>3, <1>7, DirMade DEF Files!Mkdir
<1>8. << >> \in Seq(Cells)
  OBVIOUS
<1>9. CASE Files!PutOuter
  BY <1>1, <1>2, <1>3, <1>8, <1>9, ThePaths, PathWritten DEF Files!PutOuter
<1>10. ASSUME NEW x \in Files!Piece, Files!LateAppend(x) PROVE FilesInv' /\ Files!Told
  <2> DEFINE s == Append(Files!Pieces(Files!Inner), x)
  <2>1. CASE Files!There(Files!Dir)
    <3>1. Files!Write(Files!Inner, s)
      BY <1>10, <2>1 DEF Files!LateAppend
    <3>2. s \in Seq(Cells)
      <4>1. x \in Cells /\ Files!Pieces(Files!Inner) \in Seq(Cells)
        BY <1>3, ThePieces DEF Cells
      <4> QED BY <4>1
    <3> HIDE DEF s
    <3> QED BY <1>1, <1>2, <1>3, <2>1, <3>1, <3>2, PathWritten
  <2>2. CASE ~Files!There(Files!Dir)
    BY <1>1, <1>2, <1>3, <1>10, <2>2, SameTree DEF Files!LateAppend
  <2> QED BY <2>1, <2>2
<1> QED BY <1>4, <1>5, <1>6, <1>7, <1>9, <1>10

\* The watcher looks.
LEMMA WatcherLooks ==
  ASSUME Files!FilesBounds, FilesInv,
         \/ \E what \in {"all", "top", "dir"} : Files!Watch(what)
         \/ Files!Poll \/ Files!PollLost \/ Files!Unwatch
  PROVE  FilesInv' /\ Files!Told
<1>1. UNCHANGED <<tree, writer, late>>
  BY DEF Files!Watch, Files!Poll, Files!PollLost, Files!Polled, Files!Unwatch
<1>2. FilesWriters' /\ Files!WrittenWhole
  BY <1>1 DEF FilesInv, FilesWriters, Files!WrittenWhole, Files!Pieces, Files!There
<1>3. ASSUME known' \in [Files!Paths -> {"current", "old", None}] PROVE FilesTree'
  BY <1>1, <1>3 DEF FilesInv, FilesTree, Files!There
<1>4. \A p \in Files!Paths : Files!There(p) => tree[p].mode \in {0, 1} /\ tree[p].mode # None
  BY DEF FilesInv, FilesTree, Files!There, Files!Contents, Files!FilesBounds
<1>5. ASSUME NEW what \in {"all", "top", "dir"}, Files!Watch(what) PROVE FilesInv' /\ Files!Told
  <2>1. /\ watching' = what /\ watching = "nothing"
        /\ seen' = Files!Snapshot(Files!WatchedBy(what))
        /\ known' = [p \in Files!Paths |-> IF seen'[p] = None THEN None ELSE "current"]
    BY <1>5 DEF Files!Watch
  <2>2. known' \in [Files!Paths -> {"current", "old", None}]
    BY <2>1
  <2>3. \A p \in Files!Paths :
          p \in Files!WatchedBy(what) => (seen'[p] = None <=> ~Files!There(p))
    BY <1>4, <2>1 DEF Files!Snapshot
  <2>4. FilesWatcher'
    BY <1>1, <2>1, <2>3 DEF FilesWatcher, Files!Watched, Files!There, Files!FilesBounds
  <2>5. Files!WatchersFollow
    BY <2>1 DEF Files!WatchersFollow
  <2> QED BY <1>2, <1>3, <2>2, <2>4, <2>5 DEF FilesInv, Files!Told
<1>6. CASE Files!Unwatch
  <2>1. /\ watching' = "nothing" /\ watching # "nothing"
        /\ known' = [p \in Files!Paths |-> None]
    BY <1>6 DEF Files!Unwatch
  <2>2. FilesWatcher'
    BY <2>1 DEF FilesWatcher, Files!Watched, Files!WatchedBy
  <2>3. Files!WatchersFollow
    BY <2>1 DEF Files!WatchersFollow
  <2> QED BY <1>2, <1>3, <2>1, <2>2, <2>3 DEF FilesInv, Files!Told
<1>7. CASE Files!Poll \/ Files!PollLost
  <2>1. /\ seen' = Files!Snapshot(Files!Watched) /\ changed' = {} /\ UNCHANGED watching
    BY <1>7 DEF Files!Poll, Files!PollLost, Files!Polled
  <2>2. known' \in [Files!Paths -> {"current", "old", None}]
    BY <1>7 DEF FilesInv, FilesTree, Files!Poll, Files!PollLost
  <2>3. \A p \in Files!Paths :
          p \in Files!Watched =>
            /\ Files!Snapshot(Files!Watched)[p] = None <=> ~Files!There(p)
            /\ seen'[p] = None <=> ~Files!There(p)
    BY <1>4, <2>1 DEF Files!Snapshot
  <2>4. ASSUME NEW p \in Files!Paths, p \in Files!Watched \ hidden'
        PROVE  known'[p] = IF Files!There(p) THEN "current" ELSE None
    <3>1. /\ p \in Files!Created <=> Files!There(p) /\ seen[p] = None
          /\ p \in Files!Removed <=> ~Files!There(p) /\ seen[p] # None
          /\ p \in Files!Both <=> Files!There(p) /\ seen[p] # None
      BY <2>3, <2>4 DEF Files!Created, Files!Removed, Files!Both
    <3>2. p \in Files!Written <=> p \in Files!Both /\ p \notin Files!Chmodded /\ p \in changed
      BY DEF Files!Written
    <3>3. p \in Files!Chmodded => p \in Files!Both
      BY DEF Files!Chmodded
    <3>4. p \notin hidden => /\ known[p] = None <=> seen[p] = None
                             /\ p \notin changed => known[p] = IF Files!There(p) THEN "current" ELSE None
      BY <2>4 DEF FilesInv, FilesWatcher
    <3>5. CASE Files!Poll
      <4>1. known'[p] = IF p \in Files!Created \cup Files!Written THEN "current"
                        ELSE IF p \in Files!Removed THEN None ELSE known[p]
        BY <3>5 DEF Files!Poll
      <4>2. /\ p \in Files!Created \cup Files!Written \cup Files!Removed \/ p \notin hidden
            /\ p \notin Files!Chmodded \/ p \notin changed
        BY <2>4, <3>5 DEF Files!Poll
      <4> QED BY <3>1, <3>2, <3>3, <3>4, <4>1, <4>2
    <3>6. CASE Files!PollLost
      <4>1. /\ known'[p] = known[p] /\ p \notin hidden
            /\ p \notin Files!Created \cup Files!Written \cup Files!Removed \cup Files!Chmodded
        BY <2>4, <3>6 DEF Files!PollLost
      <4> QED BY <3>1, <3>2, <3>4, <4>1
    <3> QED BY <1>7, <3>5, <3>6
  <2>5. FilesWatcher'
    BY <1>1, <2>1, <2>3, <2>4 DEF FilesWatcher, Files!Watched, Files!There, Files!FilesBounds
  <2>6. Files!WatchersFollow
    BY <2>4, WatchedPaths DEF Files!WatchersFollow
  <2> QED BY <1>2, <1>3, <2>2, <2>5, <2>6 DEF FilesInv, Files!Told
<1> QED BY <1>5, <1>6, <1>7

\* The tree of the beginning is one.
LEMMA FilesStart == ASSUME Files!FilesBounds, Files!Init PROVE FilesInv
<1>1. Files!New \in Writing /\ Files!New.pc = "idle"
  BY DEF Files!New, Writing
<1>2. writer = [w \in Writers |-> Files!New] /\ late = {} /\ watching = "nothing"
  BY DEF Files!Init
<1>3. FilesWriters
  BY <1>1, <1>2 DEF FilesWriters, WriterKnows
<1>4. FilesWatcher
  BY <1>2 DEF FilesWatcher, Files!Watched, Files!WatchedBy
<1>5. FilesTree
  <2>1. known \in [Files!Paths -> {"current", "old", None}]
    BY DEF Files!Init
  <2>2. CASE tree = [p \in Files!Paths |-> None]
    BY <2>1, <2>2, ThePaths DEF FilesTree, Files!There
  <2>3. CASE tree = [p \in Files!Paths |->
                       [pieces |-> IF p = Files!Inner THEN Files!Old ELSE << >>, mode |-> 0]]
    <3>1. \A p \in Files!Paths : tree[p] \in Files!Contents
      <4>1. Files!Old \in Seq(Cells) /\ << >> \in Seq(Cells)
        BY DEF Files!Old, Cells
      <4> QED BY <2>3, <4>1 DEF Files!Contents, Cells
    <3> QED BY <2>1, <2>3, <3>1, ThePaths DEF FilesTree, Files!There, Files!FilesBounds
  <2> QED BY <2>2, <2>3 DEF Files!Init
<1> QED BY <1>3, <1>4, <1>5 DEF FilesInv

\* What a step on the files keeps, and what it tells a client.
LEMMA FilesSteps ==
  ASSUME Files!FilesBounds, FilesInv, [Files!Next]_(Files!vars)
  PROVE  FilesInv' /\ (Files!Told \/ UNCHANGED Files!vars)
<1>1. CASE UNCHANGED Files!vars
  BY <1>1 DEF Files!vars, FilesInv, FilesTree, FilesWriters, FilesWatcher, Files!There,
              Files!Pieces, Files!Watched
<1>2. ASSUME NEW w \in Writers, NEW op \in {"upload", "write", "replace"}, Files!Begin(w, op)
      PROVE  FilesInv' /\ Files!Told
  BY <1>2, WriterBegins
<1>3. ASSUME NEW w \in Writers,
             \/ Files!ReadFile(w) \/ Files!MakeParent(w) \/ Files!MakeParentFails(w)
             \/ Files!Cut(w) \/ Files!CutFails(w)
      PROVE  FilesInv' /\ Files!Told
  BY <1>3, WriterPrepares
<1>4. ASSUME NEW w \in Writers, Files!AppendPiece(w) PROVE FilesInv' /\ Files!Told
  <2>1. CASE Files!There(Files!Dir)
    BY <1>4, <2>1, WriterAppends
  <2>2. CASE ~Files!There(Files!Dir)
    BY <1>4, <2>2, PieceFails DEF Files!AppendPiece
  <2> QED BY <2>1, <2>2
<1>5. ASSUME NEW w \in Writers, Files!AppendFails(w) PROVE FilesInv' /\ Files!Told
  BY <1>5, PieceFails DEF Files!AppendFails
<1>6. ASSUME NEW w \in Writers, Files!AppendTwice(w) PROVE FilesInv' /\ Files!Told
  BY <1>6, WriterAppendsTwice
<1>7. ASSUME NEW w \in Writers, Files!AppendTimesOut(w) PROVE FilesInv' /\ Files!Told
  <2>1. <<w, writer[w].i>> \in Files!Piece
    BY DEF FilesInv, FilesWriters, Writing, Files!Piece
  <2>2. late' \subseteq Files!Piece
    BY <1>7, <2>1 DEF FilesInv, FilesWriters, Files!AppendTimesOut
  <2> QED BY <1>7, <2>2, WriterFails DEF Files!AppendTimesOut
<1>8. ASSUME NEW w \in Writers, Files!WriteWhole(w) \/ Files!Verify(w) \/ Files!Unanswered(w)
      PROVE  FilesInv' /\ Files!Told
  BY <1>8, WriterWritesWhole, WriterVerifies, WriterUnanswered
<1>9. ASSUME \/ \E p \in Files!Paths : Files!Remove(p) \/ Files!SetMode(p)
             \/ \E from, to \in {Files!Inner, Files!Outer} : Files!Move(from, to)
             \/ Files!Mkdir \/ Files!PutOuter
             \/ \E x \in Files!Piece : Files!LateAppend(x)
      PROVE  FilesInv' /\ Files!Told
  BY <1>9, FilesOperation
<1>10. ASSUME \/ \E what \in {"all", "top", "dir"} : Files!Watch(what)
              \/ Files!Poll \/ Files!PollLost \/ Files!Unwatch
       PROVE  FilesInv' /\ Files!Told
  BY <1>10, WatcherLooks
<1> QED BY <1>1, <1>2, <1>3, <1>4, <1>5, <1>6, <1>7, <1>8, <1>9, <1>10 DEF Files!Next

\* Files, writers and the watcher, always.
LEMMA AlwaysFilesInv == ASSUME Files!FilesBounds PROVE Files!Spec => []FilesInv
<1>1. Files!Init => FilesInv
  BY FilesStart
<1>2. FilesInv /\ [Files!Next]_(Files!vars) => FilesInv'
  BY FilesSteps
<1> QED BY <1>1, <1>2, PTL DEF Files!Spec

\* What a client is told of the files of its sandbox, as answer or as event, is so
\* (handlers/daytona_compat_support.py, envd), but for operations that came between and commands
\* whose failure is not looked at.
THEOREM FilesToldSo == ASSUME Files!FilesBounds PROVE Files!Spec => Files!FilesAsTold
<1>1. Files!Init => FilesInv
  BY FilesStart
<1>2. FilesInv /\ [Files!Next]_(Files!vars) => FilesInv' /\ [Files!Told]_(Files!vars)
  BY FilesSteps
<1> QED BY <1>1, <1>2, PTL DEF Files!Spec, Files!FilesAsTold

-----------------------------------------------------------------------------
(* Modal's gateway *)

Memories ==
  [tags : (SUBSET Tags) \cup {None}, term : {None, 0, 1}, code : {None, 0, 1}, token : BOOLEAN]

ModalTypes ==
  /\ row \in [st : {"none", "live", "gone"}, tags : SUBSET Tags]
  /\ memory \in [Replicas -> Memories]
  /\ merges \subseteq [at : Replicas, tags : SUBSET Tags]
  /\ commits \subseteq [at : Replicas, tags : SUBSET Tags]
  /\ kills \in [Replicas -> {None, "asked", "killed", "failed"}]
  /\ exec \in [st : {"none", "running", "answered"}, at : Replicas \cup {None}, code : {0, 1}]
  /\ want \in [tags : SUBSET Tags, at : Replicas \cup {None}, doubt : BOOLEAN]

\* A kill that succeeded, and a termination remembered as one, are of a sandbox that is gone.
KillsEnd ==
  /\ row.st = "none" => merges = {} /\ commits = {}
  /\ \A r \in Replicas : kills[r] = "killed" => row.st = "gone"
  /\ \A r \in Replicas : memory[r].term \in {None, 1} \/ row.st = "gone"

\* The process that ran the command, and no other, remembers how it ended.
CommandKnown ==
  /\ exec.st = "running" => exec.at \in Replicas
  /\ \A r \in Replicas :
       memory[r].code # None =>
         exec.st = "answered" /\ r = exec.at /\ memory[r].code = exec.code
  /\ exec.st = "answered" /\ exec.at # None => memory[exec.at].code = exec.code

\* Tags that are not in doubt are on their way to the row, or there and in what snapshots have
\* read, and remembered where they were set by nobody else.
TagsKnown ==
  ~want.doubt =>
    /\ merges \subseteq {[at |-> want.at, tags |-> want.tags]}
    /\ Modal!Live /\ merges = {} =>
         row.tags = want.tags /\ \A c \in commits : c.tags = want.tags
    /\ want.at \in Replicas => memory[want.at].tags \in {want.tags, None}

ModalInv == ModalTypes /\ KillsEnd /\ CommandKnown /\ TagsKnown

\* A process remembers something else.
LEMMA Remembers ==
  ASSUME ModalTypes, NEW r \in Replicas, NEW m \in Memories, memory' = [memory EXCEPT ![r] = m]
  PROVE  /\ memory' \in [Replicas -> Memories] /\ memory'[r] = m
         /\ \A p \in Replicas \ {r} : memory'[p] = memory[p]
BY DEF ModalTypes

\* What is true of the sandbox is what was told.
LEMMA ModalTells ==
  ASSUME Modal!ModalBounds, ModalInv PROVE Modal!ToldSo
<1>1. Modal!TagsAsSet
  <2> SUFFICES ASSUME Modal!Live, merges = {}, ~want.doubt, NEW r \in Replicas,
                      r = want.at \/ memory[r].tags = None
               PROVE  Modal!Shown(r) = want.tags
    BY DEF Modal!TagsAsSet
  <2>1. row.tags = want.tags /\ memory[r].tags \in {want.tags, None}
    BY DEF ModalInv, TagsKnown
  <2>2. Modal!Remembered(r) \in {{}, want.tags}
    BY <2>1 DEF Modal!Remembered
  <2> QED BY <2>1, <2>2 DEF Modal!Shown
<1>2. Modal!ResultsAreSo
  <2>1. ASSUME Modal!Live, NEW r \in Replicas, Modal!SaysTerminated(r) PROVE memory[r].term = 1
    BY <2>1 DEF ModalInv, KillsEnd, Modal!Live, Modal!SaysTerminated
  <2>2. ASSUME exec.st = "answered", NEW r \in Replicas
        PROVE  Modal!Polled(r) = IF r = exec.at THEN exec.code ELSE 0
    <3>1. r # None /\ None \notin {0, 1} /\ exec.code \in {0, 1}
      BY DEF Modal!ModalBounds, ModalInv, ModalTypes
    <3>2. CASE r = exec.at
      BY <2>2, <3>1, <3>2 DEF ModalInv, CommandKnown, Modal!Polled
    <3>3. CASE r # exec.at
      BY <2>2, <3>1, <3>3 DEF ModalInv, CommandKnown, Modal!Polled
    <3> QED BY <3>2, <3>3
  <2> QED BY <2>1, <2>2 DEF Modal!ResultsAreSo
<1> QED BY <1>1, <1>2 DEF Modal!ToldSo

\* A sandbox is created.
LEMMA ModalCreates ==
  ASSUME ModalInv, NEW r \in Replicas, NEW tags \in SUBSET Tags, Modal!Create(r, tags)
  PROVE  ModalInv'
<1> DEFINE m == [memory[r] EXCEPT !.tags = tags]
<1>1. /\ ModalTypes /\ UNCHANGED <<merges, commits, kills, exec>> /\ row.st = "none" /\ merges = {}
      /\ commits = {}
      /\ row' = [st |-> "live", tags |-> tags]
      /\ want' = [tags |-> tags, at |-> r, doubt |-> FALSE]
      /\ memory' = [memory EXCEPT ![r] = m]
  BY DEF ModalInv, KillsEnd, Modal!Create
<1>2. m \in Memories /\ m.tags = tags /\ m.term = memory[r].term /\ m.code = memory[r].code
  BY <1>1 DEF ModalTypes, Memories
<1> HIDE DEF m
<1>3. /\ memory' \in [Replicas -> Memories] /\ memory'[r] = m
      /\ \A p \in Replicas \ {r} : memory'[p] = memory[p]
  BY <1>1, <1>2, Remembers
<1>4. ModalTypes'
  BY <1>1, <1>3 DEF ModalTypes
<1>5. KillsEnd'
  BY <1>1, <1>2, <1>3 DEF ModalInv, KillsEnd
<1>6. CommandKnown'
  BY <1>1, <1>2, <1>3 DEF ModalInv, ModalTypes, CommandKnown
<1>7. TagsKnown'
  BY <1>1, <1>2, <1>3 DEF TagsKnown
<1> QED BY <1>4, <1>5, <1>6, <1>7 DEF ModalInv

\* Tags are set.
LEMMA ModalSets ==
  ASSUME ModalInv, NEW r \in Replicas, NEW tags \in SUBSET Tags, Modal!TagsSet(r, tags)
  PROVE  ModalInv'
<1> DEFINE m == [memory[r] EXCEPT !.tags = tags]
<1>1. /\ ModalTypes /\ UNCHANGED <<row, commits, kills, exec>> /\ row.st = "live"
      /\ merges' = merges \cup {[at |-> r, tags |-> tags]}
      /\ want' = [tags |-> tags, at |-> r, doubt |-> merges # {}]
      /\ memory' = [memory EXCEPT ![r] = m]
  BY DEF ModalInv, Modal!TagsSet, Modal!Live
<1>2. m \in Memories /\ m.tags = tags /\ m.term = memory[r].term /\ m.code = memory[r].code
  BY <1>1 DEF ModalTypes, Memories
<1> HIDE DEF m
<1>3. /\ memory' \in [Replicas -> Memories] /\ memory'[r] = m
      /\ \A p \in Replicas \ {r} : memory'[p] = memory[p]
  BY <1>1, <1>2, Remembers
<1>4. want'.tags = tags /\ want'.at = r /\ (~want'.doubt => merges = {})
  BY <1>1
<1>5. ModalTypes'
  <2>1. want' \in [tags : SUBSET Tags, at : Replicas \cup {None}, doubt : BOOLEAN]
    BY <1>1 DEF ModalTypes
  <2> QED BY <1>1, <1>3, <2>1 DEF ModalTypes
<1>6. KillsEnd'
  BY <1>1, <1>2, <1>3 DEF ModalInv, KillsEnd
<1>7. CommandKnown'
  BY <1>1, <1>2, <1>3 DEF ModalInv, ModalTypes, CommandKnown
<1>8. TagsKnown'
  BY <1>1, <1>2, <1>3, <1>4 DEF TagsKnown
<1> QED BY <1>5, <1>6, <1>7, <1>8 DEF ModalInv

\* Tags are merged into the row, or are not.
LEMMA ModalMerges ==
  ASSUME ModalInv, NEW c \in merges, Modal!MergeTags(c) \/ Modal!MergeFails(c)
  PROVE  ModalInv'
<1>1. /\ ModalTypes /\ UNCHANGED <<memory, commits, kills, exec>> /\ merges' = merges \ {c}
      /\ c.tags \in SUBSET Tags /\ row.st # "none"
  BY DEF ModalInv, ModalTypes, KillsEnd, Modal!MergeTags, Modal!MergeFails
<1>2. PICK t \in SUBSET Tags : row' = [st |-> row.st, tags |-> t] /\ (t = c.tags \/ t = row.tags)
  BY <1>1 DEF ModalTypes, Modal!MergeTags, Modal!MergeFails
<1>3. PICK d \in BOOLEAN : /\ want' = [tags |-> want.tags, at |-> want.at, doubt |-> d]
                           /\ ~d => ~want.doubt /\ Modal!MergeTags(c) /\ commits = {}
  <2>1. want = [tags |-> want.tags, at |-> want.at, doubt |-> want.doubt] /\ want.doubt \in BOOLEAN
    BY <1>1 DEF ModalTypes
  <2>2. CASE Modal!MergeFails(c)
    BY <2>1, <2>2 DEF Modal!MergeFails
  <2>3. CASE Modal!MergeTags(c)
    <3> DEFINE b == want.doubt \/ commits # {}
    <3>1. want' = [want EXCEPT !.doubt = b]
      BY <2>3, Zenon DEF Modal!MergeTags
    <3> HIDE DEF b
    <3>2. want' = [tags |-> want.tags, at |-> want.at, doubt |-> b]
      BY <2>1, <3>1
    <3>3. b \in BOOLEAN /\ (~b => ~want.doubt /\ commits = {})
      BY <2>1 DEF b
    <3> QED BY <2>3, <3>2, <3>3
  <2> QED BY <2>2, <2>3
<1>4. ModalTypes'
  BY <1>1, <1>2, <1>3 DEF ModalTypes
<1>5. KillsEnd'
  BY <1>1, <1>2 DEF ModalInv, KillsEnd
<1>6. CommandKnown'
  BY <1>1 DEF ModalInv, CommandKnown
<1>7. TagsKnown'
  <2> SUFFICES ASSUME ~want'.doubt
               PROVE  /\ merges' \subseteq {[at |-> want'.at, tags |-> want'.tags]}
                      /\ Modal!Live' /\ merges' = {} =>
                           row'.tags = want'.tags /\ \A o \in commits' : o.tags = want'.tags
                      /\ want'.at \in Replicas => memory'[want'.at].tags \in {want'.tags, None}
    BY DEF TagsKnown
  <2>1. ~want.doubt /\ Modal!MergeTags(c) /\ commits = {} /\ want'.tags = want.tags /\ want'.at = want.at
    BY <1>3
  <2>2. /\ merges \subseteq {[at |-> want.at, tags |-> want.tags]}
        /\ want.at \in Replicas => memory[want.at].tags \in {want.tags, None}
    BY <2>1 DEF ModalInv, TagsKnown
  <2>3. c.tags = want.tags
    BY <2>2
  <2>4. Modal!Live' => row'.tags = want.tags
    BY <1>1, <1>2, <2>1, <2>3 DEF Modal!MergeTags, Modal!Live, ModalTypes
  <2> QED BY <1>1, <2>1, <2>2, <2>4
<1> QED BY <1>4, <1>5, <1>6, <1>7 DEF ModalInv

\* A snapshot begins, or ends and writes back what it read.
LEMMA ModalSnapshots ==
  ASSUME ModalInv,
         \/ \E r \in Replicas : Modal!Snapshot(r)
         \/ \E c \in commits : Modal!Committed(c) \/ Modal!CommitFails(c)
  PROVE  ModalInv'
<1>1. ModalTypes /\ UNCHANGED <<memory, merges, kills, exec, want>>
  BY DEF ModalInv, Modal!Snapshot, Modal!Committed, Modal!CommitFails
<1>2. ASSUME NEW t \in SUBSET Tags, row' = [st |-> row.st, tags |-> t],
             commits' \subseteq [at : Replicas, tags : SUBSET Tags],
             row.st = "none" => commits' = {},
             ~want.doubt /\ Modal!Live /\ merges = {} =>
               t = want.tags /\ \A c \in commits' : c.tags = want.tags
      PROVE  ModalInv'
  <2>1. ModalTypes'
    BY <1>1, <1>2 DEF ModalTypes
  <2>2. KillsEnd'
    BY <1>1, <1>2 DEF ModalInv, KillsEnd
  <2>3. CommandKnown'
    BY <1>1 DEF ModalInv, CommandKnown
  <2>4. TagsKnown'
    BY <1>1, <1>2 DEF ModalInv, TagsKnown, Modal!Live
  <2> QED BY <2>1, <2>2, <2>3, <2>4 DEF ModalInv
<1>3. row.tags \in SUBSET Tags /\ row = [st |-> row.st, tags |-> row.tags]
  BY <1>1 DEF ModalTypes
<1>4. ASSUME NEW r \in Replicas, Modal!Snapshot(r) PROVE ModalInv'
  <2>1. UNCHANGED row /\ row.st = "live" /\ commits' = commits \cup {[at |-> r, tags |-> row.tags]}
    BY <1>4 DEF Modal!Snapshot, Modal!Live
  <2> QED BY <1>1, <1>2, <1>3, <2>1 DEF ModalInv, ModalTypes, TagsKnown
<1>5. ASSUME NEW c \in commits, Modal!Committed(c) \/ Modal!CommitFails(c) PROVE ModalInv'
  <2>1. commits' = commits \ {c} /\ c.tags \in SUBSET Tags
    BY <1>1, <1>5 DEF Modal!Committed, Modal!CommitFails, ModalTypes
  <2>2. PICK t \in {c.tags, row.tags} : row' = [st |-> row.st, tags |-> t]
    BY <1>3, <1>5 DEF Modal!Committed, Modal!CommitFails
  <2> QED BY <1>1, <1>2, <1>3, <2>1, <2>2 DEF ModalInv, ModalTypes, KillsEnd, TagsKnown
<1> QED BY <1>4, <1>5

\* A termination is asked for, and the sandbox is killed or is not.
LEMMA ModalKills ==
  ASSUME Modal!ModalBounds, ModalInv, NEW r \in Replicas,
         Modal!Terminate(r) \/ Modal!Kill(r) \/ Modal!KillFails(r)
  PROVE  ModalInv'
<1>1. ModalTypes /\ UNCHANGED <<memory, merges, commits, exec, want>>
  BY DEF ModalInv, Modal!Terminate, Modal!Kill, Modal!KillFails
<1>2. PICK k \in {"asked", "killed", "failed"} :
        kills' = [kills EXCEPT ![r] = k] /\ (k = "killed" => row'.st = "gone")
  <2>1. CASE Modal!Terminate(r) \/ Modal!KillFails(r)
    BY <2>1 DEF Modal!Terminate, Modal!KillFails
  <2>2. CASE Modal!Kill(r)
    BY <1>1, <2>2 DEF Modal!Kill, ModalTypes
  <2> QED BY <2>1, <2>2
<1>3. /\ kills' \in [Replicas -> {None, "asked", "killed", "failed"}]
      /\ \A p \in Replicas : kills'[p] = IF p = r THEN k ELSE kills[p]
  BY <1>1, <1>2 DEF ModalTypes
<1>4. PICK st \in {row.st, "gone"} : row' = [st |-> st, tags |-> row.tags]
  BY <1>1 DEF ModalTypes, Modal!Terminate, Modal!Kill, Modal!KillFails
<1>5. ModalTypes'
  BY <1>1, <1>3, <1>4 DEF ModalTypes
<1>6. KillsEnd'
  BY <1>1, <1>2, <1>3, <1>4 DEF ModalInv, KillsEnd
<1>7. CommandKnown'
  BY <1>1 DEF ModalInv, CommandKnown
<1>8. TagsKnown'
  BY <1>1, <1>4 DEF ModalInv, TagsKnown, Modal!Live
<1> QED BY <1>5, <1>6, <1>7, <1>8 DEF ModalInv

\* How a termination ended is remembered.
LEMMA ModalTerminates ==
  ASSUME Modal!ModalBounds, ModalInv, NEW r \in Replicas, Modal!Terminated(r)
  PROVE  ModalInv'
<1> DEFINE n == IF kills[r] = "killed" THEN 0 ELSE 1
           m == [memory[r] EXCEPT !.term = n]
<1>1. /\ ModalTypes /\ UNCHANGED <<row, merges, commits, exec, want>>
      /\ memory' = [memory EXCEPT ![r] = m] /\ kills' = [kills EXCEPT ![r] = None]
  BY DEF ModalInv, Modal!Terminated
<1>2. n \in {0, 1} /\ (n = 1 \/ row.st = "gone")
  BY DEF ModalInv, KillsEnd
<1> HIDE DEF n
<1>3. m \in Memories /\ m.tags = memory[r].tags /\ m.term = n /\ m.code = memory[r].code
  BY <1>1, <1>2 DEF ModalTypes, Memories
<1> HIDE DEF m
<1>4. /\ memory' \in [Replicas -> Memories] /\ memory'[r] = m
      /\ \A p \in Replicas \ {r} : memory'[p] = memory[p]
  BY <1>1, <1>3, Remembers
<1>5. /\ kills' \in [Replicas -> {None, "asked", "killed", "failed"}]
      /\ \A p \in Replicas : kills'[p] = "killed" => kills[p] = "killed"
  BY <1>1 DEF ModalTypes, Modal!ModalBounds
<1>6. ModalTypes'
  BY <1>1, <1>4, <1>5 DEF ModalTypes
<1>7. KillsEnd'
  BY <1>1, <1>2, <1>3, <1>4, <1>5 DEF ModalInv, KillsEnd
<1>8. CommandKnown'
  BY <1>1, <1>3, <1>4 DEF ModalInv, ModalTypes, CommandKnown
<1>9. TagsKnown'
  BY <1>1, <1>3, <1>4 DEF ModalInv, TagsKnown, Modal!Live
<1> QED BY <1>6, <1>7, <1>8, <1>9 DEF ModalInv

\* A client gets a token, starts its command, and is answered when the command has ended.
LEMMA ModalRuns ==
  ASSUME Modal!ModalBounds, ModalInv,
         \/ \E r \in Replicas : Modal!RouterAccess(r) \/ Modal!ExecStart(r)
         \/ \E code \in {0, 1} : Modal!ExecEnds(code)
  PROVE  ModalInv'
<1>1. ModalTypes /\ UNCHANGED <<row, merges, commits, kills, want>>
  BY DEF ModalInv, Modal!RouterAccess, Modal!ExecStart, Modal!ExecEnds
<1>2. ASSUME memory' \in [Replicas -> Memories],
             exec' \in [st : {"none", "running", "answered"}, at : Replicas \cup {None}, code : {0, 1}],
             \A p \in Replicas : memory'[p].tags = memory[p].tags /\ memory'[p].term = memory[p].term,
             CommandKnown'
      PROVE  ModalInv'
  <2>1. ModalTypes'
    BY <1>1, <1>2 DEF ModalTypes
  <2>2. KillsEnd'
    BY <1>1, <1>2 DEF ModalInv, KillsEnd
  <2>3. TagsKnown'
    BY <1>1, <1>2 DEF ModalInv, TagsKnown, Modal!Live
  <2> QED BY <1>2, <2>1, <2>2, <2>3 DEF ModalInv
<1>3. ASSUME NEW r \in Replicas, Modal!RouterAccess(r) PROVE ModalInv'
  <2> DEFINE m == [memory[r] EXCEPT !.token = TRUE]
  <2>1. memory' = [memory EXCEPT ![r] = m] /\ UNCHANGED exec
    BY <1>3 DEF Modal!RouterAccess
  <2>2. m \in Memories /\ m.tags = memory[r].tags /\ m.term = memory[r].term /\ m.code = memory[r].code
    BY <1>1, ZenonT(60) DEF ModalTypes, Memories
  <2> HIDE DEF m
  <2>3. /\ memory' \in [Replicas -> Memories] /\ memory'[r] = m
        /\ \A p \in Replicas \ {r} : memory'[p] = memory[p]
    BY <1>1, <2>1, <2>2, Remembers
  <2>4. CommandKnown'
    BY <1>1, <2>1, <2>2, <2>3 DEF ModalInv, ModalTypes, CommandKnown
  <2> QED BY <1>1, <1>2, <2>1, <2>2, <2>3, <2>4 DEF ModalTypes
<1>4. ASSUME NEW r \in Replicas, Modal!ExecStart(r) PROVE ModalInv'
  <2>1. exec.st = "none" /\ exec' = [st |-> "running", at |-> r, code |-> 0] /\ UNCHANGED memory
    BY <1>4 DEF Modal!ExecStart
  <2>2. CommandKnown'
    BY <2>1 DEF ModalInv, CommandKnown
  <2> QED BY <1>1, <1>2, <2>1, <2>2 DEF ModalTypes
<1>5. ASSUME NEW code \in {0, 1}, Modal!ExecEnds(code) PROVE ModalInv'
  <2> DEFINE r == exec.at
             m == [memory[r] EXCEPT !.code = code]
  <2>1. r \in Replicas /\ exec.st = "running"
    BY <1>5 DEF ModalInv, CommandKnown, Modal!ExecEnds
  <2>2. memory' = [memory EXCEPT ![r] = m] /\ exec' = [st |-> "answered", at |-> r, code |-> code]
    BY <1>1, <1>5 DEF Modal!ExecEnds, ModalTypes
  <2> HIDE DEF r
  <2>3. m \in Memories /\ m.tags = memory[r].tags /\ m.term = memory[r].term /\ m.code = code
    BY <1>1, <2>1 DEF ModalTypes, Memories
  <2> HIDE DEF m
  <2>4. /\ memory' \in [Replicas -> Memories] /\ memory'[r] = m
        /\ \A p \in Replicas \ {r} : memory'[p] = memory[p]
    BY <1>1, <2>1, <2>2, <2>3, Remembers
  <2>5. \A p \in Replicas : memory[p].code = None
    BY <2>1 DEF ModalInv, CommandKnown
  <2>6. CommandKnown'
    BY <2>1, <2>2, <2>3, <2>4, <2>5 DEF CommandKnown
  <2> QED BY <1>1, <1>2, <2>1, <2>2, <2>3, <2>4, <2>6 DEF ModalTypes
<1> QED BY <1>3, <1>4, <1>5

\* A process that starts anew remembers nothing.
LEMMA ModalForgets ==
  /\ Modal!Forgotten \in Memories /\ Modal!Forgotten.tags = None /\ Modal!Forgotten.term = None
  /\ Modal!Forgotten.code = None
<1>1. Modal!Forgotten \in Memories
  <2>1. None \in (SUBSET Tags) \cup {None} /\ None \in {None, 0, 1} /\ FALSE \in BOOLEAN
    OBVIOUS
  <2> QED BY <2>1, Zenon DEF Modal!Forgotten, Memories
<1>2. /\ Modal!Forgotten.tags = None /\ Modal!Forgotten.term = None
      /\ Modal!Forgotten.code = None
  BY DEF Modal!Forgotten
<1> QED BY <1>1, <1>2

\* A process starts anew.
LEMMA ModalRestarts ==
  ASSUME Modal!ModalBounds, ModalInv, NEW r \in Replicas, Modal!Restart(r)
  PROVE  ModalInv'
<1> DEFINE m == Modal!Forgotten
<1>1. /\ ModalTypes /\ UNCHANGED row
      /\ memory' = [memory EXCEPT ![r] = m] /\ kills' = [kills EXCEPT ![r] = None]
      /\ merges' = {c \in merges : c.at # r} /\ commits' = {c \in commits : c.at # r}
      /\ want' = [tags |-> want.tags, at |-> want.at, doubt |-> want.doubt \/ merges' # merges]
      /\ exec' = IF exec.at = r THEN [st |-> "answered", at |-> None, code |-> exec.code] ELSE exec
  <2>1. /\ ModalTypes /\ UNCHANGED row
        /\ memory' = [memory EXCEPT ![r] = m] /\ kills' = [kills EXCEPT ![r] = None]
        /\ merges' = {c \in merges : c.at # r} /\ commits' = {c \in commits : c.at # r}
    BY DEF ModalInv, Modal!Restart
  <2>2. want' = [tags |-> want.tags, at |-> want.at, doubt |-> want.doubt \/ merges' # merges]
    <3> DEFINE d == want.doubt \/ merges' # merges
    <3>1. want' = [want EXCEPT !.doubt = d]
      BY Zenon DEF Modal!Restart
    <3> HIDE DEF d
    <3>2. want' = [tags |-> want.tags, at |-> want.at, doubt |-> d]
      BY <2>1, <3>1 DEF ModalTypes
    <3> QED BY <3>2 DEF d
  <2>3. exec' = IF exec.at = r THEN [st |-> "answered", at |-> None, code |-> exec.code] ELSE exec
    <3>1. exec \in [st : {"none", "running", "answered"}, at : Replicas \cup {None}, code : {0, 1}]
      BY <2>1 DEF ModalTypes
    <3>2. [exec EXCEPT !.st = "answered", !.at = None] = [st |-> "answered", at |-> None, code |-> exec.code]
      <4> DEFINE e == [exec EXCEPT !.st = "answered"]
      <4>1. e = [st |-> "answered", at |-> exec.at, code |-> exec.code]
        BY <3>1
      <4>2. [exec EXCEPT !.st = "answered", !.at = None] = [e EXCEPT !.at = None]
        OBVIOUS
      <4> HIDE DEF e
      <4>3. [e EXCEPT !.at = None] = [st |-> "answered", at |-> None, code |-> exec.code]
        BY <4>1
      <4> QED BY <4>2, <4>3
    <3> QED BY <3>2 DEF Modal!Restart
  <2> QED BY <2>1, <2>2, <2>3
<1>2. m \in Memories /\ m.tags = None /\ m.term = None /\ m.code = None
  BY ModalForgets
<1> HIDE DEF m
<1>3. /\ memory' \in [Replicas -> Memories] /\ memory'[r] = m
      /\ \A p \in Replicas \ {r} : memory'[p] = memory[p]
  BY <1>1, <1>2, Remembers
<1>4. /\ kills' \in [Replicas -> {None, "asked", "killed", "failed"}]
      /\ \A p \in Replicas : kills'[p] = "killed" => kills[p] = "killed"
  BY <1>1 DEF ModalTypes, Modal!ModalBounds
<1>5. ModalTypes'
  <2>1. want' \in [tags : SUBSET Tags, at : Replicas \cup {None}, doubt : BOOLEAN]
    BY <1>1 DEF ModalTypes
  <2>2. exec' \in [st : {"none", "running", "answered"}, at : Replicas \cup {None}, code : {0, 1}]
    BY <1>1 DEF ModalTypes
  <2>3. /\ merges' \subseteq [at : Replicas, tags : SUBSET Tags]
        /\ commits' \subseteq [at : Replicas, tags : SUBSET Tags]
    BY <1>1 DEF ModalTypes
  <2> QED BY <1>1, <1>3, <1>4, <2>1, <2>2, <2>3 DEF ModalTypes
<1>6. KillsEnd'
  BY <1>1, <1>2, <1>3, <1>4 DEF ModalInv, KillsEnd
<1>7. CommandKnown'
  <2>1. CASE exec.at = r
    <3>1. \A p \in Replicas : memory'[p].code = None
      BY <1>2, <1>3, <2>1 DEF ModalInv, CommandKnown
    <3> QED BY <1>1, <2>1, <3>1 DEF CommandKnown
  <2>2. CASE exec.at # r
    BY <1>1, <1>2, <1>3, <2>2 DEF ModalInv, ModalTypes, CommandKnown
  <2> QED BY <2>1, <2>2
<1>8. TagsKnown'
  <2> SUFFICES ASSUME ~want'.doubt
               PROVE  /\ merges' \subseteq {[at |-> want'.at, tags |-> want'.tags]}
                      /\ Modal!Live' /\ merges' = {} =>
                           row'.tags = want'.tags /\ \A o \in commits' : o.tags = want'.tags
                      /\ want'.at \in Replicas => memory'[want'.at].tags \in {want'.tags, None}
    BY DEF TagsKnown
  <2>1. ~want.doubt /\ merges' = merges /\ want'.tags = want.tags /\ want'.at = want.at
    BY <1>1
  <2> QED BY <1>1, <1>2, <1>3, <2>1 DEF ModalInv, TagsKnown, Modal!Live
<1> QED BY <1>5, <1>6, <1>7, <1>8 DEF ModalInv

\* It holds of processes that remember nothing.
LEMMA ModalStarts ==
  ASSUME Modal!ModalBounds, Modal!Init PROVE ModalInv
<1>1. Modal!Forgotten \in Memories /\ Modal!Forgotten.term = None /\ Modal!Forgotten.code = None
  BY ModalForgets
<1>2. ModalTypes
  BY <1>1 DEF Modal!Init, ModalTypes
<1>3. KillsEnd /\ CommandKnown
  BY <1>1 DEF Modal!Init, Modal!ModalBounds, KillsEnd, CommandKnown
<1>4. TagsKnown
  BY DEF Modal!Init, Modal!ModalBounds, Modal!Live, TagsKnown
<1> QED BY <1>2, <1>3, <1>4 DEF ModalInv

\* The sandbox of a Modal client and what the processes keep of it, always.
LEMMA AlwaysModalInv ==
  ASSUME Modal!ModalBounds PROVE Modal!Spec => []ModalInv
<1>1. Modal!Init => ModalInv
  BY ModalStarts
<1>2. ModalInv /\ [Modal!Next]_(Modal!vars) => ModalInv'
  <2> SUFFICES ASSUME ModalInv, [Modal!Next]_(Modal!vars) PROVE ModalInv'
    OBVIOUS
  <2>1. CASE UNCHANGED Modal!vars
    BY <2>1 DEF Modal!vars, ModalInv, ModalTypes, KillsEnd, CommandKnown, TagsKnown, Modal!Live
  <2>2. ASSUME NEW r \in Replicas, NEW tags \in SUBSET Tags, Modal!Create(r, tags) PROVE ModalInv'
    BY <2>2, ModalCreates
  <2>3. ASSUME NEW r \in Replicas, NEW tags \in SUBSET Tags, Modal!TagsSet(r, tags) PROVE ModalInv'
    BY <2>3, ModalSets
  <2>4. ASSUME NEW r \in Replicas, Modal!Terminate(r) \/ Modal!Kill(r) \/ Modal!KillFails(r)
        PROVE  ModalInv'
    BY <2>4, ModalKills
  <2>5. ASSUME NEW r \in Replicas, Modal!Terminated(r) PROVE ModalInv'
    BY <2>5, ModalTerminates
  <2>6. ASSUME NEW r \in Replicas, Modal!RouterAccess(r) \/ Modal!ExecStart(r) PROVE ModalInv'
    BY <2>6, ModalRuns
  <2>7. ASSUME NEW r \in Replicas, Modal!Restart(r) PROVE ModalInv'
    BY <2>7, ModalRestarts
  <2>8. ASSUME NEW m \in merges, Modal!MergeTags(m) \/ Modal!MergeFails(m) PROVE ModalInv'
    BY <2>8, ModalMerges
  <2>9. ASSUME NEW code \in {0, 1}, Modal!ExecEnds(code) PROVE ModalInv'
    BY <2>9, ModalRuns
  <2>10. ASSUME \/ \E r \in Replicas : Modal!Snapshot(r)
                \/ \E c \in commits : Modal!Committed(c) \/ Modal!CommitFails(c)
         PROVE  ModalInv'
    BY <2>10, ModalSnapshots
  <2> QED BY <2>1, <2>2, <2>3, <2>4, <2>5, <2>6, <2>7, <2>8, <2>9, <2>10 DEF Modal!Next
<1> QED BY <1>1, <1>2, PTL DEF Modal!Spec

\* A Modal client is shown the tags that were set, and how its sandbox and its command ended
\* (src/api-service/handlers/modal_compat_gateway.py), in whichever process it asks, but where
\* settings overlapped, one did not get into the row, or a snapshot wrote back what it had read.
THEOREM ModalIsToldSo ==
  ASSUME Modal!ModalBounds PROVE Modal!Spec => []Modal!ToldSo
<1>1. ModalInv => Modal!ToldSo
  BY ModalTells
<1> QED BY <1>1, AlwaysModalInv, PTL

-----------------------------------------------------------------------------
(* Files that a client of the Modal gateway opened *)

CellNumbers == 0..MaxWrites
Written == 1..MaxWrites

\* A copy of a file remembers what it saw and did not write over, but for what is not plain
\* text, and unless its read had failed or met another process's save.
StillHas(c) == c.blind \/ c.saw \ (c.over \cup Odd) \subseteq ModalFile!Values(c.data)

OpenFile ==
  [pc : {"none", "read", "cut", "open", "closed"}, at : PoolReplicas \cup {None},
   mode : Modes \cup {None}, data : Seq(CellNumbers), pos : Nat, saw : SUBSET Written,
   over : SUBSET Written, blind : BOOLEAN]

FileCopy ==
  [at : PoolReplicas \cup {None}, data : Seq(CellNumbers), saw : SUBSET Written,
   over : SUBSET Written, blind : BOOLEAN, cut : BOOLEAN, again : BOOLEAN, n : Nat]

OpenSound(c) == c \in OpenFile /\ c.pos <= Len(c.data) /\ StillHas(c)
CopySound(w) == w \in FileCopy /\ w.n <= Len(w.data) /\ (w.cut \/ w.n = 0) /\ StillHas(w)

ModalFileInv ==
  /\ live \in BOOLEAN /\ file \in Seq(CellNumbers) \cup {None} /\ writes \in 0..MaxWrites
  /\ faults \in 0..FewFaults /\ (live \/ file = None)
  /\ handle \in [Handles -> OpenFile] /\ \A h \in Handles : OpenSound(handle[h])
  /\ \A w \in saves : CopySound(w)

\* None is no file, and what a file has is what its cells are.
LEMMA FileValues ==
  ASSUME ModalFile!FileBounds, NEW d \in Seq(CellNumbers)
  PROVE  /\ d # None /\ DOMAIN d = 1..Len(d) /\ Len(d) \in Nat
         /\ ModalFile!Values(d) = {d[i] : i \in 1..Len(d)} \ {0}
         /\ \A i \in 1..Len(d) : d[i] \in CellNumbers
         /\ ModalFile!Values(d) \subseteq Written
<1>1. CellNumbers \subseteq Nat
  BY Numbers DEF CellNumbers
<1>2. d \in Seq(Nat)
  BY <1>1, SeqMonotonic
<1>3. d # None
  BY <1>2 DEF ModalFile!FileBounds
<1>4. DOMAIN d = 1..Len(d) /\ Len(d) \in Nat /\ \A i \in 1..Len(d) : d[i] \in CellNumbers
  BY LenProperties, ElementOfSeq
<1>5. CellNumbers \ {0} = Written
  BY Numbers DEF CellNumbers, Written
<1> QED BY <1>3, <1>4, <1>5 DEF ModalFile!Values

\* Text has as many cells, and those that are plain as they were.
LEMMA TextOf ==
  ASSUME ModalFile!FileBounds, NEW d \in Seq(CellNumbers)
  PROVE  /\ ModalFile!Text(d) \in Seq(CellNumbers) /\ Len(ModalFile!Text(d)) = Len(d)
         /\ ModalFile!Values(d) \ Odd \subseteq ModalFile!Values(ModalFile!Text(d))
<1>1. DOMAIN d = 1..Len(d) /\ Len(d) \in Nat /\ \A i \in 1..Len(d) : d[i] \in CellNumbers
  BY FileValues
<1> DEFINE t == [i \in 1..Len(d) |-> IF d[i] \in Odd THEN 0 ELSE d[i]]
<1>2. ModalFile!Text(d) = t
  BY <1>1 DEF ModalFile!Text
<1>3. 0 \in CellNumbers
  BY Numbers DEF CellNumbers
<1>4. \A i \in 1..Len(d) : (IF d[i] \in Odd THEN 0 ELSE d[i]) \in CellNumbers
  BY <1>1, <1>3
<1>5. t \in Seq(CellNumbers) /\ Len(t) = Len(d)
  BY <1>1, <1>4
<1>6. ASSUME NEW v \in ModalFile!Values(d) \ Odd
      PROVE  v \in ModalFile!Values(t)
  <2>1. PICK i \in 1..Len(d) : d[i] = v /\ v # 0 /\ v \notin Odd
    BY FileValues
  <2>2. t[i] = v
    BY <2>1
  <2> HIDE DEF t
  <2> QED BY <1>5, <2>1, <2>2, FileValues
<1> HIDE DEF t
<1> QED BY <1>2, <1>5, <1>6

\* A handle becomes another one.
LEMMA HandleBecomes ==
  ASSUME ModalFileInv, NEW h \in Handles, NEW c, OpenSound(c),
         handle' = [handle EXCEPT ![h] = c]
  PROVE  /\ handle' \in [Handles -> OpenFile] /\ \A g \in Handles : OpenSound(handle'[g])
<1>1. c \in OpenFile
  BY DEF OpenSound
<1>2. /\ handle' \in [Handles -> OpenFile] /\ handle'[h] = c
      /\ \A g \in Handles \ {h} : handle'[g] = handle[g]
  BY <1>1 DEF ModalFileInv
<1> QED BY <1>2 DEF ModalFileInv

\* A handle that is gone, and one that is begun.
LEMMA NoHandleSound ==
  /\ OpenSound(ModalFile!NoMore) /\ OpenSound(ModalFile!NoHandle)
  /\ \A r \in PoolReplicas, mode \in Modes, pc \in {"cut", "read"} :
       OpenSound([ModalFile!NoHandle EXCEPT !.pc = pc, !.at = r, !.mode = mode])
<1>1. << >> \in Seq(CellNumbers) /\ Len(<< >>) = 0
  BY EmptySeq
<1>2. ModalFile!NoHandle \in OpenFile /\ ModalFile!NoHandle.saw = {}
      /\ ModalFile!NoHandle.pos = 0 /\ ModalFile!NoHandle.data = << >>
  BY <1>1 DEF ModalFile!NoHandle, OpenFile
<1>3. ModalFile!NoMore \in OpenFile /\ ModalFile!NoMore.saw = {}
      /\ ModalFile!NoMore.pos = 0 /\ ModalFile!NoMore.data = << >>
  BY <1>2 DEF ModalFile!NoMore, OpenFile
<1>4. ASSUME NEW r \in PoolReplicas, NEW mode \in Modes, NEW pc \in {"cut", "read"},
             NEW c, c = [ModalFile!NoHandle EXCEPT !.pc = pc, !.at = r, !.mode = mode]
      PROVE  OpenSound(c)
  <2>1. c \in OpenFile /\ c.saw = {} /\ c.pos = 0 /\ c.data = << >>
    BY <1>2, <1>4 DEF OpenFile
  <2> QED BY <1>1, <2>1 DEF OpenSound, StillHas
<1>5. OpenSound(ModalFile!NoMore) /\ OpenSound(ModalFile!NoHandle)
  BY <1>1, <1>2, <1>3 DEF OpenSound, StillHas
<1> QED BY <1>4, <1>5

\* A file is opened.
LEMMA FileOpens ==
  ASSUME ModalFileInv, NEW h \in Handles, NEW r \in PoolReplicas, NEW mode \in Modes,
         ModalFile!Open(h, r, mode)
  PROVE  ModalFileInv'
<1> DEFINE p == IF mode = "w" THEN "cut" ELSE "read"
           c == [ModalFile!NoHandle EXCEPT !.pc = p, !.at = r, !.mode = mode]
<1>1. handle' = [handle EXCEPT ![h] = c] /\ UNCHANGED <<live, file, saves, writes, faults>>
  BY DEF ModalFile!Open
<1>2. p \in {"cut", "read"}
  OBVIOUS
<1> HIDE DEF p
<1>3. OpenSound(c)
  BY <1>2, NoHandleSound
<1> HIDE DEF c
<1> QED BY <1>1, <1>3, HandleBecomes DEF ModalFileInv

\* A fault counts.
LEMMA FileFault ==
  ASSUME ModalFileInv, ModalFile!Fault
  PROVE  faults' \in 0..FewFaults /\ faults' # faults
BY Numbers DEF ModalFileInv, ModalFile!Fault

\* What the file has, and is to have.
LEMMA KeptIs ==
  ASSUME ModalFile!FileBounds, ModalFileInv
  PROVE  /\ ModalFile!Kept \subseteq Written
         /\ \A v : v \in ModalFile!Kept <=>
              v \in ModalFile!Values(file) \/ \E w \in saves : v \in ModalFile!Left(w)
<1>1. ModalFile!Values(file) \subseteq Written
  BY FileValues DEF ModalFileInv, ModalFile!Values
<1>2. ASSUME NEW w \in saves PROVE ModalFile!Left(w) \subseteq Written
  <2>1. w \in FileCopy /\ w.n <= Len(w.data)
    BY DEF ModalFileInv, CopySound
  <2>2. w.data \in Seq(CellNumbers) /\ w.n \in Nat
    BY <2>1 DEF FileCopy
  <2>3. \A i \in w.n + 1..Len(w.data) : w.data[i] \in CellNumbers
    BY <2>2, FileValues
  <2>4. CellNumbers \ {0} = Written
    BY Numbers DEF CellNumbers, Written
  <2> QED BY <2>3, <2>4 DEF ModalFile!Left
<1> QED BY <1>1, <1>2 DEF ModalFile!Kept

\* The file is read, or the read fails.
LEMMA FileReads ==
  ASSUME ModalFile!FileBounds, ModalFileInv, NEW h \in Handles,
         ModalFile!ReadFile(h) \/ ModalFile!ReadFails(h)
  PROVE  ModalFileInv'
<1>1. /\ UNCHANGED <<live, file, saves, writes>> /\ faults' \in 0..FewFaults
      /\ handle[h] \in OpenFile /\ OpenSound(handle[h])
  BY FileFault DEF ModalFileInv, ModalFile!ReadFile, ModalFile!ReadFails
<1>2. CASE ModalFile!Ends(h)
  BY <1>1, <1>2, HandleBecomes, NoHandleSound DEF ModalFileInv, ModalFile!Ends
<1>3. CASE ModalFile!ReadFile(h) /\ ~ModalFile!Ends(h)
  <2> DEFINE f == ModalFile!Fetched
             k == ModalFile!Kept
             b == \E w \in saves : w.at # handle[h].at /\ w.cut
             p == IF handle[h].mode = "a" THEN Len(f) ELSE 0
             c == [handle[h] EXCEPT !.pc = "open", !.data = f, !.saw = k, !.blind = b, !.pos = p]
  <2>1. handle' = [handle EXCEPT ![h] = c]
    BY <1>1, <1>3 DEF ModalFile!ReadFile, ModalFileInv
  <2>2. f \in Seq(CellNumbers) /\ Len(f) \in Nat /\ ModalFile!Values(file) \ Odd \subseteq ModalFile!Values(f)
    <3>1. CASE file = None
      BY <3>1, EmptySeq DEF ModalFile!Fetched, ModalFile!Values
    <3>2. CASE file \in Seq(CellNumbers)
      <4>1. f = ModalFile!Text(file)
        BY <3>2, FileValues DEF ModalFile!Fetched
      <4> QED BY <3>2, <4>1, TextOf, LenProperties
    <3> QED BY <3>1, <3>2 DEF ModalFileInv
  <2>3. b \in BOOLEAN /\ k \in SUBSET Written /\ p \in Nat /\ p <= Len(f)
    BY <2>2, KeptIs
  <2>4. ~b => k = ModalFile!Values(file)
    BY <1>3, KeptIs DEF ModalFile!ReadFile, ModalFile!Locked, ModalFile!Left
  <2> HIDE DEF f, k, b, p
  <2>5. c \in OpenFile /\ c.data = f /\ c.saw = k /\ c.blind = b /\ c.pos = p
        /\ c.over = handle[h].over
    BY <1>1, <2>2, <2>3 DEF OpenFile
  <2> HIDE DEF c
  <2>6. OpenSound(c)
    BY <2>2, <2>3, <2>4, <2>5 DEF OpenSound, StillHas
  <2> QED BY <1>1, <2>1, <2>6, HandleBecomes DEF ModalFileInv
<1>4. CASE ModalFile!ReadFails(h) /\ ~ModalFile!Ends(h)
  <2> DEFINE k == ModalFile!Kept
             c == [handle[h] EXCEPT !.pc = "open", !.saw = k, !.blind = TRUE]
  <2>1. handle' = [handle EXCEPT ![h] = c]
    BY <1>1, <1>4 DEF ModalFile!ReadFails, ModalFileInv
  <2>2. k \in SUBSET Written
    BY KeptIs
  <2> HIDE DEF k
  <2>3. c \in OpenFile /\ c.data = handle[h].data /\ c.blind = TRUE /\ c.pos = handle[h].pos
    BY <1>1, <2>2 DEF OpenFile
  <2> HIDE DEF c
  <2>4. OpenSound(c)
    BY <1>1, <2>3 DEF OpenSound, StillHas
  <2> QED BY <1>1, <2>1, <2>4, HandleBecomes DEF ModalFileInv
<1> QED BY <1>2, <1>3, <1>4

\* A file is cut for its handle, which writes nothing yet.
LEMMA FileTruncates ==
  ASSUME ModalFile!FileBounds, ModalFileInv, NEW h \in Handles,
         ModalFile!Truncate(h) \/ ModalFile!TruncateFails(h)
  PROVE  ModalFileInv'
<1>1. /\ UNCHANGED <<live, saves, writes>> /\ faults' \in 0..FewFaults
      /\ handle[h] \in OpenFile /\ OpenSound(handle[h])
      /\ file' = file \/ file' = << >>
  BY FileFault DEF ModalFileInv, ModalFile!Truncate, ModalFile!TruncateFails
<1>2. file' \in Seq(CellNumbers) \cup {None} /\ (live' \/ file' = None)
  BY <1>1, EmptySeq DEF ModalFileInv, ModalFile!Truncate, ModalFile!TruncateFails
<1>3. CASE ModalFile!Ends(h)
  BY <1>1, <1>2, <1>3, HandleBecomes, NoHandleSound DEF ModalFileInv, ModalFile!Ends
<1>4. CASE ~ModalFile!Ends(h)
  <2> DEFINE c == [handle[h] EXCEPT !.pc = "open"]
  <2>1. handle' = [handle EXCEPT ![h] = c]
    BY <1>1, <1>4 DEF ModalFile!Truncate, ModalFile!TruncateFails, ModalFileInv
  <2>2. /\ c \in OpenFile /\ c.data = handle[h].data /\ c.saw = handle[h].saw
        /\ c.over = handle[h].over /\ c.blind = handle[h].blind /\ c.pos = handle[h].pos
    BY <1>1 DEF OpenFile
  <2> HIDE DEF c
  <2>3. OpenSound(c)
    BY <1>1, <2>2 DEF OpenSound, StillHas
  <2> QED BY <1>1, <1>2, <2>1, <2>3, HandleBecomes DEF ModalFileInv
<1> QED BY <1>3, <1>4

\* A file is sought in.
LEMMA FileSeeks ==
  ASSUME ModalFileInv, NEW h \in Handles, NEW pos, ModalFile!Seek(h, pos)
  PROVE  ModalFileInv'
<1> DEFINE c == [handle[h] EXCEPT !.pos = pos]
<1>1. /\ handle' = [handle EXCEPT ![h] = c] /\ UNCHANGED <<live, file, saves, writes, faults>>
      /\ handle[h] \in OpenFile /\ OpenSound(handle[h]) /\ pos \in 0..Len(handle[h].data)
  BY DEF ModalFile!Seek, ModalFileInv
<1>2. handle[h].data \in Seq(CellNumbers)
  BY <1>1 DEF OpenFile
<1>3. pos \in Nat /\ pos <= Len(handle[h].data)
  BY <1>1, <1>2, LenProperties
<1>4. /\ c \in OpenFile /\ c.data = handle[h].data /\ c.saw = handle[h].saw
      /\ c.over = handle[h].over /\ c.blind = handle[h].blind /\ c.pos = pos
  BY <1>1, <1>3 DEF OpenFile
<1> HIDE DEF c
<1>5. OpenSound(c)
  BY <1>1, <1>3, <1>4 DEF OpenSound, StillHas
<1> QED BY <1>1, <1>5, HandleBecomes DEF ModalFileInv

\* A cell is written: over one of the file, or behind it.
LEMMA FileWrites ==
  ASSUME ModalFile!FileBounds, ModalFileInv, NEW h \in Handles, ModalFile!WriteCell(h)
  PROVE  ModalFileInv'
<1> DEFINE cell == writes + 1
           place == handle[h].pos + 1
           was == handle[h].data
           inside == place <= Len(was)
           new == IF inside THEN [was EXCEPT ![place] = cell] ELSE Append(was, cell)
           over == IF inside THEN handle[h].over \cup ({was[place]} \ {0}) ELSE handle[h].over
           c == [handle[h] EXCEPT !.data = new, !.over = over, !.saw = @ \cup {cell}, !.pos = place]
<1>1. /\ UNCHANGED <<live, file, saves, faults>> /\ writes' = cell /\ writes < MaxWrites
      /\ handle[h] \in OpenFile /\ OpenSound(handle[h])
  BY DEF ModalFile!WriteCell, ModalFileInv
<1>2. handle' = [handle EXCEPT ![h] = c]
  BY DEF ModalFile!WriteCell, ModalFileInv
<1>3. /\ cell \in Written /\ cell \in CellNumbers /\ cell # 0 /\ cell \in 0..MaxWrites
  BY <1>1, Numbers DEF ModalFileInv, Written, CellNumbers
<1>4. /\ was \in Seq(CellNumbers) /\ handle[h].pos \in Nat /\ handle[h].pos <= Len(was)
      /\ handle[h].over \in SUBSET Written /\ handle[h].saw \in SUBSET Written
      /\ handle[h].blind \in BOOLEAN
  BY <1>1 DEF OpenSound, OpenFile
<1>5. /\ DOMAIN was = 1..Len(was) /\ Len(was) \in Nat /\ \A i \in 1..Len(was) : was[i] \in CellNumbers
      /\ ModalFile!Values(was) = {was[i] : i \in 1..Len(was)} \ {0}
  BY <1>4, FileValues
<1>6. /\ new \in Seq(CellNumbers) /\ place \in 1..Len(new) /\ new[place] = cell
      /\ \A i \in 1..Len(was) : i \in 1..Len(new) /\ (i # place => new[i] = was[i])
  <2>1. CASE inside
    <3>1. place \in 1..Len(was)
      BY <1>4, <1>5, <2>1
    <3>2. new = [was EXCEPT ![place] = cell]
      BY <2>1
    <3> HIDE DEF new, place, cell, was
    <3> QED BY <1>3, <1>4, <3>1, <3>2, ExceptSeq
  <2>2. CASE ~inside
    <3>1. place = Len(was) + 1
      BY <1>4, <1>5, <2>2
    <3>2. new = Append(was, cell)
      BY <2>2
    <3>3. /\ new \in Seq(CellNumbers) /\ Len(new) = Len(was) + 1 /\ new[Len(was) + 1] = cell
          /\ \A i \in 1..Len(was) : new[i] = was[i]
      BY <1>3, <1>4, <3>2, AppendProperties
    <3> HIDE DEF new, place, cell, was
    <3> QED BY <1>5, <3>1, <3>3
  <2> QED BY <2>1, <2>2
<1>7. over \in SUBSET Written
  <2>1. inside => was[place] \in CellNumbers
    BY <1>4, <1>5
  <2>2. CellNumbers \ {0} = Written
    BY Numbers DEF CellNumbers, Written
  <2> QED BY <1>4, <2>1, <2>2
<1>8. ASSUME NEW v \in handle[h].saw \cup {cell}, v \notin over, v \notin Odd, ~handle[h].blind
      PROVE  v \in ModalFile!Values(new)
  <2>1. ModalFile!Values(new) = {new[i] : i \in 1..Len(new)} \ {0}
    BY <1>6, FileValues
  <2>2. CASE v = cell
    BY <1>3, <1>6, <2>1, <2>2
  <2>3. CASE v \in handle[h].saw
    <3>1. v \notin handle[h].over
      BY <1>8
    <3>2. v \in ModalFile!Values(was)
      BY <1>1, <1>8, <2>3, <3>1 DEF OpenSound, StillHas
    <3>3. PICK i \in 1..Len(was) : was[i] = v /\ v # 0
      BY <1>5, <3>2
    <3>4. i # place
      BY <1>5, <1>8, <3>3
    <3> QED BY <1>6, <2>1, <3>3, <3>4
  <2> QED BY <2>2, <2>3
<1>9. place \in Nat /\ place <= Len(new)
  BY <1>4, <1>6
<1> HIDE DEF over, new, cell, place
<1>10. /\ c \in OpenFile /\ c.data = new /\ c.saw = handle[h].saw \cup {cell} /\ c.over = over
       /\ c.blind = handle[h].blind /\ c.pos = place
  BY <1>1, <1>3, <1>6, <1>7, <1>9 DEF OpenFile
<1> HIDE DEF c
<1>11. OpenSound(c)
  BY <1>8, <1>9, <1>10 DEF OpenSound, StillHas
<1> QED BY <1>1, <1>2, <1>3, <1>11, HandleBecomes DEF ModalFileInv

\* What is to be written back of a handle.
LEMMA FileCopies ==
  ASSUME ModalFile!FileBounds, ModalFileInv, NEW h \in Handles
  PROVE  CopySound(ModalFile!Copy(h)) /\ ~ModalFile!Copy(h).cut
<1>1. handle[h] \in OpenFile /\ OpenSound(handle[h])
  BY DEF ModalFileInv
<1>2. PICK d : d = handle[h].data
  OBVIOUS
<1>3. d \in Seq(CellNumbers)
  BY <1>1, <1>2 DEF OpenFile
<1>4. /\ ModalFile!Text(d) \in Seq(CellNumbers) /\ Len(ModalFile!Text(d)) \in Nat
      /\ ModalFile!Values(d) \ Odd \subseteq ModalFile!Values(ModalFile!Text(d))
  BY <1>3, TextOf, LenProperties
<1>5. PICK w : w = ModalFile!Copy(h)
  OBVIOUS
<1>6. /\ w \in FileCopy /\ w.data = ModalFile!Text(d) /\ w.saw = handle[h].saw
      /\ w.over = handle[h].over /\ w.blind = handle[h].blind /\ w.n = 0 /\ ~w.cut
  BY <1>1, <1>2, <1>4, <1>5 DEF OpenFile, FileCopy, ModalFile!Copy
<1>7. CopySound(w)
  BY <1>1, <1>2, <1>4, <1>6 DEF CopySound, OpenSound, StillHas
<1> QED BY <1>5, <1>6, <1>7

\* A file is flushed or closed.
LEMMA FileCloses ==
  ASSUME ModalFile!FileBounds, ModalFileInv, NEW h \in Handles,
         ModalFile!Flush(h) \/ ModalFile!Close(h)
  PROVE  ModalFileInv'
<1>1. /\ UNCHANGED <<live, file, writes, faults>>
      /\ saves' \subseteq saves \cup {ModalFile!Copy(h)}
      /\ handle' = handle \/ ModalFile!Ends(h)
  BY DEF ModalFile!Flush, ModalFile!Close
<1>2. \A w \in saves' : CopySound(w)
  BY <1>1, FileCopies DEF ModalFileInv
<1>3. handle' \in [Handles -> OpenFile] /\ \A g \in Handles : OpenSound(handle'[g])
  BY <1>1, HandleBecomes, NoHandleSound DEF ModalFileInv, ModalFile!Ends
<1> QED BY <1>1, <1>2, <1>3 DEF ModalFileInv

\* The guest's own writes and deletions, and the sandbox's end.
LEMMA FileElsewhere ==
  ASSUME ModalFile!FileBounds, ModalFileInv,
         ModalFile!GuestWrites \/ ModalFile!DeleteFile \/ ModalFile!Kill
  PROVE  ModalFileInv'
<1>1. UNCHANGED <<handle, saves, faults>> /\ live' \in BOOLEAN
  BY DEF ModalFileInv, ModalFile!GuestWrites, ModalFile!DeleteFile, ModalFile!Kill
<1>2. CASE ModalFile!GuestWrites
  <2>1. file \in Seq(CellNumbers) /\ writes + 1 \in CellNumbers /\ writes' \in 0..MaxWrites
    BY <1>2, Numbers DEF ModalFileInv, ModalFile!GuestWrites, CellNumbers
  <2>2. file' \in Seq(CellNumbers)
    BY <1>2, <2>1, AppendProperties DEF ModalFile!GuestWrites
  <2> QED BY <1>1, <1>2, <2>1, <2>2 DEF ModalFileInv, ModalFile!GuestWrites
<1>3. CASE ModalFile!DeleteFile \/ ModalFile!Kill
  BY <1>1, <1>3 DEF ModalFileInv, ModalFile!DeleteFile, ModalFile!Kill
<1> QED BY <1>2, <1>3

\* A call of write_file goes on, or ends.
LEMMA FileSaves ==
  ASSUME ModalFile!FileBounds, ModalFileInv, NEW w \in saves,
         \/ ModalFile!Save(w) \/ ModalFile!Piece(w) \/ ModalFile!Saved(w)
         \/ ModalFile!SaveFails(w) \/ ModalFile!SaveAgain(w) \/ ModalFile!GivesUp(w)
  PROVE  ModalFileInv'
<1>1. UNCHANGED <<live, handle, writes>> /\ faults' \in 0..FewFaults
  BY FileFault DEF ModalFileInv, ModalFile!Save, ModalFile!Piece, ModalFile!Saved,
     ModalFile!SaveFails, ModalFile!SaveAgain, ModalFile!GivesUp
<1>2. /\ CopySound(w) /\ w \in FileCopy /\ w.data \in Seq(CellNumbers) /\ w.n \in Nat
      /\ w.n <= Len(w.data) /\ (w.cut \/ w.n = 0)
  BY DEF ModalFileInv, CopySound, FileCopy
<1>3. Len(w.data) \in Nat /\ \A i \in 1..Len(w.data) : w.data[i] \in CellNumbers
  BY <1>2, FileValues
<1>4. ASSUME NEW x \in FileCopy, x.data = w.data, x.saw = w.saw, x.over = w.over,
             x.blind = w.blind, x.n <= Len(x.data), x.cut \/ x.n = 0, ModalFile!Becomes(w, x)
      PROVE  \A y \in saves' : CopySound(y)
  <2>1. CopySound(x)
    BY <1>2, <1>4 DEF CopySound, StillHas
  <2> QED BY <1>4, <2>1 DEF ModalFileInv, ModalFile!Becomes
<1>5. CASE ModalFile!Save(w)
  <2> DEFINE x == [w EXCEPT !.cut = TRUE]
  <2>1. x \in FileCopy /\ x.data = w.data /\ x.saw = w.saw /\ x.over = w.over /\ x.blind = w.blind
        /\ x.n = w.n /\ x.cut
    BY <1>2 DEF FileCopy
  <2>2. ModalFile!Becomes(w, x) /\ file' = << >>
    BY <1>5 DEF ModalFile!Save
  <2> HIDE DEF x
  <2>3. \A y \in saves' : CopySound(y)
    BY <1>2, <1>4, <2>1, <2>2
  <2>4. live
    BY <1>5 DEF ModalFile!Save
  <2> QED BY <1>1, <2>2, <2>3, <2>4, EmptySeq DEF ModalFileInv
<1>6. CASE ModalFile!Piece(w)
  <2> DEFINE x == [w EXCEPT !.n = @ + 1]
  <2>1. w.n < Len(w.data) /\ w.cut
    BY <1>6 DEF ModalFile!Piece
  <2>2. x \in FileCopy /\ x.data = w.data /\ x.saw = w.saw /\ x.over = w.over /\ x.blind = w.blind
        /\ x.n = w.n + 1 /\ x.cut
    BY <1>2, <2>1 DEF FileCopy
  <2>3. /\ ModalFile!Becomes(w, x)
        /\ file' = Append(IF file = None THEN << >> ELSE file, w.data[w.n + 1])
    BY <1>6 DEF ModalFile!Piece
  <2>4. w.data[w.n + 1] \in CellNumbers /\ w.n + 1 <= Len(w.data)
    BY <1>2, <1>3, <2>1
  <2>5. (IF file = None THEN << >> ELSE file) \in Seq(CellNumbers)
    BY EmptySeq DEF ModalFileInv
  <2>6. file' \in Seq(CellNumbers)
    BY <2>3, <2>4, <2>5, AppendProperties
  <2> HIDE DEF x
  <2>7. \A y \in saves' : CopySound(y)
    BY <1>4, <2>2, <2>3, <2>4
  <2> QED BY <1>1, <1>6, <2>6, <2>7 DEF ModalFileInv, ModalFile!Piece
<1>7. CASE ModalFile!Saved(w) \/ ModalFile!SaveFails(w)
  <2>1. saves' \subseteq saves /\ UNCHANGED file
    BY <1>7 DEF ModalFile!Saved, ModalFile!SaveFails
  <2> QED BY <1>1, <2>1 DEF ModalFileInv
<1>8. CASE ModalFile!SaveAgain(w)
  <2> DEFINE x == [w EXCEPT !.cut = FALSE, !.again = TRUE, !.n = 0]
  <2>1. x \in FileCopy /\ x.data = w.data /\ x.saw = w.saw /\ x.over = w.over /\ x.blind = w.blind
        /\ x.n = 0
    BY <1>2 DEF FileCopy
  <2>2. ModalFile!Becomes(w, x) /\ UNCHANGED file
    BY <1>8 DEF ModalFile!SaveAgain
  <2> HIDE DEF x
  <2>3. \A y \in saves' : CopySound(y)
    BY <1>3, <1>4, <2>1, <2>2
  <2> QED BY <1>1, <2>2, <2>3 DEF ModalFileInv
<1>9. CASE ModalFile!GivesUp(w)
  <2> DEFINE x == [w EXCEPT !.at = None]
  <2>1. x \in FileCopy /\ x.data = w.data /\ x.saw = w.saw /\ x.over = w.over /\ x.blind = w.blind
        /\ x.n = w.n /\ x.cut = w.cut
    BY <1>2 DEF FileCopy
  <2>2. ModalFile!Becomes(w, x) /\ UNCHANGED file
    BY <1>9 DEF ModalFile!GivesUp
  <2> HIDE DEF x
  <2>3. \A y \in saves' : CopySound(y)
    BY <1>2, <1>4, <2>1, <2>2
  <2> QED BY <1>1, <2>2, <2>3 DEF ModalFileInv
<1> QED BY <1>5, <1>6, <1>7, <1>8, <1>9

\* What goes on of a call without its process.
LEMMA CopyUnwatched ==
  ASSUME NEW w, CopySound(w)
  PROVE  CopySound([w EXCEPT !.at = None])
<1>1. PICK x : x = [w EXCEPT !.at = None]
  OBVIOUS
<1>2. /\ x \in FileCopy /\ x.data = w.data /\ x.saw = w.saw /\ x.over = w.over
      /\ x.blind = w.blind /\ x.n = w.n /\ x.cut = w.cut
  BY <1>1 DEF CopySound, FileCopy
<1>3. CopySound(x)
  BY <1>2 DEF CopySound, StillHas
<1> QED BY <1>1, <1>3

\* A process starts anew.
LEMMA FilesForgotten ==
  ASSUME ModalFileInv, NEW r \in PoolReplicas, ModalFile!Restart(r)
  PROVE  ModalFileInv'
<1>1. /\ UNCHANGED <<live, file, writes>> /\ faults' \in 0..FewFaults
      /\ handle' = [h \in Handles |-> IF handle[h].at = r THEN ModalFile!NoMore ELSE handle[h]]
  BY FileFault DEF ModalFile!Restart
<1>2. handle' \in [Handles -> OpenFile] /\ \A h \in Handles : OpenSound(handle'[h])
  <2>1. ModalFile!NoMore \in OpenFile /\ OpenSound(ModalFile!NoMore)
    BY NoHandleSound DEF OpenSound
  <2> QED BY <1>1, <2>1 DEF ModalFileInv
<1>3. \A x \in saves' : \E w \in saves : x = w \/ x = [w EXCEPT !.at = None]
  BY DEF ModalFile!Restart
<1>4. \A x \in saves' : CopySound(x)
  BY <1>3, CopyUnwatched DEF ModalFileInv
<1> QED BY <1>1, <1>2, <1>4 DEF ModalFileInv

\* The files that are open, and what is written back of them, always.
LEMMA AlwaysModalFileInv ==
  ASSUME ModalFile!FileBounds PROVE ModalFile!Spec => []ModalFileInv
<1>1. ModalFile!Init => ModalFileInv
  <2> SUFFICES ASSUME ModalFile!Init PROVE ModalFileInv
    OBVIOUS
  <2>1. ModalFile!NoHandle \in OpenFile /\ OpenSound(ModalFile!NoHandle)
    BY NoHandleSound DEF OpenSound
  <2> QED BY <2>1, Numbers DEF ModalFile!Init, ModalFileInv
<1>2. ModalFileInv /\ [ModalFile!Next]_(ModalFile!vars) => ModalFileInv'
  <2> SUFFICES ASSUME ModalFileInv, [ModalFile!Next]_(ModalFile!vars) PROVE ModalFileInv'
    OBVIOUS
  <2>1. CASE UNCHANGED ModalFile!vars
    BY <2>1 DEF ModalFile!vars, ModalFileInv
  <2>2. ASSUME NEW h \in Handles, NEW r \in PoolReplicas, NEW mode \in Modes,
               ModalFile!Open(h, r, mode)
        PROVE  ModalFileInv'
    BY <2>2, FileOpens
  <2>3. ASSUME NEW h \in Handles, ModalFile!ReadFile(h) \/ ModalFile!ReadFails(h)
        PROVE  ModalFileInv'
    BY <2>3, FileReads
  <2>4. ASSUME NEW h \in Handles, ModalFile!Truncate(h) \/ ModalFile!TruncateFails(h)
        PROVE  ModalFileInv'
    BY <2>4, FileTruncates
  <2>5. ASSUME NEW h \in Handles, ModalFile!WriteCell(h) PROVE ModalFileInv'
    BY <2>5, FileWrites
  <2>6. ASSUME NEW h \in Handles, ModalFile!Flush(h) \/ ModalFile!Close(h) PROVE ModalFileInv'
    BY <2>6, FileCloses
  <2>7. ASSUME NEW h \in Handles, NEW pos \in 0..MaxWrites, ModalFile!Seek(h, pos)
        PROVE  ModalFileInv'
    BY <2>7, FileSeeks
  <2>8. ASSUME NEW w \in saves,
               \/ ModalFile!Save(w) \/ ModalFile!Piece(w) \/ ModalFile!Saved(w)
               \/ ModalFile!SaveFails(w) \/ ModalFile!SaveAgain(w) \/ ModalFile!GivesUp(w)
        PROVE  ModalFileInv'
    BY <2>8, FileSaves
  <2>9. ASSUME NEW r \in PoolReplicas, ModalFile!Restart(r) PROVE ModalFileInv'
    BY <2>9, FilesForgotten
  <2> QED
    BY <2>1, <2>2, <2>3, <2>4, <2>5, <2>6, <2>7, <2>8, <2>9, FileElsewhere DEF ModalFile!Next
<1> QED BY <1>1, <1>2, PTL DEF ModalFile!Spec

\* What goes is of the file, or of a save that is no longer there.
LEMMA KeptGoes ==
  ASSUME NEW v \in ModalFile!Kept, v \notin ModalFile!Kept'
  PROVE  /\ v \notin ModalFile!Values(file') /\ \A x \in saves' : v \notin ModalFile!Left(x)
         /\ \/ v \in ModalFile!Values(file)
            \/ \E w \in saves \ saves' : v \in ModalFile!Left(w)
BY DEF ModalFile!Kept

\* Nothing goes while the file keeps its cells and no save ends, or the file is as it was
\* and a call fails.
LEMMA KeptStays ==
  ASSUME ModalFile!Values(file) \subseteq ModalFile!Values(file'),
         saves \subseteq saves' \/ faults' # faults
  PROVE  ModalFile!WritesKept
BY KeptGoes DEF ModalFile!WritesKept

\* An append keeps what was there.
LEMMA ValuesAppend ==
  ASSUME ModalFile!FileBounds, NEW d \in Seq(CellNumbers), NEW cell \in CellNumbers
  PROVE  /\ Append(d, cell) \in Seq(CellNumbers)
         /\ ModalFile!Values(Append(d, cell)) = ModalFile!Values(d) \cup ({cell} \ {0})
<1>1. PICK t : t = Append(d, cell)
  OBVIOUS
<1>2. /\ t \in Seq(CellNumbers) /\ Len(t) = Len(d) + 1 /\ t[Len(d) + 1] = cell
      /\ \A i \in 1..Len(d) : t[i] = d[i]
  BY <1>1, AppendProperties
<1>3. /\ ModalFile!Values(d) = {d[i] : i \in 1..Len(d)} \ {0} /\ Len(d) \in Nat
      /\ ModalFile!Values(t) = {t[i] : i \in 1..Len(t)} \ {0}
  BY <1>2, FileValues
<1>4. 1..Len(t) = 1..Len(d) \cup {Len(d) + 1}
  BY <1>2, <1>3
<1>5. ModalFile!Values(t) = ModalFile!Values(d) \cup ({cell} \ {0})
  BY <1>2, <1>3, <1>4
<1> QED BY <1>1, <1>2, <1>5

\* A save cuts the file: what it lets go it wrote over or did not see, or it was blind.
LEMMA SaveKeeps ==
  ASSUME ModalFile!FileBounds, ModalFileInv, NEW w \in saves, ModalFile!Save(w)
  PROVE  ModalFile!WritesKept
<1>1. PICK x : x = [w EXCEPT !.cut = TRUE]
  OBVIOUS
<1>2. /\ CopySound(w) /\ w \in FileCopy /\ w.data \in Seq(CellNumbers) /\ ~w.cut /\ w.n = 0
      /\ saves' = (saves \ {w}) \cup {x}
  BY <1>1 DEF ModalFileInv, CopySound, FileCopy, ModalFile!Save, ModalFile!Becomes
<1>3. x.cut /\ x.data = w.data /\ x.n = 0
  BY <1>1, <1>2 DEF FileCopy
<1>4. ModalFile!Left(x) = ModalFile!Values(w.data)
  <2>1. ModalFile!Left(x) = {w.data[i] : i \in 0 + 1..Len(w.data)} \ {0}
    BY <1>3 DEF ModalFile!Left
  <2> QED BY <1>2, <2>1, FileValues
<1>5. w \in saves \ saves' /\ x \in saves'
  BY <1>2, <1>3
<1>6. ASSUME NEW v \in ModalFile!Kept, v \notin Odd, v \notin ModalFile!Kept'
      PROVE  v \in w.over \/ v \notin w.saw \/ w.blind
  <2>1. v \notin ModalFile!Values(w.data)
    BY <1>4, <1>5, <1>6, KeptGoes
  <2> QED BY <1>2, <1>6, <2>1 DEF CopySound, StillHas
<1> QED BY <1>2, <1>5, <1>6 DEF ModalFile!WritesKept

\* A piece of a save goes from what is left of it into the file.
LEMMA PieceKeeps ==
  ASSUME ModalFile!FileBounds, ModalFileInv, NEW w \in saves, ModalFile!Piece(w)
  PROVE  ModalFile!WritesKept
<1>1. PICK x : x = [w EXCEPT !.n = @ + 1]
  OBVIOUS
<1>2. /\ w \in FileCopy /\ w.data \in Seq(CellNumbers) /\ w.cut /\ w.n \in Nat /\ w.n < Len(w.data)
      /\ saves' = (saves \ {w}) \cup {x}
      /\ file' = Append(IF file = None THEN << >> ELSE file, w.data[w.n + 1])
  BY <1>1 DEF ModalFileInv, CopySound, FileCopy, ModalFile!Piece, ModalFile!Becomes
<1>3. x.cut /\ x.data = w.data /\ x.n = w.n + 1
  BY <1>1, <1>2 DEF FileCopy
<1>4. PICK cell \in CellNumbers : cell = w.data[w.n + 1]
  BY <1>2, FileValues
<1>5. PICK d \in Seq(CellNumbers) : d = (IF file = None THEN << >> ELSE file)
  BY EmptySeq DEF ModalFileInv
<1>6. ModalFile!Values(file) \subseteq ModalFile!Values(d)
  BY <1>5 DEF ModalFile!Values
<1>7. ModalFile!Values(file') = ModalFile!Values(d) \cup ({cell} \ {0})
  BY <1>2, <1>4, <1>5, ValuesAppend
<1>8. ModalFile!Left(w) \subseteq ModalFile!Left(x) \cup ({cell} \ {0})
  <2>1. /\ ModalFile!Left(w) = {w.data[i] : i \in w.n + 1..Len(w.data)} \ {0}
        /\ ModalFile!Left(x) = {w.data[i] : i \in w.n + 1 + 1..Len(w.data)} \ {0}
    BY <1>2, <1>3 DEF ModalFile!Left
  <2>2. \A i \in w.n + 1..Len(w.data) : i = w.n + 1 \/ i \in w.n + 1 + 1..Len(w.data)
    BY <1>2, LenProperties
  <2> QED BY <1>4, <2>1, <2>2
<1>9. x \in saves' /\ \A y \in saves \ saves' : y = w
  BY <1>2
<1> QED BY <1>6, <1>7, <1>8, <1>9, KeptGoes DEF ModalFile!WritesKept

\* A save that is over has nothing left, or nowhere to write it.
LEMMA SavedKeeps ==
  ASSUME ModalFileInv, NEW w \in saves, ModalFile!Saved(w)
  PROVE  ModalFile!WritesKept
<1>1. UNCHANGED <<live, file>> /\ saves' = saves \ {w}
  BY DEF ModalFile!Saved
<1>2. CASE ~live
  BY <1>1, <1>2 DEF ModalFileInv, ModalFile!WritesKept
<1>3. CASE w.cut /\ w.n = Len(w.data)
  <2>1. w.data \in Seq(CellNumbers)
    BY DEF ModalFileInv, CopySound, FileCopy
  <2>2. w.n + 1..Len(w.data) = {}
    BY <1>3, <2>1, LenProperties
  <2>3. ModalFile!Left(w) = {}
    BY <2>2 DEF ModalFile!Left
  <2> QED BY <1>1, <2>3, KeptGoes DEF ModalFile!WritesKept
<1> QED BY <1>2, <1>3 DEF ModalFile!Saved

\* A step of the files: what it may let go.
LEMMA FileStepKeeps ==
  ASSUME ModalFile!FileBounds, ModalFileInv, [ModalFile!Next]_(ModalFile!vars)
  PROVE  ModalFile!WritesKept
<1>1. CASE UNCHANGED ModalFile!vars
  BY <1>1, KeptStays DEF ModalFile!vars
<1>2. ASSUME NEW h \in Handles, NEW r \in PoolReplicas, NEW mode \in Modes,
             ModalFile!Open(h, r, mode)
      PROVE  ModalFile!WritesKept
  BY <1>2, KeptStays DEF ModalFile!Open
<1>3. ASSUME NEW h \in Handles, NEW pos,
             \/ ModalFile!ReadFile(h) \/ ModalFile!ReadFails(h) \/ ModalFile!WriteCell(h)
             \/ ModalFile!Flush(h) \/ ModalFile!Close(h) \/ ModalFile!Seek(h, pos)
      PROVE  ModalFile!WritesKept
  <2>1. UNCHANGED file /\ saves \subseteq saves'
    BY <1>3 DEF ModalFile!ReadFile, ModalFile!ReadFails, ModalFile!WriteCell,
       ModalFile!Flush, ModalFile!Close, ModalFile!Seek
  <2> QED BY <2>1, KeptStays
<1>4. ASSUME NEW h \in Handles, ModalFile!Truncate(h) \/ ModalFile!TruncateFails(h)
      PROVE  ModalFile!WritesKept
  <2>1. handle[h].pc = "cut" /\ handle[h] \in OpenFile
    BY <1>4 DEF ModalFileInv, ModalFile!Truncate, ModalFile!TruncateFails
  <2>2. CASE ModalFile!Ends(h)
    <3>1. handle'[h].pc = "closed"
      BY <2>2 DEF ModalFileInv, ModalFile!Ends, ModalFile!NoMore, ModalFile!NoHandle
    <3> QED BY <2>1, <3>1 DEF ModalFile!WritesKept
  <2>3. CASE handle' = [handle EXCEPT ![h].pc = "open"]
    <3>1. handle'[h].pc = "open"
      BY <2>1, <2>3 DEF ModalFileInv, OpenFile
    <3> QED BY <2>1, <3>1 DEF ModalFile!WritesKept
  <2> QED BY <1>4, <2>2, <2>3 DEF ModalFile!Truncate, ModalFile!TruncateFails
<1>5. CASE ModalFile!GuestWrites
  <2>1. /\ file \in Seq(CellNumbers) /\ writes + 1 \in CellNumbers /\ UNCHANGED saves
        /\ file' = Append(file, writes + 1)
    BY <1>5, Numbers DEF ModalFileInv, ModalFile!GuestWrites, CellNumbers
  <2>2. ModalFile!Values(file) \subseteq ModalFile!Values(file')
    BY <2>1, ValuesAppend
  <2> QED BY <2>1, <2>2, KeptStays
<1>6. CASE ModalFile!DeleteFile \/ ModalFile!Kill
  BY <1>6 DEF ModalFile!DeleteFile, ModalFile!Kill, ModalFile!WritesKept
<1>7. ASSUME NEW w \in saves, ModalFile!Save(w) \/ ModalFile!Piece(w) \/ ModalFile!Saved(w)
      PROVE  ModalFile!WritesKept
  BY <1>7, SaveKeeps, PieceKeeps, SavedKeeps
<1>8. ASSUME NEW w \in saves,
             ModalFile!SaveFails(w) \/ ModalFile!SaveAgain(w) \/ ModalFile!GivesUp(w)
      PROVE  ModalFile!WritesKept
  <2>1. UNCHANGED file /\ faults' # faults
    BY <1>8, FileFault DEF ModalFile!SaveFails, ModalFile!SaveAgain, ModalFile!GivesUp
  <2> QED BY <2>1, KeptStays
<1>9. ASSUME NEW r \in PoolReplicas, ModalFile!Restart(r) PROVE ModalFile!WritesKept
  <2>1. UNCHANGED file /\ faults' # faults
    BY <1>9, FileFault DEF ModalFile!Restart
  <2> QED BY <2>1, KeptStays
<1> QED
  BY <1>1, <1>2, <1>3, <1>4, <1>5, <1>6, <1>7, <1>8, <1>9 DEF ModalFile!Next

\* A cell of plain text that the file has, or is to have of a save under way, goes only with
\* a truncation, a deletion, the sandbox's end, or the save of a handle that wrote over it
\* or was opened before it came - unless the handle's read had failed or met another
\* process's save, or the call fails that was to write the cell.
THEOREM ModalWritesKept ==
  ASSUME ModalFile!FileBounds
  PROVE  ModalFile!Spec => [][ModalFile!WritesKept]_(ModalFile!vars)
<1>1. ModalFileInv /\ [ModalFile!Next]_(ModalFile!vars)
      => [ModalFile!WritesKept]_(ModalFile!vars)
  BY FileStepKeeps
<1> QED BY <1>1, AlwaysModalFileInv, PTL DEF ModalFile!Spec

-----------------------------------------------------------------------------
(* The types of what these components keep *)

\* Faults keep their bound.
LEMMA RoutingFaults ==
  ASSUME faults \in 0..MaxFaults, [Routing!Next]_(Routing!vars) PROVE faults' \in 0..MaxFaults
<1>1. CASE Routing!Fault
  BY <1>1, Numbers DEF Routing!Fault
<1>2. ASSUME ~Routing!Fault
      PROVE  UNCHANGED faults
  <2>1. CASE \E s \in Sandboxes :
               \/ \E g \in Gateways, a \in Addresses : Routing!Create(s, g, a)
               \/ Routing!Serves(s) \/ Routing!Exits(s) \/ Routing!Delete(s) \/ Routing!Refresh(s)
    BY <2>1 DEF Routing!Create, Routing!Serves, Routing!Ends, Routing!Exits, Routing!Delete,
                Routing!Refresh
  <2>2. CASE \E g \in Gateways : Routing!Replace(g)
    BY <2>2 DEF Routing!Replace, Routing!Ends
  <2>3. ASSUME NEW q \in GuestRequests,
               \/ \E s \in Sandboxes, g \in Gateways : Routing!Arrive(q, s, g)
               \/ Routing!Deny(q) \/ Routing!Proxy(q) \/ Routing!Lookup(q) \/ Routing!Failure(q)
               \/ Routing!Inspect(q) \/ Routing!Probe(q) \/ Routing!Forward(q)
               \/ Routing!Direct(q) \/ Routing!Dial(q)
        PROVE  UNCHANGED faults
    BY <1>2, <2>3
    DEF Routing!Arrive, Routing!Deny, Routing!Proxy, Routing!Lookup, Routing!Failure,
        Routing!Inspect, Routing!Probe, Routing!Forward, Routing!Direct, Routing!Dial
  <2>4. ASSUME NEW q \in GuestRequests, Routing!Resolve(q) PROVE UNCHANGED faults
    BY <1>2, <2>4 DEF Routing!Resolve
  <2>5. ASSUME NEW q \in GuestRequests, Routing!Running(q) PROVE UNCHANGED faults
    BY <1>2, <2>5 DEF Routing!Running
  <2>6. ASSUME NEW q \in GuestRequests, Routing!Upstream(q) PROVE UNCHANGED faults
    BY <1>2, <2>6 DEF Routing!Upstream
  <2> QED BY <2>1, <2>2, <2>3, <2>4, <2>5, <2>6 DEF Routing!Next, Routing!vars
<1> QED BY <1>1, <1>2

\* A bootstrap counts its faults.
LEMMA BootFaults ==
  ASSUME faults \in 0..MaxFaults, [Boot!Next]_(Boot!vars) PROVE faults' \in 0..MaxFaults
<1>1. CASE Boot!Fault
  BY <1>1, Numbers DEF Boot!Fault
<1>2. CASE UNCHANGED faults
  BY <1>2
<1> QED
  BY <1>1, <1>2
  DEF Boot!Next, Boot!vars, Boot!Listens, Boot!Dies, Boot!Sees, Boot!Marks, Boot!Create,
      Boot!FirstLook, Boot!Told, Boot!Raises, Boot!Specs, Boot!Gate, Boot!WaitEnvd,
      Boot!WaitAgent, Boot!Daemon, Boot!Bake, Boot!Start, Boot!StartCommand, Boot!Delete

\* What the types of an engine say besides.
HostRest ==
  /\ client \in BOOLEAN /\ runs \in [Names -> 0..2] /\ faults \in 0..MaxFaults
  /\ \A t \in Callers : thread[t].try \in 0..(Tries - 1)

\* What a step of a container host's thread leaves of the rest of its types.
LEMMA HostCounts ==
  ASSUME HostRest, [Host!Next]_(Host!vars)
  PROVE  client' \in BOOLEAN /\ faults' \in 0..MaxFaults
<1>1. client' \in BOOLEAN
  BY ZenonT(60)
  DEF HostRest, Host!Next, Host!vars, Host!Step, Host!Call, Host!Ensure, Host!EnsureFails,
    Host!NoClient, Host!CallFails, Host!Run, Host!RunNotStarted, Host!RunUnanswered, Host!LateRun,
    Host!Clean, Host!CleanFails, Host!Kill, Host!Absent, Host!Remove, Host!Unanswered, Host!Exec,
    Host!ExecUnanswered, Host!Pause, Host!Resume, Host!State, Host!Exit, Host!Prune, Host!Begin,
    Host!Fail, Host!Again
<1>2. faults' \in 0..MaxFaults
  BY Numbers
  DEF HostRest, Host!Next, Host!vars, Host!Step, Host!Call, Host!Ensure, Host!EnsureFails,
    Host!NoClient, Host!CallFails, Host!Run, Host!RunNotStarted, Host!RunUnanswered, Host!LateRun,
    Host!Clean, Host!CleanFails, Host!Kill, Host!Remove, Host!Unanswered, Host!Exec,
    Host!ExecUnanswered, Host!Pause, Host!Resume, Host!State, Host!Exit, Host!Prune, Host!Begin,
    Host!Fault
<1> QED BY <1>1, <1>2

\* Of the runs of a name two are counted.
LEMMA HostRunsCounted ==
  ASSUME HostInv, HostRest, [Host!Next]_(Host!vars) PROVE runs' \in [Names -> 0..2]
<1>1. ASSUME NEW n PROVE [runs EXCEPT ![n] = IF @ < 2 THEN @ + 1 ELSE @] \in [Names -> 0..2]
  <2>1. runs \in [Names -> 0..2]
    BY DEF HostRest
  <2>2. CASE n \in Names
    <3>1. (IF runs[n] < 2 THEN runs[n] + 1 ELSE runs[n]) \in 0..2
      BY <2>1, <2>2
    <3> QED BY <2>1, <3>1
  <2> QED BY <2>1, <2>2
<1> QED
  BY <1>1
  DEF HostRest, Host!Next, Host!vars, Host!Step, Host!Call, Host!Ensure, Host!EnsureFails,
    Host!NoClient, Host!CallFails, Host!Run, Host!RunNotStarted, Host!RunUnanswered, Host!LateRun,
    Host!Clean, Host!CleanFails, Host!Kill, Host!Remove, Host!Unanswered, Host!Exec,
    Host!ExecUnanswered, Host!Pause, Host!Resume, Host!State, Host!Exit, Host!Prune, Host!Begin,
    Host!History, Host!Began

\* A thread has attempts left, or begins anew.
LEMMA HostTries ==
  ASSUME HostInv, HostRest, [Host!Next]_(Host!vars)
  PROVE  \A t \in Callers : thread'[t].try \in 0..(Tries - 1)
<1>1. thread \in [Callers -> HostThread]
  BY DEF HostInv, HostTypes
<1>0. 0 \in 0..(Tries - 1)
  BY Numbers
<1>2. ASSUME NEW t \in Callers, NEW c, thread' = [thread EXCEPT ![t] = c], c.try \in 0..(Tries - 1)
      PROVE  \A u \in Callers : thread'[u].try \in 0..(Tries - 1)
  BY <1>1, <1>2 DEF HostRest
<1>3. ASSUME NEW t \in Callers, NEW pc, Host!Goto(t, pc)
      PROVE  \A u \in Callers : thread'[u].try \in 0..(Tries - 1)
  BY <1>1, <1>3 DEF HostRest, HostThread, Host!Goto
<1>4. ASSUME NEW t \in Callers, Host!End(t)
      PROVE  \A u \in Callers : thread'[u].try \in 0..(Tries - 1)
  BY <1>2, <1>4, <1>0 DEF Host!End, Host!Idle
<1>5. ASSUME NEW t \in Callers, Host!Again(t)
      PROVE  \A u \in Callers : thread'[u].try \in 0..(Tries - 1)
  <2>1. CASE Host!End(t)
    BY <1>4, <2>1
  <2>2. CASE /\ Host!AttemptsLeft(t)
             /\ thread' = [thread EXCEPT ![t].pc = "ensure", ![t].try = @ + 1]
    BY <1>1, <2>2, Numbers DEF HostRest, HostThread, Host!AttemptsLeft
  <2> QED BY <1>5, <2>1, <2>2 DEF Host!Again, Host!Fail
<1>6. ASSUME NEW t \in Callers, NEW op, NEW n, Host!Begin(t, op, n)
      PROVE  \A u \in Callers : thread'[u].try \in 0..(Tries - 1)
  BY <1>2, <1>6, <1>0 DEF Host!Begin
<1> QED
  BY <1>3, <1>4, <1>5, <1>6
  DEF HostRest, Host!Next, Host!vars, Host!Step, Host!Call, Host!Ensure, Host!EnsureFails,
    Host!NoClient, Host!CallFails, Host!Run, Host!RunNotStarted, Host!RunUnanswered, Host!LateRun,
    Host!Clean, Host!CleanFails, Host!Kill, Host!Absent, Host!Remove, Host!Unanswered, Host!Exec,
    Host!ExecUnanswered, Host!Pause, Host!Resume, Host!State, Host!Exit, Host!Prune, Host!Fail

\* What the agents have besides.
AgentRest ==
  /\ single \in [Agents -> BOOLEAN] /\ stop \in [Agents -> BOOLEAN]
  /\ registered \subseteq Agents /\ listed \subseteq Agents /\ killing \in Agents \cup {None}
  /\ sandbox \in BOOLEAN /\ process \in {"up", "stopping", "exited"}

\* The rest of an agent keeps its types.
LEMMA AgentRestStep == ASSUME AgentRest, [Agent!Next]_(Agent!vars) PROVE AgentRest'
BY ZenonT(60)
DEF AgentRest, Agent!Next, Agent!vars, Agent!Spawn, Agent!WriteScript, Agent!WriteFails,
   Agent!StartThread, Agent!SetRunning, Agent!Register, Agent!Thread, Agent!Head,
   Agent!CommandEnds, Agent!CommandRaises, Agent!Sleep, Agent!Mark, Agent!Drop, Agent!Kill,
   Agent!Killed, Agent!ShutdownKill, Agent!Shutdown, Agent!Exit, Agent!DeleteSandbox,
   Agent!LoopOnly, Agent!Stop

\* A request to a guest, containers and routes have their types.
LEMMA RoutingTypesAlways ==
  ASSUME Routing!RouteBounds PROVE Routing!Spec => []Routing!TypeOK
<1>1. Routing!Init => faults \in 0..MaxFaults
  BY Numbers DEF Routing!Init
<1>2. faults \in 0..MaxFaults /\ [Routing!Next]_(Routing!vars) => (faults \in 0..MaxFaults)'
  BY RoutingFaults
<1>3. RouteInv /\ faults \in 0..MaxFaults => Routing!TypeOK
  BY DEF RouteInv, RouteTypes, RouteRow, RouteBox, RouteRequest, Routing!TypeOK
<1> QED BY <1>1, <1>2, <1>3, AlwaysRouteInv, PTL DEF Routing!Spec

\* A guest's bootstrap has its types.
LEMMA BootTypesAlways == Boot!Spec => []Boot!TypeOK
<1>1. Boot!Init => faults \in 0..MaxFaults
  BY Numbers DEF Boot!Init
<1>2. faults \in 0..MaxFaults /\ [Boot!Next]_(Boot!vars) => (faults \in 0..MaxFaults)'
  BY BootFaults
<1>3. BootInv /\ faults \in 0..MaxFaults => Boot!TypeOK
  BY DEF BootInv, BootTypes, Boots, Boot!TypeOK
<1> QED BY <1>1, <1>2, <1>3, AlwaysBootInv, PTL DEF Boot!Spec

\* An engine and the threads that call it have their types.
LEMMA HostTypesAlways == Host!Spec => []Host!TypeOK
<1>1. Host!Init => HostRest
  <2> SUFFICES ASSUME Host!Init PROVE HostRest
    OBVIOUS
  <2>1. \A t \in Callers : thread[t].try = 0
    BY DEF Host!Init, Host!Idle
  <2>2. 0 \in 0..(Tries - 1) /\ 0 \in 0..MaxFaults
    BY Numbers
  <2>3. client \in BOOLEAN /\ runs \in [Names -> 0..2] /\ faults = 0
    BY DEF Host!Init
  <2> QED BY <2>1, <2>2, <2>3 DEF HostRest
<1>2. HostInv /\ HostRest /\ [Host!Next]_(Host!vars) => HostRest'
  BY HostCounts, HostRunsCounted, HostTries DEF HostRest
<1>3. HostInv /\ HostRest => Host!TypeOK
  <2> SUFFICES ASSUME HostInv, HostRest PROVE Host!TypeOK
    OBVIOUS
  <2>1. thread \in [Callers -> [op : Host!Ops \cup {None}, n : Names \cup {None},
                                pc : {"idle", "ensure", "call", "clean", "cleanLost", "remove"},
                                try : 0..(Tries - 1)]]
    <3>1. thread \in [Callers -> HostThread] /\ \A t \in Callers : thread[t].try \in 0..(Tries - 1)
      BY DEF HostInv, HostTypes, HostRest
    <3> QED BY <3>1 DEF HostThread
  <2> QED BY <2>1 DEF HostInv, HostTypes, HostEngine, HostRest, Host!TypeOK
<1> QED BY <1>1, <1>2, <1>3, AlwaysHostInv, PTL DEF Host!Spec

\* Agents and their process have their types.
LEMMA AgentTypesAlways == Agent!Spec => []Agent!TypeOK
<1>1. Agent!Init => AgentRest
  BY DEF Agent!Init, AgentRest
<1>2. AgentInv /\ AgentRest => Agent!TypeOK
  BY DEF AgentInv, AgentTypes, AgentRest, Agent!TypeOK
<1> QED BY <1>1, <1>2, AgentRestStep, AlwaysAgentInv, PTL DEF Agent!Spec

\* The sandbox's row and its editors, and what goes between a terminal's client and its shell.
SshRows ==
  /\ row \in [there : BOOLEAN, tokens : SUBSET Tokens, expired : SUBSET Tokens,
              before : 0..MaxOthers]
  /\ edit \in [Replicas -> [what : {"none", "create", "revoke", "revoke_all"},
                            token : Tokens \cup {None}, seen : SUBSET Tokens]]
  /\ \A r \in Replicas : edit[r].what # "none" => edit[r].token \in Tokens
  /\ edits \in 0..MaxEdits
SshTalk ==
  /\ session.at \in 0..(MaxOthers + 1)
  /\ session.pending \in Seq(1..MaxTyped) /\ session.typed \in 0..MaxTyped
  /\ wire \subseteq Ssh!Requests /\ shell.got \in Seq(Ssh!Requests)

\* The row and its editors keep their types.
LEMMA SshRowsStep == ASSUME SshRows, [Ssh!Next]_(Ssh!vars) PROVE SshRows'
<1>1. ASSUME NEW r \in Replicas, NEW token \in Tokens, NEW what \in {"create", "revoke", "revoke_all"},
             Ssh!Reads(r, what, token)
      PROVE  SshRows'
  <2>1. edits' \in 0..MaxEdits
    BY <1>1, Numbers DEF Ssh!Reads, SshRows
  <2> QED BY <1>1, <2>1 DEF Ssh!Reads, SshRows
<1>2. ASSUME NEW r \in Replicas, Ssh!Saves(r) PROVE SshRows'
  <2>1. PICK e : e = edit[r]
    OBVIOUS
  <2>2. e \in [what : {"none", "create", "revoke", "revoke_all"}, token : Tokens \cup {None},
               seen : SUBSET Tokens] /\ e.what # "none" /\ e.token \in Tokens
    BY <1>2, <2>1 DEF SshRows, Ssh!Saves
  <2>4. Ssh!Records(e) \subseteq Tokens
    BY <2>2 DEF Ssh!Records
  <2> QED BY <1>2, <2>1, <2>4 DEF Ssh!Saves, SshRows, Ssh!NoEdit
<1>3. CASE \E token \in Tokens : Ssh!Expires(token)
  BY <1>3 DEF SshRows, Ssh!Expires
<1>4. CASE \E n \in 0..MaxOthers : Ssh!OtherRows(n)
  BY <1>4 DEF SshRows, Ssh!OtherRows
<1>5. CASE Ssh!Delete
  BY <1>5 DEF SshRows, Ssh!Delete
<1>6. CASE UNCHANGED <<row, edit, edits>>
  BY <1>6 DEF SshRows
<1> QED
  BY <1>1, <1>2, <1>3, <1>4, <1>5, <1>6
  DEF Ssh!Next, Ssh!vars, Ssh!BeginAuth, Ssh!FindByToken, Ssh!Requested, Ssh!Started,
      Ssh!DataReceived, Ssh!Flush, Ssh!Command, Ssh!Connect, Ssh!PumpEnds, Ssh!PumpStops, Ssh!Fails,
      Ssh!ConnectionLost, Ssh!Arrives, Ssh!Misses, Ssh!ShellExits

\* What is taken from a queue, and what stays of it.
LEMMA TakenFrom ==
  ASSUME NEW S, NEW q \in Seq(S), q # << >>
  PROVE  Tail(q) \in Seq(S) /\ Head(q) \in S
OBVIOUS

\* What a shell heard are requests: it hears one more, or hears nothing.
LEMMA ShellHearsMore ==
  ASSUME NEW Q, NEW m \in Q, NEW g \in Seq(Q), NEW st, NEW c, NEW d,
         c = [st |-> st, got |-> g], d = c \/ d = [c EXCEPT !.got = Append(@, m)]
  PROVE  d.got \in Seq(Q)
<1>1. Append(g, m) \in Seq(Q)
  OBVIOUS
<1>2. CASE d = c
  BY <1>2
<1>3. CASE d = [c EXCEPT !.got = Append(@, m)]
  <2>1. d.got = Append(g, m)
    BY <1>3
  <2> QED BY <1>1, <2>1
<1> QED BY <1>2, <1>3

\* So what the shell of a terminal heard stays a queue of requests.
LEMMA ShellHeard ==
  ASSUME ShellTypes, SshTalk, NEW m \in Ssh!Requests,
         \/ shell' = shell
         \/ shell' = [shell EXCEPT !.got = Append(@, m)]
  PROVE  shell'.got \in Seq(Ssh!Requests)
<1>1. PICK g \in Seq(Ssh!Requests) : g = shell.got
  BY DEF SshTalk
<1>2. PICK c : c = shell
  OBVIOUS
<1>3. PICK d : d = shell'
  OBVIOUS
<1>4. PICK Q : Q = Ssh!Requests
  OBVIOUS
<1>5. c = [st |-> c.st, got |-> g]
  BY <1>1, <1>2 DEF ShellTypes
<1>6. d = c \/ d = [c EXCEPT !.got = Append(@, m)]
  BY <1>2, <1>3
<1>7. m \in Q /\ g \in Seq(Q)
  BY <1>1, <1>4
<1>8. d.got \in Seq(Q)
  BY <1>5, <1>6, <1>7, ShellHearsMore
<1> QED BY <1>3, <1>4, <1>8

\* What goes between client and shell keeps its types.
LEMMA SshTalkStep == ASSUME ShellInv, SshRows, SshTalk, [Ssh!Next]_(Ssh!vars) PROVE SshTalk'
<1>1. session \in Sessions /\ ShellTypes
  BY DEF ShellInv, ShellTypes
<1>2. /\ \A m \in 1..MaxTyped : m \in Ssh!Requests
      /\ {Ssh!Start, Ssh!CommandLine, Ssh!Kill} \subseteq Ssh!Requests
  BY DEF Ssh!Requests
<1>3. CASE Ssh!FindByToken
  <2>1. row.before \in 0..MaxOthers
    BY DEF SshRows
  <2>2. session'.at \in 0..(MaxOthers + 1) /\ session'.pending = session.pending
        /\ session'.typed = session.typed
    <3>1. /\ session'.at = IF session.at <= row.before THEN session.at + 1 ELSE session.at
          /\ session'.pending = session.pending /\ session'.typed = session.typed
      BY <1>1, <1>3 DEF Ssh!FindByToken, Sessions
    <3>2. session.at \in 0..(MaxOthers + 1)
      BY DEF SshTalk
    <3> QED BY <2>1, <3>1, <3>2, Numbers
  <2> QED BY <1>3, <2>2 DEF Ssh!FindByToken, SshTalk
<1>4. ASSUME NEW eof \in BOOLEAN, Ssh!DataReceived(eof) PROVE SshTalk'
  <2>1. PICK m : m = session.typed + 1
    OBVIOUS
  <2>2. m \in 1..MaxTyped /\ m \in 0..MaxTyped
    <3>1. session.typed \in 0..MaxTyped /\ session.typed < MaxTyped
      BY <1>4 DEF Ssh!DataReceived, SshTalk
    <3> QED BY <2>1, <3>1, Numbers
  <2>3. Append(session.pending, m) \in Seq(1..MaxTyped)
    BY <2>2 DEF SshTalk
  <2>4. session'.typed = m /\ session'.at = session.at
        /\ session'.pending \in {session.pending, Append(session.pending, m)}
    BY <1>1, <1>4, <2>1 DEF Ssh!DataReceived, Sessions
  <2>5. wire' \subseteq Ssh!Requests
    BY <1>2, <1>4, <2>1, <2>2 DEF Ssh!DataReceived, SshTalk
  <2> QED BY <1>4, <2>2, <2>3, <2>4, <2>5 DEF Ssh!DataReceived, SshTalk
<1>5. CASE Ssh!Flush
  <2>1. CASE session.pending # << >>
    <3>0. PICK q \in Seq(1..MaxTyped) : q = session.pending
      BY DEF SshTalk
    <3>1. Tail(session.pending) \in Seq(1..MaxTyped) /\ Head(session.pending) \in 1..MaxTyped
      <4>1. Tail(q) \in Seq(1..MaxTyped) /\ Head(q) \in 1..MaxTyped
        BY <2>1, <3>0, TakenFrom
      <4> QED BY <3>0, <4>1
    <3>2. session'.typed = session.typed /\ session'.at = session.at
          /\ session'.pending = Tail(session.pending)
      BY <1>1, <1>5, <2>1 DEF Ssh!Flush, Sessions
    <3>3. PICK m \in 1..MaxTyped : m = Head(session.pending)
      BY <3>1
    <3>4. /\ m \in Ssh!Requests
          /\ (shell' = shell \/ shell' = [shell EXCEPT !.got = Append(@, m)])
      BY <1>2, <1>5, <2>1, <3>3 DEF Ssh!Flush, Ssh!Hears
    <3>5. shell'.got \in Seq(Ssh!Requests)
      BY <1>1, <3>4, ShellHeard
    <3> QED BY <1>5, <3>1, <3>2, <3>5 DEF Ssh!Flush, SshTalk
  <2>2. CASE session.pending = << >>
    BY <1>1, <1>5, <2>2 DEF Ssh!Flush, Ssh!Awaited, Sessions, SshTalk
  <2> QED BY <2>1, <2>2
<1>6. CASE Ssh!Command
  <2>0. /\ Ssh!CommandLine \in Ssh!Requests
        /\ (shell' = shell \/ shell' = [shell EXCEPT !.got = Append(@, Ssh!CommandLine)])
    BY <1>2, <1>6 DEF Ssh!Command, Ssh!Hears
  <2>1. shell'.got \in Seq(Ssh!Requests)
    BY <1>1, <2>0, ShellHeard
  <2>2. session'.typed = session.typed /\ session'.at = session.at
        /\ session'.pending = session.pending
    BY <1>1, <1>6 DEF Ssh!Command, Ssh!Awaited, Sessions
  <2> QED BY <1>6, <2>1, <2>2 DEF Ssh!Command, SshTalk
<1>7. ASSUME NEW request \in Ssh!Requests, Ssh!Arrives(request) PROVE SshTalk'
  <2>1. shell = [st |-> shell.st, got |-> shell.got]
    BY DEF ShellInv, ShellTypes
  <2>2. CASE request \in {Ssh!Start, Ssh!Kill}
    <3>1. shell'.got = shell.got
      BY <1>7, <2>1, <2>2 DEF Ssh!Arrives
    <3> QED BY <1>7, <3>1 DEF Ssh!Arrives, SshTalk
  <2>3. CASE request \notin {Ssh!Start, Ssh!Kill}
    <3>1. shell' = shell \/ shell' = [shell EXCEPT !.got = Append(@, request)]
      BY <1>7, <2>3 DEF Ssh!Arrives, Ssh!Hears
    <3>2. shell'.got \in Seq(Ssh!Requests)
      BY <1>1, <3>1, ShellHeard
    <3> QED BY <1>7, <3>2 DEF Ssh!Arrives, SshTalk
  <2> QED BY <2>2, <2>3
<1>8. CASE Ssh!ShellExits \/ Ssh!Delete
  BY <1>8 DEF Ssh!ShellExits, Ssh!Delete, SshTalk, ShellInv, ShellTypes
<1>9. ASSUME session'.typed = session.typed, session'.at = session.at,
             session'.pending = session.pending, wire' \subseteq Ssh!Requests, UNCHANGED shell
      PROVE  SshTalk'
  BY <1>9 DEF SshTalk
<1>10. CASE Ssh!Requested \/ Ssh!ConnectionLost
  <2>1. wire' \subseteq Ssh!Requests
    BY <1>2, <1>10 DEF Ssh!Requested, Ssh!ConnectionLost, Ssh!Kills, SshTalk
  <2>2. session'.typed = session.typed /\ session'.at = session.at
        /\ session'.pending = session.pending /\ UNCHANGED shell
    BY <1>1, <1>10 DEF Ssh!Requested, Ssh!ConnectionLost, Ssh!Awaited, Sessions
  <2> QED BY <1>9, <2>1, <2>2
<1>11. CASE \/ Ssh!Started \/ Ssh!Connect \/ Ssh!PumpEnds \/ Ssh!PumpStops \/ Ssh!Fails
            \/ (\E request \in Ssh!Requests : Ssh!Misses(request))
            \/ (\E token \in Tokens : Ssh!BeginAuth(token))
  BY <1>1, <1>9, <1>11
  DEF Ssh!Started, Ssh!Connect, Ssh!PumpEnds, Ssh!PumpStops, Ssh!Fails, Ssh!Misses, Ssh!BeginAuth,
      Ssh!Awaited, Sessions, SshTalk
<1>12. CASE UNCHANGED <<session, wire, shell>>
  BY <1>12 DEF SshTalk
<1> QED
  BY <1>3, <1>4, <1>5, <1>6, <1>7, <1>8, <1>10, <1>11, <1>12
  DEF Ssh!Next, Ssh!vars, Ssh!Reads, Ssh!Saves, Ssh!Expires, Ssh!OtherRows

\* A terminal over SSH has its types.
LEMMA SshTypesAlways == Ssh!Spec => []Ssh!TypeOK
<1>1. Ssh!Init => SshRows /\ SshTalk
  <2> SUFFICES ASSUME Ssh!Init PROVE SshRows /\ SshTalk
    OBVIOUS
  <2>1. PICK e : e = Ssh!NoEdit
    OBVIOUS
  <2>2. e = [what |-> "none", token |-> None, seen |-> {}] /\ edit = [r \in Replicas |-> e]
    BY <2>1 DEF Ssh!Init, Ssh!NoEdit
  <2>3. SshRows
    <3>1. edit \in [Replicas -> [what : {"none", "create", "revoke", "revoke_all"},
                                token : Tokens \cup {None}, seen : SUBSET Tokens]]
      BY <2>2
    <3>2. \A r \in Replicas : edit[r].what = "none"
      BY <2>2
    <3>3. row \in [there : BOOLEAN, tokens : SUBSET Tokens, expired : SUBSET Tokens,
                  before : 0..MaxOthers]
      BY DEF Ssh!Init
    <3>4. edits \in 0..MaxEdits
      BY Numbers DEF Ssh!Init
    <3> QED BY <3>1, <3>2, <3>3, <3>4 DEF SshRows
  <2>4. << >> \in Seq(1..MaxTyped) /\ << >> \in Seq(Ssh!Requests)
    OBVIOUS
  <2>5. SshTalk
    <3>1. session.at = 0 /\ session.pending = << >> /\ session.typed = 0 /\ wire = {}
          /\ shell.got = << >>
      BY DEF Ssh!Init
    <3>2. 0 \in 0..(MaxOthers + 1) /\ 0 \in 0..MaxTyped
      BY Numbers
    <3> QED BY <2>4, <3>1, <3>2 DEF SshTalk
  <2> QED BY <2>3, <2>5
<1>2. ShellInv /\ SshRows /\ SshTalk /\ [Ssh!Next]_(Ssh!vars) => SshRows' /\ SshTalk'
  BY SshRowsStep, SshTalkStep
<1>3. ShellInv /\ SshRows /\ SshTalk => Ssh!TypeOK
  BY DEF ShellInv, ShellTypes, Sessions, SshPlaces, Waiting, SshRows, SshTalk, Ssh!TypeOK
<1> QED BY <1>1, <1>2, <1>3, AlwaysShellInv, PTL DEF Ssh!Spec

\* The kinds of events, and the most there are when n chunks were read.
Kinds == Envd!AllPipes \cup {"end"}
\* What was read of the pipes is what the history has, and no more than was written.
PipesRead ==
  /\ isPty \in BOOLEAN /\ exited \in BOOLEAN
  /\ written \in [Envd!AllPipes -> 0..MaxChunks] /\ emitted \in [Envd!AllPipes -> 0..MaxChunks]
  /\ shut \in [Envd!AllPipes -> BOOLEAN] /\ reading \in [Envd!AllPipes -> BOOLEAN]
  /\ waiter \in {"process", "reader", "done"}
  /\ \A p \in Envd!AllPipes : emitted[p] <= written[p]
  /\ \A p \in Envd!AllPipes \ Envd!Pipes : ~reading[p] /\ emitted[p] = 0
  /\ Len(history) = emitted["pty"] + emitted["stdout"] + emitted["stderr"]
                    + (IF waiter = "done" THEN 1 ELSE 0)
\* A stream's events are events of the history.
Within(s, n) == \A i \in 1..Len(s) : s[i] \in 1..n
StreamsWithin ==
  \A c \in Streams : /\ upto[c] <= Len(history) /\ joined[c] <= Len(history)
                     /\ Within(sent[c], Len(history)) /\ Within(queue[c], Len(history))

\* No more events than chunks, and the end.
LEMMA EventsBounded ==
  ASSUME Envd!ProcessBounds, PipesRead
  PROVE  Len(history) \in 0..Envd!MaxEvents
<1>1. /\ emitted["pty"] \in 0..MaxChunks /\ emitted["stdout"] \in 0..MaxChunks
      /\ emitted["stderr"] \in 0..MaxChunks
  BY DEF PipesRead, Envd!AllPipes
<1>2. IF isPty THEN emitted["stdout"] = 0 /\ emitted["stderr"] = 0 ELSE emitted["pty"] = 0
  BY DEF PipesRead, Envd!AllPipes, Envd!Pipes
<1>3. Len(history) = emitted["pty"] + emitted["stdout"] + emitted["stderr"]
                    + (IF waiter = "done" THEN 1 ELSE 0)
  BY DEF PipesRead
<1> QED BY <1>1, <1>2, <1>3 DEF Envd!ProcessBounds, Envd!MaxEvents

\* What an event adds to the history.
LEMMA OneMoreEvent ==
  ASSUME StreamInv, NEW what \in Kinds, Envd!Emit(what)
  PROVE  Len(history') = Len(history) + 1
<1>1. PICK s \in Seq(Kinds) : s = history
  BY DEF StreamInv, Kinds
<1>2. history' = Append(s, what)
  BY <1>1 DEF Envd!Emit
<1>3. Len(Append(s, what)) = Len(s) + 1
  BY <1>1
<1> QED BY <1>1, <1>2, <1>3

\* The pipes are read as far as they were written.
LEMMA PipesReadStep ==
  ASSUME Envd!ProcessBounds, StreamInv, PipesRead, [Envd!Next]_(Envd!vars)
  PROVE  PipesRead'
<1>0. Envd!Pipes \subseteq Envd!AllPipes /\ Envd!AllPipes = {"pty", "stdout", "stderr"}
      /\ Envd!AllPipes \subseteq Kinds /\ "end" \in Kinds
  BY DEF Envd!Pipes, Envd!AllPipes, Kinds
<1>1. ASSUME NEW p \in Envd!AllPipes, Envd!Write(p) PROVE PipesRead'
  <2>1. /\ written[p] \in 0..MaxChunks /\ written[p] < MaxChunks
        /\ written' = [written EXCEPT ![p] = written[p] + 1]
        /\ UNCHANGED <<isPty, shut, emitted, reading, exited, waiter, history>>
    BY <1>1 DEF Envd!Write, PipesRead
  <2>2. written[p] + 1 \in 0..MaxChunks
    BY <2>1 DEF Envd!ProcessBounds
  <2>3. written' \in [Envd!AllPipes -> 0..MaxChunks]
    BY <2>1, <2>2 DEF PipesRead
  <2>4. \A q \in Envd!AllPipes : emitted'[q] <= written'[q]
    <3> SUFFICES ASSUME NEW q \in Envd!AllPipes PROVE emitted'[q] <= written'[q]
      OBVIOUS
    <3>1. written[q] \in 0..MaxChunks /\ emitted[q] \in 0..MaxChunks /\ emitted[q] <= written[q]
      BY DEF PipesRead
    <3>2. written'[q] = IF q = p THEN written[p] + 1 ELSE written[q]
      BY <2>1 DEF PipesRead
    <3> QED BY <2>1, <3>1, <3>2
  <2> QED BY <2>1, <2>3, <2>4 DEF PipesRead, Envd!Pipes
<1>2. ASSUME NEW p \in Envd!AllPipes, Envd!Shut(p) PROVE PipesRead'
  BY <1>2 DEF Envd!Shut, PipesRead, Envd!Pipes
<1>3. CASE Envd!Exit
  BY <1>3 DEF Envd!Exit, PipesRead, Envd!Pipes
<1>4. ASSUME NEW p \in Envd!AllPipes, Envd!ReadEnds(p) PROVE PipesRead'
  <2>1. reading' = [reading EXCEPT ![p] = FALSE]
        /\ UNCHANGED <<isPty, written, shut, emitted, exited, waiter, history>>
    BY <1>4 DEF Envd!ReadEnds
  <2>2. reading' \in [Envd!AllPipes -> BOOLEAN]
        /\ \A q \in Envd!AllPipes : ~reading[q] => ~reading'[q]
    BY <2>1 DEF PipesRead
  <2> QED BY <2>1, <2>2 DEF PipesRead, Envd!Pipes
<1>5. ASSUME NEW p \in Envd!AllPipes, Envd!ReadChunk(p) PROVE PipesRead'
  <2>1. /\ reading[p] /\ emitted[p] < written[p]
        /\ emitted' = [emitted EXCEPT ![p] = emitted[p] + 1]
        /\ UNCHANGED <<isPty, written, shut, reading, exited, waiter>>
        /\ Len(history') = Len(history) + 1
    BY <1>0, <1>5, OneMoreEvent DEF Envd!ReadChunk
  <2>2. p \in Envd!Pipes /\ emitted[p] \in 0..MaxChunks /\ written[p] \in 0..MaxChunks
    BY <2>1 DEF PipesRead
  <2>3. emitted[p] + 1 \in 0..MaxChunks /\ emitted[p] + 1 <= written[p]
    BY <2>1, <2>2 DEF Envd!ProcessBounds
  <2>4. emitted' \in [Envd!AllPipes -> 0..MaxChunks]
        /\ \A q \in Envd!AllPipes : emitted'[q] = IF q = p THEN emitted[p] + 1 ELSE emitted[q]
    BY <2>1, <2>3 DEF PipesRead
  <2>5. \A q \in Envd!AllPipes : emitted'[q] <= written'[q]
    BY <2>1, <2>3, <2>4 DEF PipesRead
  <2>6. \A q \in Envd!AllPipes \ Envd!Pipes' : ~reading'[q] /\ emitted'[q] = 0
    BY <2>1, <2>2, <2>4 DEF PipesRead, Envd!Pipes
  <2>7. emitted'["pty"] + emitted'["stdout"] + emitted'["stderr"] =
          emitted["pty"] + emitted["stdout"] + emitted["stderr"] + 1
    <3>1. /\ emitted["pty"] \in 0..MaxChunks /\ emitted["stdout"] \in 0..MaxChunks
          /\ emitted["stderr"] \in 0..MaxChunks
      BY <1>0 DEF PipesRead
    <3>2. \/ /\ emitted'["pty"] = emitted["pty"] + 1 /\ emitted'["stdout"] = emitted["stdout"]
             /\ emitted'["stderr"] = emitted["stderr"]
          \/ /\ emitted'["pty"] = emitted["pty"] /\ emitted'["stdout"] = emitted["stdout"] + 1
             /\ emitted'["stderr"] = emitted["stderr"]
          \/ /\ emitted'["pty"] = emitted["pty"] /\ emitted'["stdout"] = emitted["stdout"]
             /\ emitted'["stderr"] = emitted["stderr"] + 1
      BY <1>0, <2>4
    <3> QED BY <3>1, <3>2
  <2>8. /\ emitted["pty"] \in Nat /\ emitted["stdout"] \in Nat /\ emitted["stderr"] \in Nat
        /\ Len(history) = emitted["pty"] + emitted["stdout"] + emitted["stderr"]
                          + (IF waiter = "done" THEN 1 ELSE 0)
    BY <1>0 DEF PipesRead
  <2>9. Len(history') = emitted'["pty"] + emitted'["stdout"] + emitted'["stderr"]
                        + (IF waiter' = "done" THEN 1 ELSE 0)
    BY <2>1, <2>7, <2>8
  <2> QED BY <2>1, <2>4, <2>5, <2>6, <2>9 DEF PipesRead
<1>6. CASE Envd!WaitProcess \/ Envd!WaitReader
  <2>1. /\ UNCHANGED <<isPty, written, shut, emitted, reading, exited>> /\ waiter # "done"
        /\ \/ waiter' = "reader" /\ UNCHANGED history
           \/ waiter' = "done" /\ Len(history') = Len(history) + 1
    BY <1>0, <1>6, OneMoreEvent DEF Envd!WaitProcess, Envd!WaitReader
  <2>2. /\ emitted["pty"] \in Nat /\ emitted["stdout"] \in Nat /\ emitted["stderr"] \in Nat
        /\ Len(history) = emitted["pty"] + emitted["stdout"] + emitted["stderr"]
    BY <1>0, <2>1 DEF PipesRead
  <2>3. Len(history') = emitted'["pty"] + emitted'["stdout"] + emitted'["stderr"]
                        + (IF waiter' = "done" THEN 1 ELSE 0)
    BY <2>1, <2>2
  <2> QED BY <2>1, <2>3 DEF PipesRead, Envd!Pipes
<1>7. CASE UNCHANGED <<Envd!procVars, history>>
  BY <1>7 DEF PipesRead, Envd!procVars, Envd!Pipes
<1> QED
  BY <1>1, <1>2, <1>3, <1>4, <1>5, <1>6, <1>7
  DEF Envd!Next, Envd!vars, Envd!Open, Envd!Replay, Envd!Follow, Envd!Leave

\* One more event of a stream, and a longer history.
LEMMA WithinMore ==
  ASSUME NEW s \in Seq(Nat), NEW n \in Nat, Within(s, n), NEW m \in Nat, n <= m
  PROVE  /\ Within(s, m)
         /\ \A e \in 1..m : Within(Append(s, e), m)
         /\ s # << >> => Within(Tail(s), m) /\ Head(s) \in 1..n
<1>1. Len(s) \in Nat /\ \A i \in 1..Len(s) : s[i] \in 1..n
  BY DEF Within
<1>2. Within(s, m)
  BY <1>1 DEF Within
<1>3. ASSUME NEW e \in 1..m PROVE Within(Append(s, e), m)
  <2>1. e \in Nat
    OBVIOUS
  <2>2. Len(Append(s, e)) = Len(s) + 1 /\ Append(s, e)[Len(s) + 1] = e
        /\ \A i \in 1..Len(s) : Append(s, e)[i] = s[i]
    BY <2>1, AppendOne
  <2> QED BY <1>1, <1>2, <2>2 DEF Within
<1>4. ASSUME s # << >> PROVE Within(Tail(s), m) /\ Head(s) \in 1..n
  <2>1. Len(s) >= 1 /\ Head(s) = s[1] /\ Len(Tail(s)) = Len(s) - 1
        /\ \A i \in 1..(Len(s) - 1) : Tail(s)[i] = s[i + 1]
    BY <1>4
  <2> QED BY <1>1, <1>2, <2>1 DEF Within
<1> QED BY <1>2, <1>3, <1>4

\* Streams get what the history has.
LEMMA StreamsWithinStep ==
  ASSUME StreamInv, StreamsWithin, [Envd!Next]_(Envd!vars)
  PROVE  StreamsWithin'
<1>0. PICK n \in Nat : n = Len(history)
  BY DEF StreamInv
<1>1. /\ sent \in [Streams -> Seq(Nat)] /\ queue \in [Streams -> Seq(Nat)]
      /\ upto \in [Streams -> Nat] /\ joined \in [Streams -> Nat] /\ at \in [Streams -> StreamStates]
      /\ \A c \in Streams : /\ sent[c] \in Seq(Nat) /\ queue[c] \in Seq(Nat) /\ upto[c] <= n
                            /\ joined[c] <= n /\ Within(sent[c], n) /\ Within(queue[c], n)
  BY <1>0 DEF StreamInv, StreamsWithin
<1>2. \A m : Within(<< >>, m)
  BY DEF Within
<1>3. ASSUME NEW what \in Kinds, Envd!Emit(what), UNCHANGED Envd!streamVars PROVE StreamsWithin'
  <2>1. PICK m \in Nat : m = n + 1
    OBVIOUS
  <2>2. Len(history') = m
    BY <1>0, <1>3, <2>1, OneMoreEvent
  <2>3. ASSUME NEW c \in Streams
        PROVE  upto[c] <= m /\ joined[c] <= m /\ Within(sent[c], m) /\ Within(queue'[c], m)
    <3>1. n <= m /\ m \in 1..m
      BY <2>1
    <3>2. Within(sent[c], m) /\ Within(queue[c], m)
      BY <1>1, <3>1, WithinMore
    <3>3. Within(Append(queue[c], m), m)
      BY <1>1, <3>1, WithinMore
    <3>4. queue'[c] = queue[c] \/ queue'[c] = Append(queue[c], m)
      BY <1>3, <2>2 DEF Envd!Emit
    <3>5. upto[c] <= m /\ joined[c] <= m
      <4>1. upto[c] \in Nat /\ joined[c] \in Nat /\ upto[c] <= n /\ joined[c] <= n
        BY <1>1
      <4> QED BY <2>1, <4>1
    <3>6. Within(queue'[c], m)
      BY <3>2, <3>3, <3>4
    <3> QED BY <3>2, <3>5, <3>6
  <2> QED BY <1>3, <2>2, <2>3 DEF StreamsWithin, Envd!streamVars
<1>4. ASSUME NEW c \in Streams, Envd!Replay(c) PROVE StreamsWithin'
  <2>1. PICK u : u = Envd!ReplayedUpto(c)
    OBVIOUS
  <2>2. u \in Nat /\ u <= n
    BY <1>0, <1>1, <2>1 DEF Envd!ReplayedUpto
  <2>3. PICK e : e = Len(sent[c]) + 1
    OBVIOUS
  <2>4. Len(sent[c]) \in Nat
    BY <1>1
  <2>5. /\ UNCHANGED <<history, queue>> /\ upto' = [upto EXCEPT ![c] = u]
        /\ \/ Len(sent[c]) < u /\ sent' = [sent EXCEPT ![c] = Append(sent[c], e)]
              /\ UNCHANGED joined
           \/ joined' = [joined EXCEPT ![c] = n] /\ UNCHANGED sent
    BY <1>0, <1>4, <2>1, <2>3 DEF Envd!Replay, Envd!Yield, Envd!Subscribe
  <2>6. Len(sent[c]) < u => Within(Append(sent[c], e), n)
    <3> SUFFICES ASSUME Len(sent[c]) < u PROVE Within(Append(sent[c], e), n)
      OBVIOUS
    <3>1. e \in 1..n
      BY <2>2, <2>3, <2>4
    <3> QED BY <1>1, <3>1, WithinMore
  <2>7. ASSUME NEW d \in Streams
        PROVE  upto'[d] <= n /\ joined'[d] <= n /\ Within(sent'[d], n) /\ Within(queue[d], n)
    <3>1. upto'[d] = IF d = c THEN u ELSE upto[d]
      BY <1>1, <2>5
    <3>2. joined'[d] = n \/ joined'[d] = joined[d]
      BY <1>1, <2>5
    <3>3. sent'[d] = sent[d] \/ (d = c /\ Len(sent[c]) < u /\ sent'[d] = Append(sent[c], e))
      BY <1>1, <2>5
    <3>4. upto'[d] <= n /\ joined'[d] <= n
      BY <1>1, <2>2, <3>1, <3>2
    <3>5. Within(sent'[d], n)
      BY <1>1, <2>6, <3>3
    <3> QED BY <1>1, <3>4, <3>5
  <2> QED BY <1>0, <2>5, <2>7 DEF StreamsWithin
<1>5. ASSUME NEW c \in Streams, Envd!Follow(c) PROVE StreamsWithin'
  <2>1. PICK q \in Seq(Nat) : q = queue[c]
    BY <1>1
  <2>2. q # << >> /\ Within(q, n)
    BY <1>1, <1>5, <2>1 DEF Envd!Follow
  <2>3. Within(Tail(q), n) /\ Head(q) \in 1..n
    BY <2>2, WithinMore
  <2>4. Within(Append(sent[c], Head(q)), n)
    BY <1>1, <2>3, WithinMore
  <2>5. /\ UNCHANGED <<history, upto, joined>>
        /\ sent' = [sent EXCEPT ![c] = Append(sent[c], Head(q))]
        /\ \/ queue' = [queue EXCEPT ![c] = << >>]
           \/ queue' = [queue EXCEPT ![c] = Tail(q)]
    BY <1>1, <1>5, <2>1 DEF Envd!Follow, Envd!Yield
  <2>6. ASSUME NEW d \in Streams PROVE Within(sent'[d], n) /\ Within(queue'[d], n)
    <3>1. sent'[d] = IF d = c THEN Append(sent[c], Head(q)) ELSE sent[d]
      BY <1>1, <2>5
    <3>2. queue'[d] = queue[d] \/ queue'[d] = << >> \/ queue'[d] = Tail(q)
      BY <1>1, <2>5
    <3> QED BY <1>1, <1>2, <2>3, <2>4, <3>1, <3>2
  <2> QED BY <1>0, <1>1, <2>5, <2>6 DEF StreamsWithin
<1>6. ASSUME NEW c \in Streams, Envd!Open(c) \/ Envd!Leave(c) PROVE StreamsWithin'
  <2>1. UNCHANGED <<history, upto, joined, sent>>
        /\ (queue' = queue \/ queue' = [queue EXCEPT ![c] = << >>])
    BY <1>6 DEF Envd!Open, Envd!Leave
  <2>2. \A d \in Streams : queue'[d] = queue[d] \/ queue'[d] = << >>
    BY <1>1, <2>1
  <2> QED BY <1>0, <1>1, <1>2, <2>1, <2>2 DEF StreamsWithin
<1>7. CASE UNCHANGED <<history, upto, joined, sent, queue>>
  BY <1>7 DEF StreamsWithin
<1>8. CASE Envd!WaitProcess \/ Envd!WaitReader \/ \E p \in Envd!AllPipes : Envd!ReadChunk(p)
  <2>1. UNCHANGED Envd!streamVars
        /\ ((\E what \in Kinds : Envd!Emit(what)) \/ UNCHANGED <<history, queue>>)
    BY <1>8 DEF Envd!WaitProcess, Envd!WaitReader, Envd!ReadChunk, Kinds
  <2>2. CASE UNCHANGED <<history, queue>>
    BY <1>7, <2>1, <2>2 DEF Envd!streamVars
  <2> QED BY <1>3, <2>1, <2>2
<1> QED
  BY <1>4, <1>5, <1>6, <1>7, <1>8
  DEF Envd!Next, Envd!vars, Envd!streamVars, Envd!Exit, Envd!Write, Envd!Shut, Envd!ReadEnds

\* A process and its streams have their types.
LEMMA EnvdTypesAlways ==
  ASSUME Envd!ProcessBounds PROVE Envd!Spec => []Envd!TypeOK
<1>1. Envd!Init => PipesRead /\ StreamsWithin
  <2> SUFFICES ASSUME Envd!Init PROVE PipesRead /\ StreamsWithin
    OBVIOUS
  <2>1. Len(<< >>) = 0
    OBVIOUS
  <2>2. PipesRead
    <3>1. /\ isPty \in BOOLEAN /\ exited = FALSE /\ waiter = "process" /\ history = << >>
          /\ written = [p \in Envd!AllPipes |-> 0] /\ emitted = [p \in Envd!AllPipes |-> 0]
          /\ shut = [p \in Envd!AllPipes |-> FALSE]
          /\ reading = [p \in Envd!AllPipes |-> p \in Envd!Pipes]
      BY DEF Envd!Init
    <3>2. 0 \in 0..MaxChunks
      BY DEF Envd!ProcessBounds
    <3>3. /\ written \in [Envd!AllPipes -> 0..MaxChunks]
          /\ emitted \in [Envd!AllPipes -> 0..MaxChunks]
          /\ shut \in [Envd!AllPipes -> BOOLEAN]
      BY <3>1, <3>2
    <3>4. reading \in [Envd!AllPipes -> BOOLEAN]
      <4>1. \A p \in Envd!AllPipes : (p \in Envd!Pipes) \in BOOLEAN
        OBVIOUS
      <4> QED BY <3>1, <4>1, Zenon
    <3>7. \A p \in Envd!AllPipes \ Envd!Pipes : ~reading[p]
      BY <3>1, Zenon
    <3>5. \A p \in Envd!AllPipes : emitted[p] = 0 /\ written[p] = 0
      BY <3>1
    <3>6. Len(history) = emitted["pty"] + emitted["stdout"] + emitted["stderr"]
                         + (IF waiter = "done" THEN 1 ELSE 0)
      BY <2>1, <3>1, <3>5 DEF Envd!AllPipes
    <3>8. \A p \in Envd!AllPipes : emitted[p] <= written[p]
      BY <3>5
    <3> QED BY <3>1, <3>3, <3>4, <3>5, <3>6, <3>7, <3>8 DEF PipesRead
  <2>3. StreamsWithin
    BY <2>1 DEF Envd!Init, StreamsWithin, Within
  <2> QED BY <2>2, <2>3
<1>2. StreamInv /\ PipesRead /\ StreamsWithin /\ [Envd!Next]_(Envd!vars) =>
        PipesRead' /\ StreamsWithin'
  BY PipesReadStep, StreamsWithinStep
<1>3. StreamInv /\ PipesRead /\ StreamsWithin => Envd!TypeOK
  <2> SUFFICES ASSUME StreamInv, PipesRead, StreamsWithin PROVE Envd!TypeOK
    OBVIOUS
  <2>1. Len(history) \in 0..Envd!MaxEvents
    BY EventsBounded
  <2>2. Envd!MaxEvents \in Nat
    BY DEF Envd!ProcessBounds, Envd!MaxEvents
  <2>3. ASSUME NEW s \in Seq(Nat), Within(s, Len(history)) PROVE s \in Seq(Envd!Positions)
    <3>1. \A i \in 1..Len(s) : s[i] \in Envd!Positions
      BY <2>1, <2>2, <2>3 DEF Within, Envd!Positions
    <3>2. Len(s) \in Nat /\ s = [i \in 1..Len(s) |-> s[i]]
      OBVIOUS
    <3> QED BY <3>1, <3>2
  <2>4. ASSUME NEW c \in Streams
        PROVE  /\ sent[c] \in Seq(Envd!Positions) /\ queue[c] \in Seq(Envd!Positions)
               /\ upto[c] \in 0..Envd!MaxEvents /\ joined[c] \in 0..Envd!MaxEvents
    <3>1. /\ sent[c] \in Seq(Nat) /\ queue[c] \in Seq(Nat) /\ upto[c] \in Nat /\ joined[c] \in Nat
          /\ Within(sent[c], Len(history)) /\ Within(queue[c], Len(history))
          /\ upto[c] <= Len(history) /\ joined[c] <= Len(history)
      BY DEF StreamInv, StreamsWithin
    <3>2. upto[c] \in 0..Envd!MaxEvents /\ joined[c] \in 0..Envd!MaxEvents
      BY <2>1, <2>2, <3>1
    <3> QED BY <2>3, <3>1, <3>2
  <2>5. /\ upto \in [Streams -> 0..Envd!MaxEvents] /\ joined \in [Streams -> 0..Envd!MaxEvents]
        /\ sent \in [Streams -> Seq(Envd!Positions)]
        /\ queue \in [Streams -> Seq(Envd!Positions)]
    BY <2>4 DEF StreamInv
  <2> QED BY <2>1, <2>5 DEF StreamInv, StreamStates, PipesRead, Envd!TypeOK
<1> QED BY <1>1, <1>2, <1>3, AlwaysStreamInv, PTL DEF Envd!Spec

\* What is under way to the guest and to the client.
Asked == 1..MaxAsked \cup Bridge!Codes
Told == 1..MaxSent \cup Bridge!Codes
LinksOf(S) == [Bridge!Links -> Seq(S)]
BridgeLinks == up \in LinksOf(Asked) /\ down \in LinksOf(Told)
\* Attempts of the hops, and what the two ends count.
BridgeHops ==
  \A h \in Bridge!Chain : hop[h].tries \in 0..Tries /\ (Connecting(h) => hop[h].tries < Tries)
BridgeEnds ==
  /\ client.sent \in 0..MaxAsked /\ client.got \in 0..MaxSent
  /\ guest.sent \in 0..MaxSent /\ guest.heard \in 0..MaxAsked
  /\ guest.end \in {Bridge!Open, Bridge!Left} \cup Bridge!Codes /\ faults \in 0..FewFaults

\* What stays of a link's packets when one is taken and another one put on a link.
LEMMA PacketsPut ==
  ASSUME NEW S, NEW q \in LinksOf(S), NEW i \in Bridge!Links, NEW x \in S
  PROVE  Bridge!Put(q, i, x) \in LinksOf(S)
<1>1. Append(q[i], x) \in Seq(S)
  BY DEF LinksOf
<1> QED BY <1>1 DEF LinksOf, Bridge!Put

\* A packet that is taken is one, and what stays are packets.
LEMMA PacketsTook ==
  ASSUME NEW S, NEW q \in LinksOf(S), NEW i \in Bridge!Links, q[i] # << >>
  PROVE  Bridge!Took(q, i) \in LinksOf(S) /\ Head(q[i]) \in S
<1>1. PICK s \in Seq(S) : s = q[i]
  BY DEF LinksOf
<1>2. Tail(s) \in Seq(S) /\ Head(s) \in S
  BY <1>1
<1>3. Tail(q[i]) \in Seq(S) /\ Head(q[i]) \in S
  BY <1>1, <1>2
<1> QED BY <1>3 DEF LinksOf, Bridge!Took

\* A packet is taken from one link and another one put on a link.
LEMMA PacketsMove ==
  ASSUME NEW S, NEW q \in LinksOf(S), NEW i \in Bridge!Links, q[i] # << >>,
         NEW j \in Bridge!Links, NEW x \in S
  PROVE  Bridge!Put(Bridge!Took(q, i), j, x) \in LinksOf(S)
<1>1. PICK t \in LinksOf(S) : t = Bridge!Took(q, i)
  BY PacketsTook
<1>2. Bridge!Put(t, j, x) \in LinksOf(S)
  BY PacketsPut
<1> QED BY <1>1, <1>2

\* Packets of the one direction are packets.
LEMMA PacketsAre ==
  ASSUME NEW S, NEW T, S \subseteq T, NEW s \in Seq(S)
  PROVE  s \in Seq(T)
<1>1. Len(s) \in Nat /\ s = [i \in 1..Len(s) |-> s[i]] /\ \A i \in 1..Len(s) : s[i] \in S
  OBVIOUS
<1> QED BY <1>1

\* Codes travel both ways.
LEMMA CodesTravel ==
  /\ Bridge!Normal \in Asked \cap Told /\ Bridge!InternalError \in Told
  /\ Bridge!Abnormal \in Asked \cap Told /\ Bridge!Codes \subseteq Asked \cap Told
BY DEF Asked, Told, Bridge!Codes, Bridge!Normal, Bridge!InternalError, Bridge!Abnormal

\* What is under way stays packets.
LEMMA BridgeLinksStep ==
  ASSUME Bridge!BridgeBounds, BridgeTypes, BridgeLinks, BridgeEnds, [Bridge!Next]_(Bridge!vars)
  PROVE  BridgeLinks'
<1>0. /\ up \in LinksOf(Asked) /\ down \in LinksOf(Told)
      /\ \A h \in Bridge!Chain : h \in Bridge!Links /\ h + 1 \in Bridge!Links
      /\ 1 \in Bridge!Links /\ Hops + 1 \in Bridge!Links /\ Hops \in Bridge!Chain
      /\ 1 \in Bridge!Chain
  BY ChainPlaces DEF BridgeLinks
<1>1. ASSUME UNCHANGED <<up, down>> PROVE BridgeLinks'
  BY <1>1 DEF BridgeLinks
<1>2. ASSUME NEW h \in Bridge!Chain, Bridge!AttemptFails(h) PROVE BridgeLinks'
  <2>1. << >> \in Seq(Asked) /\ << >> \in Seq(Told)
    OBVIOUS
  <2>2. up' \in LinksOf(Asked)
    BY <1>0, <1>2, <2>1 DEF Bridge!AttemptFails, LinksOf
  <2>3. down' \in LinksOf(Told)
    BY <1>0, <1>2, <2>1 DEF Bridge!AttemptFails, LinksOf
  <2> QED BY <2>2, <2>3 DEF BridgeLinks
<1>3. ASSUME NEW h \in Bridge!Chain, Bridge!Outward(h) PROVE BridgeLinks'
  <2>1. up[h] # << >> /\ h \in Bridge!Links /\ h + 1 \in Bridge!Links /\ down' = down
        /\ (up' = Bridge!Took(up, h) \/ up' = Bridge!Put(Bridge!Took(up, h), h + 1, Head(up[h])))
    BY <1>0, <1>3 DEF Bridge!Outward
  <2>2. Bridge!Took(up, h) \in LinksOf(Asked) /\ Head(up[h]) \in Asked
    BY <1>0, <2>1, PacketsTook
  <2>3. Bridge!Put(Bridge!Took(up, h), h + 1, Head(up[h])) \in LinksOf(Asked)
    BY <1>0, <2>1, <2>2, PacketsMove
  <2> QED BY <1>0, <2>1, <2>2, <2>3 DEF BridgeLinks
<1>4. ASSUME NEW h \in Bridge!Chain, Bridge!Disconnected(h) PROVE BridgeLinks'
  <2>1. up[h] # << >> /\ h \in Bridge!Links /\ h + 1 \in Bridge!Links /\ down' = down
        /\ (up' = Bridge!Took(up, h) \/ up' = Bridge!Put(Bridge!Took(up, h), h + 1, Bridge!Normal))
    BY <1>0, <1>4 DEF Bridge!Disconnected
  <2>2. Bridge!Took(up, h) \in LinksOf(Asked)
    BY <1>0, <2>1, PacketsTook
  <2>3. Bridge!Put(Bridge!Took(up, h), h + 1, Bridge!Normal) \in LinksOf(Asked)
    BY <1>0, <2>1, CodesTravel, PacketsMove
  <2> QED BY <1>0, <2>1, <2>2, <2>3 DEF BridgeLinks
<1>5. ASSUME NEW h \in Bridge!Chain, Bridge!Inward(h) \/ Bridge!UpstreamEnds(h) PROVE BridgeLinks'
  <2>1. PICK k : k = h + 1
    OBVIOUS
  <2>2. down[k] # << >> /\ h \in Bridge!Links /\ k \in Bridge!Links /\ up' = up
        /\ \/ down' = Bridge!Took(down, k)
           \/ down' = Bridge!Put(Bridge!Took(down, k), h, Head(down[k]))
           \/ down' = Bridge!Put(Bridge!Took(down, k), h, Bridge!Normal)
    BY <1>0, <1>5, <2>1 DEF Bridge!Inward, Bridge!UpstreamEnds, Bridge!Received
  <2>3. Bridge!Took(down, k) \in LinksOf(Told) /\ Head(down[k]) \in Told
    BY <1>0, <2>2, PacketsTook
  <2>4. Bridge!Put(Bridge!Took(down, k), h, Head(down[k])) \in LinksOf(Told)
    BY <1>0, <2>2, <2>3, PacketsMove
  <2>5. Bridge!Put(Bridge!Took(down, k), h, Bridge!Normal) \in LinksOf(Told)
    BY <1>0, <2>2, CodesTravel, PacketsMove
  <2> QED BY <1>0, <2>2, <2>3, <2>4, <2>5 DEF BridgeLinks
<1>6. ASSUME NEW h \in Bridge!Chain, Bridge!Finish(h) PROVE BridgeLinks'
  <2>1. Bridge!Put(up, h + 1, Bridge!Normal) \in LinksOf(Asked)
        /\ Bridge!Put(down, h, Bridge!InternalError) \in LinksOf(Told)
    BY <1>0, CodesTravel, PacketsPut
  <2> QED BY <1>0, <1>6, <2>1 DEF Bridge!Finish, BridgeLinks
<1>7. ASSUME NEW i \in Bridge!Links, Bridge!Break(i) PROVE BridgeLinks'
  <2>1. PICK x : x = Bridge!Abnormal
    OBVIOUS
  <2>2. x \in Asked /\ x \in Told
    BY <2>1, CodesTravel
  <2>3. <<x>> \in Seq(Asked) /\ <<x>> \in Seq(Told)
    BY <2>2
  <2>4. up' = [up EXCEPT ![i] = <<x>>] /\ down' = [down EXCEPT ![i] = <<x>>]
    BY <1>7, <2>1 DEF Bridge!Break
  <2> QED BY <1>0, <2>3, <2>4 DEF BridgeLinks, LinksOf
<1>8. CASE Bridge!ClientSends
  <2>1. client.sent + 1 \in Asked
    BY <1>8, Numbers DEF BridgeEnds, Bridge!ClientSends, Asked
  <2>2. Bridge!Put(up, 1, client.sent + 1) \in LinksOf(Asked)
    BY <1>0, <2>1, PacketsPut
  <2> QED BY <1>0, <1>8, <2>2 DEF Bridge!ClientSends, BridgeLinks
<1>9. CASE Bridge!GuestSends
  <2>1. guest.sent + 1 \in Told
    BY <1>9, Numbers DEF BridgeEnds, Bridge!GuestSends, Told
  <2>2. Bridge!Put(down, Hops + 1, guest.sent + 1) \in LinksOf(Told)
    BY <1>0, <2>1, PacketsPut
  <2> QED BY <1>0, <1>9, <2>2 DEF Bridge!GuestSends, BridgeLinks
<1>10. CASE Bridge!ClientLeaves \/ Bridge!ClientReceives
  <2>1. Bridge!Put(up, 1, Bridge!Normal) \in LinksOf(Asked)
    BY <1>0, CodesTravel, PacketsPut
  <2>2. down[1] # << >> => Bridge!Took(down, 1) \in LinksOf(Told)
    BY <1>0, PacketsTook
  <2> QED BY <1>0, <1>10, <2>1, <2>2 DEF Bridge!ClientLeaves, Bridge!ClientReceives, BridgeLinks
<1>11. CASE Bridge!GuestCloses \/ Bridge!GuestHears
  <2>1. Bridge!Put(down, Hops + 1, Bridge!Normal) \in LinksOf(Told)
    BY <1>0, CodesTravel, PacketsPut
  <2>2. up[Hops + 1] # << >> => Bridge!Took(up, Hops + 1) \in LinksOf(Asked)
    BY <1>0, PacketsTook
  <2> QED BY <1>0, <1>11, <2>1, <2>2 DEF Bridge!GuestCloses, Bridge!GuestHears, BridgeLinks
<1>12. CASE (\E h \in Bridge!Chain : Bridge!Dial(h) \/ Bridge!Accept(h) \/ Bridge!Closed(h))
            \/ UNCHANGED Bridge!vars
  BY <1>1, <1>12 DEF Bridge!Dial, Bridge!Accept, Bridge!Closed, Bridge!vars
<1> QED
  BY <1>2, <1>3, <1>4, <1>5, <1>6, <1>7, <1>8, <1>9, <1>10, <1>11, <1>12 DEF Bridge!Next

\* One hop moves on and stays connected, or was not connecting.
LEMMA HopMoves ==
  ASSUME BridgeTypes, BridgeHops, NEW k \in Bridge!Chain, NEW r \in HopStates,
         hop' = [hop EXCEPT ![k] = r], r.tries = hop[k].tries,
         r.pc \in {"idle", "connect"} => Connecting(k)
  PROVE  BridgeHops'
<1>1. hop'[k] = r /\ \A h \in Bridge!Chain \ {k} : hop'[h] = hop[h]
  BY DEF BridgeTypes
<1> QED BY <1>1 DEF BridgeHops, Connecting

\* The attempts are counted.
LEMMA BridgeHopsStep ==
  ASSUME Bridge!BridgeBounds, BridgeTypes, BridgeHops, [Bridge!Next]_(Bridge!vars)
  PROVE  BridgeHops'
<1>1. ASSUME NEW h \in Bridge!Chain, Bridge!Dial(h) PROVE BridgeHops'
  <2>1. PICK k : k = h + 1
    OBVIOUS
  <2>2. k \in Bridge!Chain
    BY <1>1, <2>1 DEF Bridge!Dial, Bridge!Chain, Bridge!BridgeBounds
  <2>3. PICK r : r = [hop[k] EXCEPT !.pc = "connect"]
    OBVIOUS
  <2>4. r \in HopStates /\ r.tries = hop[k].tries /\ hop[k].pc = "idle"
        /\ hop' = [hop EXCEPT ![k] = r]
    BY <1>1, <2>1, <2>2, <2>3 DEF Bridge!Dial, HopStates, BridgeTypes
  <2> QED BY <2>2, <2>4, HopMoves DEF Connecting
<1>2. ASSUME NEW h \in Bridge!Chain, Bridge!AttemptFails(h) PROVE BridgeHops'
  <2>1. Bridge!Still.tries = 0 /\ hop[h] \in HopStates
    BY DEF Bridge!Still, BridgeTypes
  <2>2. PICK n : n = hop[h].tries
    OBVIOUS
  <2>3. n \in 0..Tries /\ n < Tries /\ hop[h].pc = "connect"
    BY <1>2, <2>2 DEF Bridge!AttemptFails, BridgeHops, Connecting
  <2>4. n + 1 \in 0..Tries /\ (n + 1 < Tries \/ n + 1 >= Tries)
    BY <2>3, Numbers
  <2>5. ASSUME NEW g \in Bridge!Chain
        PROVE  hop'[g].tries \in 0..Tries
               /\ (hop'[g].pc \in {"idle", "connect"} => hop'[g].tries < Tries)
    <3>1. hop'[g] = IF g > h THEN Bridge!Still
                    ELSE IF g = h THEN [hop[h] EXCEPT !.tries = @ + 1,
                                         !.pc = IF @ = "connect" /\ hop[h].tries + 1 >= Tries
                                                THEN "ended" ELSE @]
                    ELSE hop[g]
      BY <1>2 DEF Bridge!AttemptFails
    <3>2. CASE g > h
      BY <2>1, <3>1, <3>2, Numbers
    <3>3. CASE g = h /\ ~(g > h)
      <4>1. hop'[g] = [hop[h] EXCEPT !.tries = n + 1,
                         !.pc = IF n + 1 >= Tries THEN "ended" ELSE "connect"]
        BY <2>2, <2>3, <3>1, <3>3
      <4>2. hop'[g].tries = n + 1 /\ (n + 1 >= Tries => hop'[g].pc = "ended")
        BY <2>1, <4>1 DEF HopStates
      <4> QED BY <2>4, <4>2
    <3>4. CASE g # h /\ ~(g > h)
      BY <3>1, <3>4 DEF BridgeHops, Connecting
    <3> QED BY <3>2, <3>3, <3>4
  <2> QED BY <2>5 DEF BridgeHops, Connecting
<1>3. ASSUME NEW h \in Bridge!Chain,
             \/ Bridge!Accept(h) \/ Bridge!Outward(h) \/ Bridge!Inward(h)
             \/ Bridge!UpstreamEnds(h) \/ Bridge!Closed(h) \/ Bridge!Finish(h)
      PROVE  BridgeHops'
  <2>1. PICK c \in HopStates : c = hop[h]
    BY DEF BridgeTypes
  <2>2. \/ hop' = hop
        \/ \E pc \in {"pump", "ended"}, out, back \in {"run", "closing", "done"},
              left, failed \in BOOLEAN :
             hop' = [hop EXCEPT ![h] = [pc |-> pc, tries |-> c.tries, out |-> out, back |-> back,
                                        left |-> left, failed |-> failed]]
    <3>1. hop = [hop EXCEPT ![h] = c] /\ hop \in [Bridge!Chain -> HopStates]
      BY <2>1 DEF BridgeTypes
    <3>2. c = [pc |-> c.pc, tries |-> c.tries, out |-> c.out, back |-> c.back, left |-> c.left,
               failed |-> c.failed]
          /\ c.out \in {"run", "closing", "done"} /\ c.back \in {"run", "closing", "done"}
          /\ c.left \in BOOLEAN /\ c.failed \in BOOLEAN
      BY DEF HopStates
    <3>3. CASE Bridge!Accept(h)
      <4>1. hop' = [hop EXCEPT ![h] = [pc |-> "pump", tries |-> c.tries, out |-> c.out,
                                      back |-> c.back, left |-> c.left, failed |-> c.failed]]
        <5>1. hop' = [hop EXCEPT ![h] = [c EXCEPT !.pc = "pump"]]
          BY <2>1, <3>1, <3>3 DEF Bridge!Accept
        <5>2. [c EXCEPT !.pc = "pump"] =
                [pc |-> "pump", tries |-> c.tries, out |-> c.out, back |-> c.back,
                 left |-> c.left, failed |-> c.failed]
          BY <3>2
        <5> QED BY <5>1, <5>2
      <4> QED BY <3>2, <4>1, ZenonT(60)
    <3>4. CASE Bridge!Outward(h)
      BY <2>1, <3>1, <3>2, <3>4 DEF Bridge!Outward, Bridge!Pumping
    <3>6. CASE Bridge!Inward(h) \/ Bridge!UpstreamEnds(h)
      BY <2>1, <3>1, <3>2, <3>6 DEF Bridge!Inward, Bridge!UpstreamEnds, Bridge!Pumping
    <3>7. CASE Bridge!Closed(h) \/ Bridge!Finish(h)
      BY <2>1, <3>1, <3>2, <3>7 DEF Bridge!Closed, Bridge!Finish, Bridge!Pumping
    <3> QED BY <1>3, <3>3, <3>4, <3>6, <3>7
  <2>3. CASE hop' = hop
    BY <2>3 DEF BridgeHops, Connecting
  <2>4. ASSUME NEW pc \in {"pump", "ended"}, NEW out \in {"run", "closing", "done"},
               NEW back \in {"run", "closing", "done"}, NEW left \in BOOLEAN, NEW failed \in BOOLEAN,
               hop' = [hop EXCEPT ![h] = [pc |-> pc, tries |-> c.tries, out |-> out,
                                          back |-> back, left |-> left, failed |-> failed]]
        PROVE  BridgeHops'
    <3>1. PICK r : r = [pc |-> pc, tries |-> c.tries, out |-> out, back |-> back, left |-> left,
                        failed |-> failed]
      OBVIOUS
    <3>2. r \in HopStates /\ r.tries = hop[h].tries /\ r.pc \notin {"idle", "connect"}
      BY <2>1, <2>4, <3>1 DEF HopStates
    <3> QED BY <2>4, <3>1, <3>2, HopMoves
  <2> QED BY <2>2, <2>3, <2>4
<1>4. ASSUME NEW h \in Bridge!Chain, Bridge!Disconnected(h) PROVE BridgeHops'
  <2>1. PICK c \in HopStates : c = hop[h]
    BY DEF BridgeTypes
  <2>2. PICK r : r = [c EXCEPT !.out = "closing", !.left = TRUE]
    OBVIOUS
  <2>3. r \in HopStates /\ r.tries = c.tries /\ r.pc = c.pc
    BY <2>2 DEF HopStates
  <2>4. hop' = [hop EXCEPT ![h] = r] /\ c.pc = "pump"
    BY <1>4, <2>1, <2>2 DEF Bridge!Disconnected, Bridge!Pumping, BridgeTypes
  <2> QED BY <2>1, <2>3, <2>4, HopMoves
<1>5. CASE UNCHANGED hop
  BY <1>5 DEF BridgeHops, Connecting
<1> QED
  BY <1>1, <1>2, <1>3, <1>4, <1>5
  DEF Bridge!Next, Bridge!vars, Bridge!Break, Bridge!ClientSends, Bridge!ClientLeaves,
      Bridge!ClientReceives, Bridge!GuestSends, Bridge!GuestCloses, Bridge!GuestHears

\* A fault is counted.
LEMMA BridgeFaults ==
  ASSUME [Bridge!Next]_(Bridge!vars) PROVE Bridge!Fault \/ UNCHANGED faults
BY DEF Bridge!Next, Bridge!vars, Bridge!Break, Bridge!ClientSends, Bridge!ClientLeaves,
       Bridge!ClientReceives, Bridge!GuestSends, Bridge!GuestCloses, Bridge!GuestHears, Bridge!Dial,
       Bridge!Accept, Bridge!AttemptFails, Bridge!Outward, Bridge!Disconnected, Bridge!Inward,
       Bridge!UpstreamEnds, Bridge!Closed, Bridge!Finish

\* What the two ends count.
LEMMA BridgeEndsStep ==
  ASSUME Bridge!BridgeBounds, BridgeTypes, BridgeLinks, BridgeEnds, [Bridge!Next]_(Bridge!vars)
  PROVE  BridgeEnds'
<1>0. /\ up \in LinksOf(Asked) /\ down \in LinksOf(Told)
      /\ 1 \in Bridge!Links /\ Hops + 1 \in Bridge!Links
  BY ChainPlaces DEF BridgeLinks
<1>1. faults' \in 0..FewFaults
  BY BridgeFaults, Numbers DEF Bridge!Fault, BridgeEnds
<1>2. /\ client = [sent |-> client.sent, got |-> client.got, end |-> client.end]
      /\ guest = [sent |-> guest.sent, heard |-> guest.heard, end |-> guest.end]
  BY DEF BridgeTypes
<1>3. client'.sent \in 0..MaxAsked /\ client'.got \in 0..MaxSent
  <2>1. CASE Bridge!ClientSends
    <3>1. client'.sent = client.sent + 1 /\ client'.got = client.got /\ client.sent < MaxAsked
      BY <1>2, <2>1 DEF Bridge!ClientSends
    <3> QED BY <3>1, Numbers DEF BridgeEnds
  <2>2. CASE Bridge!ClientReceives
    <3>1. Head(down[1]) \in Told
      BY <1>0, <2>2, PacketsTook DEF Bridge!ClientReceives
    <3>2. client'.sent = client.sent /\ client'.got \in {client.got} \cup (Told \ Bridge!Codes)
      BY <1>2, <2>2, <3>1 DEF Bridge!ClientReceives
    <3> QED BY <3>2, Numbers DEF BridgeEnds, Told
  <2>3. CASE Bridge!ClientLeaves \/ \E h \in Bridge!Chain : Bridge!AttemptFails(h)
    BY <1>2, <2>3 DEF Bridge!ClientLeaves, Bridge!AttemptFails, BridgeEnds
  <2>4. CASE UNCHANGED client
    BY <2>4 DEF BridgeEnds
  <2> QED
    BY <2>1, <2>2, <2>3, <2>4
    DEF Bridge!Next, Bridge!vars, Bridge!Break, Bridge!GuestSends, Bridge!GuestCloses,
        Bridge!GuestHears, Bridge!Dial, Bridge!Accept, Bridge!Outward, Bridge!Disconnected,
        Bridge!Inward, Bridge!UpstreamEnds, Bridge!Closed, Bridge!Finish
<1>4. /\ guest'.sent \in 0..MaxSent /\ guest'.heard \in 0..MaxAsked
      /\ guest'.end \in {Bridge!Open, Bridge!Left} \cup Bridge!Codes
  <2>1. CASE Bridge!GuestSends
    <3>1. guest'.sent = guest.sent + 1 /\ guest'.heard = guest.heard /\ guest'.end = guest.end
          /\ guest.sent < MaxSent
      BY <1>2, <2>1 DEF Bridge!GuestSends
    <3> QED BY <3>1, Numbers DEF BridgeEnds
  <2>2. CASE Bridge!GuestHears
    <3>1. PICK x \in Asked : x = Head(up[Hops + 1])
      BY <1>0, <2>2, PacketsTook DEF Bridge!GuestHears
    <3>2. CASE x \in Bridge!Codes
      <4>1. guest' = [guest EXCEPT !.end = x]
        BY <2>2, <3>1, <3>2 DEF Bridge!GuestHears
      <4> QED BY <1>2, <3>2, <4>1 DEF BridgeEnds
    <3>3. CASE x \notin Bridge!Codes
      <4>1. guest' = [guest EXCEPT !.heard = x]
        BY <2>2, <3>1, <3>3 DEF Bridge!GuestHears
      <4>2. x \in 0..MaxAsked
        BY <3>3, Numbers DEF Asked
      <4> QED BY <1>2, <4>1, <4>2 DEF BridgeEnds
    <3> QED BY <3>2, <3>3
  <2>3. CASE Bridge!GuestCloses
    BY <1>2, <2>3 DEF Bridge!GuestCloses, BridgeEnds
  <2>4. CASE \E h \in Bridge!Chain : Bridge!AttemptFails(h)
    <3>1. guest' = [sent |-> 0, heard |-> 0, end |-> Bridge!Open]
      BY <2>4 DEF Bridge!AttemptFails, Bridge!NewEnd
    <3> QED BY <3>1, Numbers
  <2>5. CASE UNCHANGED guest
    BY <2>5 DEF BridgeEnds
  <2> QED
    BY <2>1, <2>2, <2>3, <2>4, <2>5
    DEF Bridge!Next, Bridge!vars, Bridge!Break, Bridge!ClientSends, Bridge!ClientLeaves,
        Bridge!ClientReceives, Bridge!Dial, Bridge!Accept, Bridge!Outward, Bridge!Disconnected,
        Bridge!Inward, Bridge!UpstreamEnds, Bridge!Closed, Bridge!Finish
<1> QED BY <1>1, <1>3, <1>4 DEF BridgeEnds

\* A bridge has its types.
LEMMA BridgeTypesAlways ==
  ASSUME Bridge!BridgeBounds PROVE Bridge!Spec => []Bridge!TypeOK
<1>1. Bridge!Init => BridgeLinks /\ BridgeHops /\ BridgeEnds
  <2> SUFFICES ASSUME Bridge!Init PROVE BridgeLinks /\ BridgeHops /\ BridgeEnds
    OBVIOUS
  <2>1. << >> \in Seq(Asked) /\ << >> \in Seq(Told)
    OBVIOUS
  <2>2. BridgeLinks
    BY <2>1 DEF Bridge!Init, BridgeLinks, LinksOf
  <2>3. BridgeHops
    <3>1. \A h \in Bridge!Chain : hop[h].tries = 0
      BY DEF Bridge!Init, Bridge!Still
    <3> QED BY <3>1, Numbers DEF BridgeHops
  <2>4. BridgeEnds
    BY Numbers DEF Bridge!Init, Bridge!NewEnd, BridgeEnds
  <2> QED BY <2>2, <2>3, <2>4
<1>2. BridgeInv /\ BridgeLinks /\ BridgeHops /\ BridgeEnds /\ [Bridge!Next]_(Bridge!vars) =>
        BridgeLinks' /\ BridgeHops' /\ BridgeEnds'
  BY BridgeLinksStep, BridgeHopsStep, BridgeEndsStep DEF BridgeInv
<1>3. BridgeInv /\ BridgeLinks /\ BridgeHops /\ BridgeEnds => Bridge!TypeOK
  <2> SUFFICES ASSUME BridgeInv, BridgeLinks, BridgeHops, BridgeEnds PROVE Bridge!TypeOK
    OBVIOUS
  <2>1. Asked \subseteq Bridge!Packets /\ Told \subseteq Bridge!Packets
    BY Numbers DEF Asked, Told, Bridge!Packets
  <2>2. ASSUME NEW i \in Bridge!Links
        PROVE  up[i] \in Seq(Bridge!Packets) /\ down[i] \in Seq(Bridge!Packets)
    <3>1. up[i] \in Seq(Asked) /\ down[i] \in Seq(Told)
      BY DEF BridgeLinks, LinksOf
    <3> QED BY <2>1, <3>1, PacketsAre
  <2>3. hop \in [Bridge!Chain ->
                   [pc : {"idle", "connect", "pump", "ended"}, tries : 0..Tries,
                    out : {"run", "closing", "done"}, back : {"run", "closing", "done"},
                    left : BOOLEAN, failed : BOOLEAN]]
    <3>1. hop \in [Bridge!Chain -> HopStates] /\ \A h \in Bridge!Chain : hop[h].tries \in 0..Tries
      BY DEF BridgeInv, BridgeTypes, BridgeHops
    <3> QED BY <3>1 DEF HopStates
  <2>4. shut \in [Bridge!Links -> SUBSET {"near", "far"}]
        /\ client.end \in {Bridge!Open, Bridge!Left, Bridge!Refused} \cup Bridge!Codes
    BY DEF BridgeInv, BridgeTypes, ClientEnds
  <2> QED BY <2>2, <2>3, <2>4 DEF Bridge!TypeOK, BridgeEnds
<1> QED BY <1>1, <1>2, <1>3, AlwaysBridgeInv, PTL DEF Bridge!Spec

\* The watcher's snapshot and what it is still to tell, and the counts.
FilesTyped ==
  /\ watching \in {"nothing", "all", "top", "dir"}
  /\ seen \in [Files!Paths -> {0, 1, None}]
  /\ changed \subseteq Files!Paths /\ hidden \subseteq Files!Paths
  /\ faults \in 0..FewFaults /\ ops \in 0..MaxOps

\* Faults and operations keep their bounds.
LEMMA FilesCounts ==
  ASSUME FilesTyped, [Files!Next]_(Files!vars) PROVE faults' \in 0..FewFaults /\ ops' \in 0..MaxOps
<1>1. Files!Fault \/ UNCHANGED faults
  BY DEF Files!Next, Files!vars, Files!Begin, Files!ReadFile, Files!MakeParent, Files!MakeParentFails,
     Files!Cut, Files!CutFails, Files!AppendPiece, Files!AppendFails, Files!AppendTwice,
     Files!AppendTimesOut, Files!WriteWhole, Files!Verify, Files!Unanswered, Files!LateAppend,
     Files!Remove, Files!SetMode, Files!Move, Files!Mkdir, Files!PutOuter, Files!Operation,
     Files!Watch, Files!Poll, Files!PollLost, Files!Polled, Files!Unwatch
<1>2. (ops < MaxOps /\ ops' = ops + 1) \/ UNCHANGED ops
  BY DEF Files!Next, Files!vars, Files!Begin, Files!ReadFile, Files!MakeParent, Files!MakeParentFails,
     Files!Cut, Files!CutFails, Files!AppendPiece, Files!AppendFails, Files!AppendTwice,
     Files!AppendTimesOut, Files!WriteWhole, Files!Verify, Files!Unanswered, Files!LateAppend,
     Files!Remove, Files!SetMode, Files!Move, Files!Mkdir, Files!PutOuter, Files!Operation,
     Files!Watch, Files!Poll, Files!PollLost, Files!Polled, Files!Unwatch
<1>3. faults' \in 0..FewFaults
  BY <1>1, Numbers DEF FilesTyped, Files!Fault
<1>4. ops' \in 0..MaxOps
  BY <1>2, Numbers DEF FilesTyped
<1> QED BY <1>3, <1>4

\* What changes are paths.
LEMMA FilesChanged ==
  ASSUME FilesTyped, [Files!Next]_(Files!vars) PROVE changed' \subseteq Files!Paths
<1>1. ASSUME NEW new, NEW paths \in SUBSET Files!Paths, Files!Becomes(new, paths)
      PROVE  changed' \subseteq Files!Paths
  <2>1. Files!Changes(new) \subseteq Files!Paths
    BY ThePaths DEF Files!Changes
  <2> QED BY <1>1, <2>1 DEF Files!Becomes, FilesTyped
<1>2. ASSUME NEW p \in Files!Paths, NEW pieces, Files!Write(p, pieces) PROVE changed' \subseteq Files!Paths
  BY <1>1, <1>2 DEF Files!Write
<1>3. Files!MakeDir => changed' \subseteq Files!Paths
  BY <1>1 DEF Files!MakeDir
<1>4. Files!TreeSame => changed' \subseteq Files!Paths
  BY DEF Files!TreeSame, FilesTyped
<1>5. ASSUME NEW from, NEW to \in {Files!Inner, Files!Outer}, Files!Move(from, to)
      PROVE  changed' \subseteq Files!Paths
  BY <1>1, <1>5, ThePaths DEF Files!Move
<1>6. ASSUME NEW p, Files!Remove(p) \/ Files!SetMode(p) PROVE changed' \subseteq Files!Paths
  BY <1>1, <1>6 DEF Files!Remove, Files!SetMode, FilesTyped
<1>7. CASE \/ (\E what : Files!Watch(what)) \/ Files!Poll \/ Files!PollLost \/ Files!Unwatch
           \/ UNCHANGED Files!vars
  BY <1>7 DEF Files!Watch, Files!Poll, Files!PollLost, Files!Polled, Files!Unwatch, Files!vars, FilesTyped
<1>8. ASSUME NEW w \in Writers,
             \/ \E op : Files!Begin(w, op)
             \/ Files!ReadFile(w) \/ Files!MakeParent(w) \/ Files!MakeParentFails(w) \/ Files!Cut(w)
             \/ Files!CutFails(w) \/ Files!AppendPiece(w) \/ Files!AppendFails(w)
             \/ Files!AppendTwice(w) \/ Files!AppendTimesOut(w) \/ Files!WriteWhole(w)
             \/ Files!Verify(w) \/ Files!Unanswered(w)
      PROVE  changed' \subseteq Files!Paths
  BY <1>2, <1>3, <1>4, <1>8, ThePaths
  DEF Files!Begin, Files!ReadFile, Files!MakeParent, Files!MakeParentFails, Files!Cut, Files!CutFails,
      Files!AppendPiece, Files!AppendFails, Files!AppendTwice, Files!AppendTimesOut,
      Files!WriteWhole, Files!Verify, Files!Unanswered
<1>9. ASSUME NEW x, Files!LateAppend(x) PROVE changed' \subseteq Files!Paths
  BY <1>2, <1>4, <1>9, ThePaths DEF Files!LateAppend
<1>10. CASE Files!Mkdir \/ Files!PutOuter
  BY <1>2, <1>3, <1>10, ThePaths DEF Files!Mkdir, Files!PutOuter
<1> QED BY <1>5, <1>6, <1>7, <1>8, <1>9, <1>10 DEF Files!Next

\* What the watcher sees of the tree, and tells.
LEMMA FilesLooks ==
  ASSUME FilesInv, FilesTyped, [Files!Next]_(Files!vars)
  PROVE  /\ watching' \in {"nothing", "all", "top", "dir"}
         /\ seen' \in [Files!Paths -> {0, 1, None}] /\ hidden' \subseteq Files!Paths
<1>1. ASSUME NEW ps PROVE Files!Snapshot(ps) \in [Files!Paths -> {0, 1, None}]
  BY DEF Files!Snapshot, FilesInv, FilesTree, Files!There, Files!Contents
<1>2. /\ Files!Created \subseteq Files!Paths /\ Files!Removed \subseteq Files!Paths
      /\ Files!Written \subseteq Files!Paths /\ Files!Chmodded \subseteq Files!Paths
  BY DEF Files!Created, Files!Removed, Files!Written, Files!Chmodded, Files!Both
<1>3. CASE Files!Poll \/ Files!PollLost
  BY <1>1, <1>2, <1>3 DEF Files!Poll, Files!PollLost, Files!Polled, FilesTyped
<1>4. ASSUME NEW what \in {"all", "top", "dir"}, Files!Watch(what)
      PROVE  /\ watching' \in {"nothing", "all", "top", "dir"}
             /\ seen' \in [Files!Paths -> {0, 1, None}] /\ hidden' \subseteq Files!Paths
  BY <1>1, <1>4 DEF Files!Watch
<1>5. CASE Files!Unwatch
  BY <1>5 DEF Files!Unwatch
<1>6. CASE UNCHANGED Files!watchVars
  BY <1>6 DEF Files!watchVars, FilesTyped
<1> QED
  BY <1>3, <1>4, <1>5, <1>6
  DEF Files!Next, Files!vars, Files!Begin, Files!ReadFile, Files!MakeParent, Files!MakeParentFails,
     Files!Cut, Files!CutFails, Files!AppendPiece, Files!AppendFails, Files!AppendTwice,
     Files!AppendTimesOut, Files!WriteWhole, Files!Verify, Files!Unanswered, Files!LateAppend,
     Files!Remove, Files!SetMode, Files!Move, Files!Mkdir, Files!PutOuter, Files!Operation, Files!watchVars

\* The files of a guest have their types.
LEMMA FilesTypesAlways == ASSUME Files!FilesBounds PROVE Files!Spec => []Files!TypeOK
<1>1. Files!Init => FilesTyped
  BY Numbers DEF Files!Init, FilesTyped
<1>2. FilesInv /\ FilesTyped /\ [Files!Next]_(Files!vars) => FilesTyped'
  BY FilesCounts, FilesChanged, FilesLooks DEF FilesTyped
<1>3. FilesInv /\ FilesTyped => Files!TypeOK
  <2> SUFFICES ASSUME FilesInv, FilesTyped PROVE Files!TypeOK
    OBVIOUS
  <2>1. ASSUME NEW p \in Files!Paths, tree[p] # None
        PROVE  tree[p].pieces \in Seq(Files!Piece \cup {<<None, 1>>}) /\ tree[p].mode \in {0, 1}
    BY <2>1 DEF FilesInv, FilesTree, Files!Contents
  <2>2. ASSUME NEW w \in Writers
        PROVE  /\ writer[w].pc \in {"idle", "read", "mkdir", "cut", "append", "whole", "verify", "done"}
               /\ writer[w].op \in {"upload", "write", "replace", None} /\ writer[w].i \in {1, 2}
               /\ writer[w].answer \in {"none", "ok", "failed"}
               /\ writer[w].overlap \in BOOLEAN /\ writer[w].unnoticed \in BOOLEAN
    BY DEF FilesInv, FilesWriters, Writing
  <2> QED BY <2>1, <2>2 DEF FilesInv, FilesTree, FilesWriters, FilesTyped, Files!TypeOK
<1> QED BY <1>1, <1>2, <1>3, AlwaysFilesInv, PTL DEF Files!Spec

\* What a run counts of the settings, snapshots and faults.
ModalCounts == sets \in 0..MaxSets /\ faults \in 0..FewFaults

\* Settings and faults are counted.
LEMMA ModalCountsStep ==
  ASSUME ModalCounts, [Modal!Next]_(Modal!vars) PROVE ModalCounts'
<1>1. CASE Modal!Fault
  BY <1>1, Numbers
  DEF ModalCounts, Modal!Fault, Modal!Next, Modal!vars, Modal!Create, Modal!TagsSet,
      Modal!MergeTags, Modal!MergeFails, Modal!Terminate, Modal!Kill, Modal!KillFails,
      Modal!Terminated, Modal!RouterAccess, Modal!ExecStart, Modal!ExecEnds, Modal!Restart,
      Modal!Snapshot, Modal!Committed, Modal!CommitFails
<1>2. CASE UNCHANGED faults
  BY <1>2, Numbers
  DEF ModalCounts, Modal!Next, Modal!vars, Modal!Create, Modal!TagsSet,
      Modal!MergeTags, Modal!MergeFails, Modal!Terminate, Modal!Kill, Modal!KillFails,
      Modal!Terminated, Modal!RouterAccess, Modal!ExecStart, Modal!ExecEnds, Modal!Restart,
      Modal!Snapshot, Modal!Committed, Modal!CommitFails
<1> QED
  BY <1>1, <1>2
  DEF Modal!Next, Modal!vars, Modal!Create, Modal!TagsSet,
      Modal!MergeTags, Modal!MergeFails, Modal!Terminate, Modal!Kill, Modal!KillFails,
      Modal!Terminated, Modal!RouterAccess, Modal!ExecStart, Modal!ExecEnds, Modal!Restart,
      Modal!Snapshot, Modal!Committed, Modal!CommitFails

\* The sandbox of a Modal client has its types.
LEMMA ModalTypesAlways == ASSUME Modal!ModalBounds PROVE Modal!Spec => []Modal!TypeOK
<1>1. Modal!Init => ModalCounts
  BY Numbers DEF Modal!Init, ModalCounts
<1>2. ModalCounts /\ [Modal!Next]_(Modal!vars) => ModalCounts'
  BY ModalCountsStep
<1>3. ModalInv /\ ModalCounts => Modal!TypeOK
  BY DEF ModalInv, ModalTypes, ModalCounts, Modal!TypeOK, Memories
<1> QED BY <1>1, <1>2, <1>3, AlwaysModalInv, PTL DEF Modal!Spec

\* The types of the files, always.
LEMMA ModalFileTypesAlways ==
  ASSUME ModalFile!FileBounds PROVE ModalFile!Spec => []ModalFile!TypeOK
<1>1. ModalFileInv => ModalFile!TypeOK
  <2> SUFFICES ASSUME ModalFileInv PROVE ModalFile!TypeOK
    OBVIOUS
  <2>1. file = None \/ ModalFile!Values(file) \subseteq 1..MaxWrites
    BY FileValues DEF ModalFileInv, Written
  <2>2. ASSUME NEW h \in Handles
        PROVE  /\ handle[h].pc \in {"none", "read", "cut", "open", "closed"}
               /\ handle[h].at \in PoolReplicas \cup {None} /\ handle[h].mode \in Modes \cup {None}
               /\ ModalFile!Values(handle[h].data) \cup handle[h].saw \cup handle[h].over
                    \subseteq 1..MaxWrites
               /\ handle[h].pos \in 0..Len(handle[h].data) /\ handle[h].blind \in BOOLEAN
    <3>1. handle[h] \in OpenFile /\ handle[h].pos <= Len(handle[h].data)
      BY DEF ModalFileInv, OpenSound
    <3>2. handle[h].data \in Seq(CellNumbers) /\ handle[h].pos \in Nat
      BY <3>1 DEF OpenFile
    <3>3. /\ ModalFile!Values(handle[h].data) \subseteq Written
          /\ handle[h].pos \in 0..Len(handle[h].data)
      BY <3>1, <3>2, FileValues, LenProperties
    <3> QED BY <3>1, <3>3 DEF OpenFile, Written
  <2>3. ASSUME NEW w \in saves
        PROVE  /\ w.at \in PoolReplicas \cup {None} /\ ModalFile!Values(w.data) \subseteq 1..MaxWrites
               /\ w.cut \in BOOLEAN /\ w.again \in BOOLEAN /\ w.n \in 0..Len(w.data)
    <3>1. w \in FileCopy /\ w.n <= Len(w.data)
      BY DEF ModalFileInv, CopySound
    <3>2. w.data \in Seq(CellNumbers) /\ w.n \in Nat
      BY <3>1 DEF FileCopy
    <3>3. ModalFile!Values(w.data) \subseteq Written /\ w.n \in 0..Len(w.data)
      BY <3>1, <3>2, FileValues, LenProperties
    <3> QED BY <3>1, <3>3 DEF FileCopy, Written
  <2> QED BY <2>1, <2>2, <2>3 DEF ModalFile!TypeOK, ModalFileInv
<1> QED BY <1>1, AlwaysModalFileInv, PTL
=============================================================================
