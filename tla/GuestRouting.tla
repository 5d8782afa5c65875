---------------------------- MODULE GuestRouting ----------------------------
(***************************************************************************)
(* How a request finds the guest of its sandbox.  Any gateway may get it,  *)
(* from the ingress or from the api-service's proxy.  The gateway asks the *)
(* api-service for the route; a gateway that does not own the sandbox      *)
(* hands the request to the one that does, which asks again; the owner     *)
(* dials the address of the container on its own bridge.                   *)
(*                                                                         *)
(* Bridge addresses are given out anew when a container ends, and the same *)
(* ones are in use on every gateway.  A sandbox is made once and has one   *)
(* container; what hosts, ports and tokens are good for is not told apart. *)
(***************************************************************************)
EXTENDS Integers, FiniteSets

CONSTANTS
  Sandboxes, Gateways, Addresses, Requests,
  None,
  MaxFaults   \* bound: calls of a gateway that fail

\* None is no gateway.
RouteBounds == None \notin Gateways

VARIABLES
  row,        \* the state of the sandbox's row and the gateway it names
  container,  \* whether it runs, its gateway and its address
  recorded,   \* the address in the row's metadata (guest_routing)
  req,
  faults

vars == <<row, container, recorded, req, faults>>

TypeOK ==
  /\ row \in [Sandboxes -> [st : {"none", "running", "lost", "gone"}, gateway : Gateways \cup {None}]]
  /\ container \in [Sandboxes -> [runs : BOOLEAN, serves : BOOLEAN,
                                  address : Addresses \cup {None}]]
  /\ recorded \in [Sandboxes -> Addresses \cup {None}]
  /\ req \in [Requests ->
       [pc : {"idle", "proxy", "lookup", "failure", "inspect", "probe", "resolve", "running",
              "upstream", "route", "dial", "done"},
        sandbox : Sandboxes \cup {None}, at : Gateways \cup {None},
        address : Addresses \cup {None}, owner : Gateways \cup {None},
        reached : Sandboxes \cup {None}, ended : BOOLEAN]]
  /\ faults \in 0..MaxFaults

NoContainer == [runs |-> FALSE, serves |-> FALSE, address |-> None]
NoRequest == [pc |-> "idle", sandbox |-> None, at |-> None, address |-> None, owner |-> None,
              reached |-> None, ended |-> FALSE]

Init ==
  /\ row = [s \in Sandboxes |-> [st |-> "none", gateway |-> None]]
  /\ container = [s \in Sandboxes |-> NoContainer]
  /\ recorded = [s \in Sandboxes |-> None]
  /\ req = [q \in Requests |-> NoRequest] /\ faults = 0

Fault == faults < MaxFaults /\ faults' = faults + 1
HasRow(s) == row[s].st \in {"running", "lost"}

\* Who serves at an address of a gateway's bridge.
Serving(g, address) ==
  {s \in Sandboxes : container[s].serves /\ container[s].address = address /\ row[s].gateway = g}

-----------------------------------------------------------------------------
(* Sandboxes and their containers *)

Free(g) == Addresses \ {container[s].address : s \in {o \in Sandboxes : row[o].gateway = g}}

Create(s, g, address) ==
  /\ row[s].st = "none" /\ address \in Free(g)
  /\ row' = [row EXCEPT ![s] = [st |-> "running", gateway |-> g]]
  /\ container' = [container EXCEPT ![s] = [runs |-> TRUE, serves |-> FALSE, address |-> address]]
  /\ UNCHANGED <<recorded, req, faults>>

Serves(s) ==
  /\ container[s].runs /\ ~container[s].serves
  /\ container' = [container EXCEPT ![s].serves = TRUE]
  /\ UNCHANGED <<row, recorded, req, faults>>

Ends(ss) ==
  /\ container' = [s \in Sandboxes |-> IF s \in ss THEN NoContainer ELSE container[s]]
  /\ req' = [q \in Requests |-> IF req[q].sandbox \in ss /\ req[q].pc \in {"upstream", "route", "dial"}
                                THEN [req[q] EXCEPT !.ended = TRUE] ELSE req[q]]
  /\ UNCHANGED <<recorded, faults>>

Exits(s) == container[s].runs /\ Ends({s}) /\ UNCHANGED row
Delete(s) == HasRow(s) /\ Ends({s}) /\ row' = [row EXCEPT ![s].st = "gone"]

\* The pod of a gateway is replaced by one of the same name.
Replace(g) ==
  LET ss == {s \in Sandboxes : container[s].runs /\ row[s].gateway = g} IN
  ss # {} /\ Ends(ss) /\ UNCHANGED row

\* create, resume and reconcile: the address is written into the metadata.
Refresh(s) ==
  /\ row[s].st = "running" /\ container[s].runs
  /\ recorded' = [recorded EXCEPT ![s] = container[s].address]
  /\ UNCHANGED <<row, container, req, faults>>

-----------------------------------------------------------------------------
(* Requests *)

To(q, pc) == req' = [req EXCEPT ![q].pc = pc]
Refuse(q) == To(q, "done")

\* From the ingress, or by way of the api-service's proxy.
Arrive(q, s, g) ==
  /\ req[q].pc = "idle" /\ HasRow(s)
  /\ \E pc \in {"proxy", "lookup"} :
       req' = [req EXCEPT ![q] = [NoRequest EXCEPT !.pc = pc, !.sandbox = s, !.at = g]]
  /\ UNCHANGED <<row, container, recorded, faults>>

\* The host, the port or the token is not good, or the control plane does not answer.
Deny(q) ==
  /\ req[q].pc \in {"proxy", "lookup", "route"} /\ Refuse(q)
  /\ UNCHANGED <<row, container, recorded, faults>>

\* get_sandbox_runtime_failure: a row whose container is known not to run is marked lost.
Failed(s) == row[s].st = "lost" \/ (row[s].st = "running" /\ ~container[s].runs)
MarkedLost(s) == [row EXCEPT ![s].st = IF Failed(s) THEN "lost" ELSE @]

Proxy(q) ==
  LET s == req[q].sandbox IN
  /\ req[q].pc = "proxy"
  /\ IF HasRow(s) /\ ~Failed(s) THEN To(q, "lookup") ELSE Refuse(q)
  /\ row' = IF HasRow(s) THEN MarkedLost(s) ELSE row
  /\ UNCHANGED <<container, recorded, faults>>

\* The route's owner is that of the row as it was read first.
Lookup(q) ==
  LET s == req[q].sandbox IN
  /\ req[q].pc = "lookup"
  /\ IF HasRow(s) THEN req' = [req EXCEPT ![q].pc = "failure", ![q].owner = row[s].gateway]
     ELSE Refuse(q)
  /\ UNCHANGED <<row, container, recorded, faults>>

Failure(q) ==
  LET s == req[q].sandbox IN
  /\ req[q].pc = "failure"
  /\ \/ /\ IF HasRow(s) /\ Failed(s) THEN Refuse(q) ELSE To(q, "inspect")
        /\ row' = IF HasRow(s) THEN MarkedLost(s) ELSE row
        /\ UNCHANGED faults
     \/ \* the state is unknown
        Fault /\ To(q, "inspect") /\ UNCHANGED row
  /\ UNCHANGED <<container, recorded>>

\* Without an address the port is taken to be ready.
Inspect(q) ==
  LET s == req[q].sandbox IN
  /\ req[q].pc = "inspect"
  /\ \/ /\ HasRow(s) /\ container[s].runs /\ UNCHANGED faults
        /\ req' = [req EXCEPT ![q].pc = "probe", ![q].address = container[s].address]
     \/ HasRow(s) /\ ~container[s].runs /\ To(q, "resolve") /\ UNCHANGED faults
     \/ HasRow(s) /\ Fault /\ To(q, "resolve")
     \/ ~HasRow(s) /\ Refuse(q) /\ UNCHANGED faults
  /\ UNCHANGED <<row, container, recorded>>

\* The owning gateway dials what was inspected; an address that answers is recorded.
Probe(q) ==
  LET s == req[q].sandbox IN
  /\ req[q].pc = "probe"
  /\ \/ /\ Serving(req[q].owner, req[q].address) # {} /\ To(q, "resolve")
        /\ recorded' = IF HasRow(s) THEN [recorded EXCEPT ![s] = req[q].address] ELSE recorded
        /\ UNCHANGED faults
     \/ /\ Serving(req[q].owner, req[q].address) = {} /\ Refuse(q) /\ UNCHANGED <<recorded, faults>>
     \/ Fault /\ To(q, "resolve") /\ UNCHANGED recorded
  /\ UNCHANGED <<row, container>>

\* resolve_guest_upstream_http reads the row, and with it the recorded address.
Resolve(q) ==
  LET s == req[q].sandbox IN
  /\ req[q].pc = "resolve"
  /\ IF HasRow(s) THEN req' = [req EXCEPT ![q].pc = "running", ![q].address = recorded[s]]
     ELSE Refuse(q)
  /\ UNCHANGED <<row, container, recorded, faults>>

\* Mutant: a row that says it runs is enough.
IsRunningByRow(s) == row[s].st = "running"
IsRunning(s) == row[s].st = "running" /\ container[s].runs

\* It asks whether the sandbox runs; a state that is unknown is not running.
Running(q) ==
  LET s == req[q].sandbox IN
  /\ req[q].pc = "running"
  /\ \/ /\ IsRunning(s) /\ UNCHANGED <<row, faults>>
        /\ req' = [req EXCEPT ![q].pc = "upstream", ![q].ended = FALSE]
     \/ /\ ~IsRunning(s) /\ Refuse(q) /\ UNCHANGED faults
        /\ row' = IF HasRow(s) THEN MarkedLost(s) ELSE row
     \/ Fault /\ Refuse(q) /\ UNCHANGED row
  /\ UNCHANGED <<container, recorded>>

\* And inspects the container again; without an address it takes the recorded one.
Upstream(q) ==
  LET s == req[q].sandbox
      Recorded == To(q, IF req[q].address = None THEN "done" ELSE "route")
  IN
  /\ req[q].pc = "upstream"
  /\ \/ /\ container[s].runs /\ UNCHANGED faults
        /\ req' = [req EXCEPT ![q].pc = "route", ![q].address = container[s].address]
     \/ ~container[s].runs /\ Recorded /\ UNCHANGED faults
     \/ Fault /\ Recorded
  /\ UNCHANGED <<row, container, recorded>>

\* A route names no owner if its sandbox was not placed on a gateway.  A gateway has a
\* name, and every target the api-service places on has an id and a route base.
IsOwner(q) == req[q].owner \in {None, req[q].at}

Forward(q) ==
  /\ req[q].pc = "route" /\ ~IsOwner(q)
  /\ req' = [req EXCEPT ![q].pc = "lookup", ![q].at = req[q].owner]
  /\ UNCHANGED <<row, container, recorded, faults>>

Direct(q) ==
  /\ req[q].pc = "route" /\ IsOwner(q) /\ To(q, "dial")
  /\ UNCHANGED <<row, container, recorded, faults>>

Dial(q) ==
  /\ req[q].pc = "dial"
  /\ req' = [req EXCEPT ![q].pc = "done",
               ![q].reached = IF Serving(req[q].at, req[q].address) = {} THEN None
                              ELSE CHOOSE s \in Serving(req[q].at, req[q].address) : TRUE]
  /\ UNCHANGED <<row, container, recorded, faults>>

Next ==
  \/ \E s \in Sandboxes :
       \/ \E g \in Gateways, address \in Addresses : Create(s, g, address)
       \/ Serves(s) \/ Exits(s) \/ Delete(s) \/ Refresh(s)
       \/ \E q \in Requests, g \in Gateways : Arrive(q, s, g)
  \/ \E g \in Gateways : Replace(g)
  \/ \E q \in Requests :
       \/ Deny(q) \/ Proxy(q) \/ Lookup(q) \/ Failure(q) \/ Inspect(q) \/ Probe(q) \/ Resolve(q)
       \/ Running(q) \/ Upstream(q) \/ Forward(q) \/ Direct(q) \/ Dial(q)

Spec == Init /\ [][Next]_vars

-----------------------------------------------------------------------------
(* Property *)

\* A request that reaches a guest reaches that of its sandbox, unless its sandbox's
\* container ended after the api-service had last found it to run.
ReachesItsOwn ==
  \A q \in Requests : req[q].reached \in {None, req[q].sandbox} \/ req[q].ended
=============================================================================
