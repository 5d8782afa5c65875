-------------------------- MODULE GuestComponents ---------------------------
(***************************************************************************)
(* Components on the way to a guest and in it: containers, routes, the     *)
(* bootstrap, agents, terminals, processes' streams, WebSockets and files, *)
(* and the Modal API: its sandboxes and the files its clients opened.      *)
(***************************************************************************)
EXTENDS Components

edit == x1
isPty == x1
seen == x2
shut == x2
runs == x2
live == x2
ops == x3
template == x3
session == x3
spawn == x3
written == x3
memory == x3
file == x3
guest == x4
container == x4
wire == x4
loop == x4
emitted == x4
merges == x4
handle == x4
tree == x5
up == x5
recorded == x5
shell == x5
state == x5
reading == x5
commits == x5
saves == x5
writer == x6
down == x6
edits == x6
single == x6
thread == x6
exited == x6
kills == x6
writes == x6
watching == x7
hop == x7
stop == x7
held == x7
waiter == x7
exec == x7
changed == x8
raised == x8
unclean == x8
history == x8
want == x8
known == x9
early == x9
ghost == x9
kind == x9
sets == x9
hidden == x10
registered == x10
at == x10
killing == x11
upto == x11
sandbox == x12
sent == x12
listed == x13
queue == x13
joined == x14

Files == INSTANCE GuestFiles WITH MaxFaults <- FewFaults
Bridge == INSTANCE GuestBridge WITH MaxFaults <- FewFaults
Routing == INSTANCE GuestRouting WITH Requests <- GuestRequests
Boot == INSTANCE GuestBootstrap
Ssh == INSTANCE SshTerminal
Agent == INSTANCE AgentRuntime
Host == INSTANCE ContainerHost WITH Threads <- Callers
Envd == INSTANCE EnvdProcess
Modal == INSTANCE ModalGateway WITH MaxFaults <- FewFaults
ModalFile == INSTANCE ModalFiles WITH Replicas <- PoolReplicas, MaxFaults <- FewFaults
=============================================================================
