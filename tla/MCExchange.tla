----------------------------- MODULE MCExchange ----------------------------
(***************************************************************************)
(* The two protocols that run over a data exchanger, each on a connection  *)
(* of its own: a behaviour is one of Rpc or one of ObjectTransfer.         *)
(***************************************************************************)
EXTENDS Rpc, ObjectTransfer

VARIABLE protocol

vars == <<protocol, exchanger, rpcVars, transferVars>>

\* A void function, a function that returns a value, one with
\* MAX_PARAM_COUNT parameters, and one the server does not know.
MCFunctions == {[params |-> 0, void |-> TRUE, known |-> TRUE],
                [params |-> 2, void |-> FALSE, known |-> TRUE],
                [params |-> MAX_PARAM_COUNT, void |-> FALSE, known |-> TRUE],
                [params |-> 2, void |-> TRUE, known |-> FALSE]}

\* The state of the protocol that is not used.
RpcUnused == RpcInit /\ env = [blocking |-> TRUE, order |-> "ltr", continues |-> FALSE,
                               shortSend |-> FALSE]
TransferUnused == TransferInit /\ transport = "tcp"

Init ==
    /\ ExchangerInit
    /\ \/ protocol = "rpc" /\ RpcInit /\ TransferUnused
       \/ protocol = "transfer" /\ TransferInit /\ RpcUnused

RpcStep(A) == A /\ protocol = "rpc" /\ UNCHANGED <<protocol, transferVars>>
TransferStep(A) == A /\ protocol = "transfer" /\ UNCHANGED <<protocol, rpcVars>>

Next == RpcStep(RpcNext) \/ TransferStep(TransferNext)

\* The server thread runs, its socket goes once run() has ended, and the
\* client and both ends of a transfer do not stop in the middle of a call.
\* Nobody has to make a call, and nothing has to fail.
Fairness ==
    /\ WF_vars(RpcStep(ReceiveReply))
    /\ WF_vars(RpcStep(ReceiveHeader \/ ReceiveParams))
    /\ WF_vars(RpcStep(ServerClose))
    /\ WF_vars(TransferStep(SenderSend))
    /\ WF_vars(TransferStep(ReceiverRead))

Spec == Init /\ [][Next]_vars /\ Fairness

TypeOK ==
    /\ env \in RpcEnvs
    /\ client \in {"idle", "reply", "broken", "closed"}
    /\ server \in [pc : {"header", "params", "stopped"}, call : 0 .. MaxCalls]
    /\ rejected \subseteq 0 .. MaxCalls /\ failed \in BOOLEAN
    /\ Len(results) <= Len(calls) /\ Len(calls) <= Len(results) + 1
    /\ sender \in [pc : {"idle", "size", "body", "threw"}, count : 0 .. SIZE_MAX, open : BOOLEAN]
    /\ receiver.pc \in {"idle", "size", "body", "threw"}
    /\ receiver.count \in 0 .. SIZE_MAX /\ receiver.size \in 0 .. BufferSize
=============================================================================
