-------------------------------- MODULE Rpc --------------------------------
(***************************************************************************)
(* RpcClient and RpcServer over one connection.  The client makes its      *)
(* calls one after the other; the server is in run().  Under the names of  *)
(* env the model has what a program can choose, or cannot know:            *)
(*   blocking    both sockets are set to setReceptionBlocking(true) - the  *)
(*               default is false - and no signal interrupts a reception   *)
(*   order       how the compiler orders deserialize<Args>(stream)... ,    *)
(*               which C++ leaves unspecified: "ltr" or "rtl"              *)
(*   continues   the invalidRequestEventHandler returns true; the default  *)
(*               one throws                                                *)
(*   shortSend   the kernel may take only a part of what send is given     *)
(* A socket may fail at any call of send or receive, on either side, and a *)
(* registered function may throw.                                          *)
(***************************************************************************)
EXTENDS DataExchanger

CONSTANTS Functions,         \* [params : Nat, void : BOOLEAN, known : BOOLEAN]
          MAX_PARAM_COUNT,   \* 6 in the code
          MaxCalls           \* bound on the calls of the client

\* RerBuilding::build takes no more than MAX_PARAM_COUNT parameters.
ASSUME FunctionsAssumption ==
    /\ MAX_PARAM_COUNT \in Nat
    /\ Functions \subseteq [params : 0 .. MAX_PARAM_COUNT, void : BOOLEAN, known : BOOLEAN]

VARIABLES env,
          client,    \* "idle", "reply" (in receive), "broken" (SS_ERROR) or "closed"
          server,    \* [pc, call]: pc is "header", "params" or "stopped"
          calls,     \* history: the function of each call
          results,   \* history: how each call ended: [outcome, value]
          executed,  \* history: the invocations: [call, args]
          rejected,  \* history: the calls given to the handler
          failed     \* history: the server's socket failed, or a function threw

rpcVars == <<env, client, server, calls, results, executed, rejected, failed>>

RetLen == 2   \* cells of a serialized result; the reply of a void function has 1

RpcEnvs == [blocking : BOOLEAN, order : {"ltr", "rtl"}, continues : BOOLEAN, shortSend : BOOLEAN]

RpcInit ==
    /\ env \in RpcEnvs
    /\ client = "idle" /\ server = [pc |-> "header", call |-> 0]
    /\ calls = <<>> /\ results = <<>> /\ executed = <<>> /\ rejected = {}
    /\ failed = FALSE

\* What send puts on the wire: all of it, or less, which nobody looks at.
SendCounts(len) == IF env.shortSend THEN 1 .. len ELSE {len}

-----------------------------------------------------------------------------
(* The client.                                                             *)

\* Mutant: serialized from a call's argument list, in the compiler's order.
M_RequestReversed(c, f) ==
    Cells("header", c, HdrLen) \o Reverse(Cells("param", c, f.params))

\* RerBuilding: header and parameters, serialized in their order.
Request(c, f) == Cells("header", c, HdrLen) \o Cells("param", c, f.params)

Return(outcome, value) ==
    /\ results' = Append(results, [outcome |-> outcome, value |-> value])
    /\ client' = "idle"

\* The client's socket fails, and throws again whenever it is used after that.
Throw ==
    /\ results' = Append(results, [outcome |-> "throws", value |-> <<>>])
    /\ client' = "broken"

Call(f) ==
    /\ client \in {"idle", "broken"} /\ Len(calls) < MaxCalls
    /\ calls' = Append(calls, f)
    /\ \/ /\ client = "idle" /\ client' = "reply"
          /\ LET request == Request(Len(calls) + 1, f) IN
             \E k \in SendCounts(Len(request)) : Send("request", request, k)
          /\ UNCHANGED results
       \/ Throw /\ UNCHANGED wire
    /\ UNCHANGED <<hungUp, env, server, executed, rejected, failed>>

\* The end of sendExeRequest, and the deserialization of what it returns: a
\* void call does not look at the reply.
ReceiveReply ==
    /\ client = "reply"
    /\ LET f == Last(calls)
           size == IF f.void THEN 1 ELSE RetLen IN
       \E k \in ReceiveCounts("reply", size, env.blocking) :
          /\ Receive("reply", k)
          /\ CASE f.void             -> Return("void", <<>>)
               [] ~f.void /\ k = size -> Return("value", Received("reply", k))
               [] ~f.void /\ k < size -> Return("throws", <<>>)
    /\ UNCHANGED <<hungUp, env, server, calls, executed, rejected, failed>>

\* Mutant: the error is swallowed and the call returns.
M_CallSwallowsError ==
    /\ client = "reply"
    /\ Return(IF Last(calls).void THEN "void" ELSE "value", <<>>)
    /\ UNCHANGED <<exchanger, env, server, calls, executed, rejected, failed>>

\* receive throws.
CallFails ==
    /\ client = "reply"
    /\ Throw
    /\ UNCHANGED <<exchanger, env, server, calls, executed, rejected, failed>>

ClientClose ==
    /\ client \in {"idle", "broken"}
    /\ client' = "closed"
    /\ HangUp("request")
    /\ UNCHANGED <<wire, env, server, calls, results, executed, rejected, failed>>

-----------------------------------------------------------------------------
(* The server.                                                             *)

Stop == server' = [pc |-> "stopped", call |-> 0]
NextRequest == server' = [pc |-> "header", call |-> 0]

\* Mutant: the default handler does not throw.
M_NeverThrows(c) == rejected' = rejected \cup {c} /\ NextRequest

\* invalidRequestEventHandler on the request of call c, 0 when it is garbage.
InvalidRequest(c) ==
    /\ rejected' = rejected \cup {c}
    /\ IF env.continues THEN NextRequest ELSE Stop

\* Mutant: one parameter fewer.
M_IntegrityOffByOne(c) == c # 0 /\ calls[c].params < MAX_PARAM_COUNT - 1

\* checkIntegrity: the magic number, for which garbage never passes, and the
\* number of parameters.
CheckIntegrity(c) == c # 0 /\ calls[c].params < MAX_PARAM_COUNT

\* The call a header is of, 0 for cells that are no header.
HeaderOf(cells) ==
    IF cells = Cells("header", cells[1].n, HdrLen) THEN cells[1].n ELSE 0

\* The arguments as deserialize<Args>(stream)... passes them on.
Arguments(params) == IF env.order = "ltr" THEN params ELSE Reverse(params)

\* rpcFunction and the sending of its result.
Reply(c, args) ==
    IF calls[c].void
    THEN <<Cell("done", c, 1)>>
    ELSE [i \in 1 .. RetLen |-> [Cell("result", c, i) EXCEPT !.args = args]]

\* Call c is invoked, after a request whose last k cells are read with it: the
\* result is sent; or the function, or the send of its result, throws out of
\* run().
Invoke(c, k, args) ==
    /\ executed' = Append(executed, [call |-> c, args |-> args])
    /\ UNCHANGED rejected
    /\ \/ /\ \E j \in SendCounts(Len(Reply(c, args))) :
             wire' = [wire EXCEPT !["request"] = SubSeq(@, k + 1, Len(@)),
                                  !["reply"] = @ \o SubSeq(Reply(c, args), 1, j)]
          /\ NextRequest
          /\ UNCHANGED failed
       \/ /\ Receive("request", k)
          /\ Stop
          /\ failed' = TRUE

\* The first half of oneShot, and all of it when there are no parameters.
ReceiveHeader ==
    /\ server.pc = "header"
    /\ \E k \in ReceiveCounts("request", HdrLen, env.blocking) :
       LET c == IF k = HdrLen THEN HeaderOf(Received("request", k)) ELSE 0 IN
          \/ /\ k # HdrLen
             /\ Receive("request", k)
             /\ Stop
             /\ UNCHANGED <<executed, rejected, failed>>
          \/ /\ k = HdrLen /\ (IF CheckIntegrity(c) THEN ~calls[c].known ELSE TRUE)
             /\ Receive("request", k)
             /\ InvalidRequest(c)
             /\ UNCHANGED <<executed, failed>>
          \/ /\ k = HdrLen /\ CheckIntegrity(c) /\ calls[c].known /\ calls[c].params > 0
             /\ Receive("request", k)
             /\ server' = [pc |-> "params", call |-> c]
             /\ UNCHANGED <<executed, rejected, failed>>
          \/ /\ k = HdrLen /\ CheckIntegrity(c) /\ calls[c].known /\ calls[c].params = 0
             /\ Invoke(c, k, <<>>)
    /\ UNCHANGED <<hungUp, env, client, calls, results>>

\* The second half: parameters, invocation, reply.
ReceiveParams ==
    /\ server.pc = "params"
    /\ LET c == server.call
           n == calls[c].params IN
       \E k \in ReceiveCounts("request", n, env.blocking) :
          \/ /\ k # n
             /\ Receive("request", k)
             /\ InvalidRequest(c)
             /\ UNCHANGED <<executed, failed>>
          \/ /\ k = n
             /\ Invoke(c, k, Arguments(Received("request", k)))
    /\ UNCHANGED <<hungUp, env, client, calls, results>>

\* Either of the two receptions throws out of oneShot and run().
ServerReceiveFails ==
    /\ server.pc \in {"header", "params"}
    /\ Stop
    /\ failed' = TRUE
    /\ UNCHANGED <<exchanger, env, client, calls, results, executed, rejected>>

\* run() has returned, or an exception has left it: the socket goes.
ServerClose ==
    /\ server.pc = "stopped" /\ ~hungUp["reply"]
    /\ HangUp("reply")
    /\ UNCHANGED <<wire, rpcVars>>

RpcNext ==
    \/ \E f \in Functions : Call(f)
    \/ ReceiveReply \/ CallFails \/ ClientClose
    \/ ReceiveHeader \/ ReceiveParams \/ ServerReceiveFails \/ ServerClose

-----------------------------------------------------------------------------
(* Up to the first call that throws, every call that returns a value       *)
(* returns its own: the one computed from the arguments of this very call, *)
(* in their order.  It takes a compiler that evaluates arguments from the  *)
(* right to break the order, for two parameters or more (RpcServer.h 105,  *)
(* 109); and after an exception nothing holds, because a short read leaves *)
(* the rest of the reply on the connection for the next call.              *)
ReturnedValueIsOwn ==
    \A c \in 1 .. Len(results) :
       /\ results[c].outcome = "value"
       /\ \A b \in 1 .. c : results[b].outcome # "throws"
       /\ env.order = "ltr" \/ calls[c].params < 2
       => results[c].value = Reply(c, Cells("param", c, calls[c].params))

(* A call that returns has been executed exactly once, unless an earlier   *)
(* one has thrown, or the call is void and the server has closed the       *)
(* connection: a void call takes the end of the stream for its reply       *)
(* (RpcClient.h 53).                                                       *)
ReturnedWasExecuted ==
    \A c \in 1 .. Len(results) :
       /\ \A b \in 1 .. c : results[b].outcome # "throws"
       /\ results[c].outcome = "value" \/ ~hungUp["reply"]
       => \E i \in 1 .. Len(executed) :
             \A j \in 1 .. Len(executed) : executed[j].call = c <=> j = i

(* With blocking receptions and sends that are not cut short, the requests *)
(* refused are of functions that are not registered, or have               *)
(* MAX_PARAM_COUNT parameters - which build() accepts and checkIntegrity() *)
(* refuses (RpcCommon.h 100); garbage is taken for a request only where a  *)
(* refused one left its parameters on the stream; and run() ends only      *)
(* after a refusal, when the client has closed, or by an exception of the  *)
(* socket or of a function.                                                *)
RejectedOnlyIf ==
    env.blocking /\ ~env.shortSend =>
       /\ \A c \in rejected \ {0} : ~calls[c].known \/ calls[c].params = MAX_PARAM_COUNT
       /\ rejected # {0}
       /\ server.pc = "stopped" => hungUp["request"] \/ rejected # {} \/ failed

(* A call ends, by returning or by throwing, if the handler of invalid     *)
(* requests throws and sends are not cut short: the server answers, or     *)
(* stops and its socket goes.  A handler that returns true instead leaves  *)
(* the client without an answer.                                           *)
CallReturns ==
    client = "reply" /\ ~env.continues /\ ~env.shortSend ~> client # "reply"
=============================================================================
