-------------------------- MODULE InterprocessQueue -------------------------
(***************************************************************************)
(* InterprocessQueue: a ByteRing in shared memory whose WaitPolicy is      *)
(* IntPrQueueLockPolicy, two InterprocessSignals.  The producer raises     *)
(* dataPresentEvent and waits on dataFreeEvent, the consumer the converse. *)
(* Every action of ByteRing is kept; its four WaitPolicy calls run the     *)
(* corresponding call of the signal.                                       *)
(***************************************************************************)
EXTENDS ByteRing

CONSTANT Builds  \* the InterprocessSignals that may be compiled in

Procs == {"producer", "consumer"}

VARIABLES
    build,                          \* the one that is
    dpWord, dpSt, dpOne, dpRaised,  \* dataPresentEvent
    dfWord, dfSt, dfOne, dfRaised,  \* dataFreeEvent
    slaveSignals                    \* the SLAVE has constructed its signals

DataPresent == INSTANCE InterprocessSignal WITH
                   word <- dpWord, st <- dpSt, one <- dpOne, raised <- dpRaised
DataFree == INSTANCE InterprocessSignal WITH
                word <- dfWord, st <- dfSt, one <- dfOne, raised <- dfRaised

dpVars == <<dpWord, dpSt, dpOne, dpRaised>>
dfVars == <<dfWord, dfSt, dfOne, dfRaised>>
queueVars == <<vars, dpVars, dfVars, build, slaveSignals>>

QueueInit == /\ Init
             /\ DataPresent!SignalInit /\ DataFree!SignalInit
             /\ slaveSignals = FALSE

-----------------------------------------------------------------------------
\* The SLAVE's constructor: the signals of the lock policy first, then the
\* shared memory and initRing.
ConstructSignals ==
    /\ ~slaveSignals
    /\ slaveSignals' = TRUE
    /\ DataPresent!SlaveConstruct /\ DataFree!SlaveConstruct
    /\ UNCHANGED vars

AttachSlave ==
    /\ slaveSignals
    /\ AttachProducer \/ AttachConsumer
    /\ UNCHANGED <<dpVars, dfVars, build, slaveSignals>>

\* Everything that does not call the lock policy.
CallsOfProducer == /\ FreeSpace \/ \E n \in PushSizes : Push(n)
                   /\ UNCHANGED <<dpVars, dfVars, build, slaveSignals>>
CallsOfConsumer == /\ SizeOfRing \/ \E n \in PopSizes : Pop(n)
                   /\ UNCHANGED <<dpVars, dfVars, build, slaveSignals>>
RunsOfProducer == ProducerRuns /\ UNCHANGED <<dpVars, dfVars, build, slaveSignals>>
RunsOfConsumer == ConsumerRuns /\ UNCHANGED <<dpVars, dfVars, build, slaveSignals>>

\* waitDataFree: dataFreeEvent.wait().
WaitDataFreeRuns ==
    /\ pPc = "wait"
    /\ DataFree!WaitBegin("producer") \/ DataFree!WaitStep("producer")
    /\ UNCHANGED <<vars, dpVars, slaveSignals>>

WaitDataFreeReturns ==
    /\ DataFree!WaitReturns("producer")
    /\ WaitDataFree
    /\ UNCHANGED <<dpVars, slaveSignals>>

\* waitDataPresent: dataPresentEvent.wait().
WaitDataPresentRuns ==
    /\ cPc = "wait"
    /\ DataPresent!WaitBegin("consumer") \/ DataPresent!WaitStep("consumer")
    /\ UNCHANGED <<vars, dfVars, slaveSignals>>

\* Mutant: pop trusts the wakeup and does not look at head again.
WaitDataPresentTrusts ==
    /\ DataPresent!WaitReturns("consumer")
    /\ cPc = "wait" /\ cPc' = "copy"
    /\ UNCHANGED <<shared, producer, cachedHead, cLeft, cChunk, cIdx, cPos, cSeen, out>>
    /\ UNCHANGED <<dfVars, slaveSignals>>

WaitDataPresentReturns ==
    /\ DataPresent!WaitReturns("consumer")
    /\ WaitDataPresent
    /\ UNCHANGED <<dfVars, slaveSignals>>

\* signalDataPresent: dataPresentEvent.signal().
SignalDataPresentRuns ==
    /\ pPc = "signal"
    /\ DataPresent!SignalStep("producer")
    /\ UNCHANGED <<vars, dfVars, slaveSignals>>

SignalDataPresentReturns ==
    /\ DataPresent!SignalReturns("producer")
    /\ SignalDataPresent
    /\ UNCHANGED <<dfVars, slaveSignals>>

\* signalDataFree: dataFreeEvent.signal().
SignalDataFreeRuns ==
    /\ cPc = "signal"
    /\ DataFree!SignalStep("consumer")
    /\ UNCHANGED <<vars, dpVars, slaveSignals>>

SignalDataFreeReturns ==
    /\ DataFree!SignalReturns("consumer")
    /\ SignalDataFree
    /\ UNCHANGED <<dpVars, slaveSignals>>

\* A wait of either side that ends without a signal, as the system allows.
Spurious ==
    \/ DataPresent!SpuriousWakeup("consumer") /\ UNCHANGED <<vars, dfVars, slaveSignals>>
    \/ DataFree!SpuriousWakeup("producer") /\ UNCHANGED <<vars, dpVars, slaveSignals>>

-----------------------------------------------------------------------------
ProducerInside == \/ RunsOfProducer \/ WaitDataFreeRuns \/ WaitDataFreeReturns
                  \/ SignalDataPresentRuns \/ SignalDataPresentReturns
ConsumerInside == \/ RunsOfConsumer \/ WaitDataPresentRuns \/ WaitDataPresentReturns
                  \/ SignalDataFreeRuns \/ SignalDataFreeReturns

QueueNext == \/ ConstructSignals \/ AttachSlave
             \/ CallsOfProducer \/ CallsOfConsumer
             \/ ProducerInside \/ ConsumerInside
             \/ Spurious

QueueSpec == QueueInit /\ [][QueueNext]_queueVars

\* A process inside push or pop runs whenever it is not blocked in a wait; a
\* wait need not ever end spuriously.
QueueFairSpec == /\ QueueSpec
                 /\ WF_queueVars(ProducerInside)
                 /\ WF_queueVars(ConsumerInside)

-----------------------------------------------------------------------------
\* The types of the ring and of the two signals of the lock policy.
QueueTypeOK ==
    /\ TypeOK
    /\ DataPresent!SignalTypeOK /\ DataFree!SignalTypeOK
    /\ slaveSignals \in BOOLEAN

\* With signals that are kept until they are taken, a push sleeps for ever in
\* waitDataFree only if the room it waits for never comes.
QueuePushReturns == build # "posix" => PushReturns

\* The same for pop and the bytes that signalDataPresent announces.
QueuePopReturns == build # "posix" => PopReturns
=============================================================================
