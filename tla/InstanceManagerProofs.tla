----------------------- MODULE InstanceManagerProofs ------------------------
(* Invariance proofs for InstanceManager, for any sets of calls, ids and messages and *)
(* any capacities: the lemmas on queues, the calls of the RPC handlers and the        *)
(* commands of the manager, then messages and executors, then the theorems.           *)
EXTENDS InstanceManager, TLAPS

-----------------------------------------------------------------------------
(* Channels and queues, by index. *)

\* Receiving from a channel: the rest of the queue moves up by one.
LEMMA TailByIndex ==
  ASSUME NEW S, NEW s \in Seq(S), s # <<>>
  PROVE  /\ Head(s) = s[1] /\ s[1] \in S /\ 1 \in 1..Len(s)
         /\ Tail(s) \in Seq(S)
         /\ Len(Tail(s)) = Len(s) - 1
         /\ \A k \in 1..Len(Tail(s)) : Tail(s)[k] = s[k + 1] /\ k + 1 \in 1..Len(s)
  OBVIOUS

\* The message the manager takes next, and the ones it leaves.
LEMMA NextIncoming ==
  ASSUME TypeOK, incoming # <<>>
  PROVE  Head(incoming) \in Message /\ Tail(incoming) \in Seq(Message)
<1>1. incoming \in Seq(Message)
  BY Zenon DEF TypeOK
<1> QED
  BY <1>1, TailByIndex

\* The message a call's forwarder sends next, and the ones it leaves.
LEMMA NextForwarded ==
  ASSUME TypeOK, NEW c \in Calls, forward[c] # <<>>
  PROVE  /\ forward[c] \in Seq(Message)
         /\ Head(forward[c]) \in Message /\ Tail(forward[c]) \in Seq(Message)
<1>1. forward[c] \in Seq(Message)
  BY Zenon DEF TypeOK
<1> QED
  BY <1>1, TailByIndex

\* A queue of one element.
LEMMA Singleton ==
  ASSUME NEW S, NEW e \in S
  PROVE  <<e>> \in Seq(S) /\ Len(<<e>>) = 1
  OBVIOUS

\* Sending on a channel: what was queued stays where it is.
LEMMA AppendByIndex ==
  ASSUME NEW S, NEW s \in Seq(S), NEW e \in S
  PROVE  /\ Append(s, e) \in Seq(S)
         /\ Len(Append(s, e)) = Len(s) + 1
         /\ Append(s, e)[Len(s) + 1] = e
         /\ \A k \in 1..Len(s) : Append(s, e)[k] = s[k]
  OBVIOUS

\* Dropping the first n elements of a queue.
LEMMA DropByIndex ==
  ASSUME NEW S, NEW s \in Seq(S), NEW n \in 0..Len(s)
  PROVE  LET t == SubSeq(s, n + 1, Len(s)) IN
         /\ t \in Seq(S)
         /\ Len(t) = Len(s) - n
         /\ \A k \in 1..Len(t) : t[k] = s[k + n]
  OBVIOUS

-----------------------------------------------------------------------------
\* The initial state satisfies the inductive invariant.
LEMMA InitIInv == Init => IInv
<1> SUFFICES ASSUME Init PROVE IInv
  OBVIOUS
<1>1. TypeOK
  BY DEF Init, TypeOK, Reply, Answers, PcStates, ExecStates, EmptyMap
<1>2. LiveExecutorsOwn /\ CommandsMatch /\ CommandsDistinct /\ InstancesHaveOwner
  BY
     DEF Init, LiveExecutorsOwn, CommandsMatch,
         CommandMatches, CommandsDistinct, InstancesHaveOwner, EmptyMap
<1>3. NotYetStarted /\ DownHoldsNothing /\ TerminatedAreFinished /\ BacklogOnlyForAbsent
  BY
     DEF Init, NotYetStarted, DownHoldsNothing,
         TerminatedAreFinished, BacklogOnlyForAbsent, EmptyMap
<1>4. ResultsOfOwnExecutor /\ WaiterHasRunner
  BY DEF Init, ResultsOfOwnExecutor, WaiterHasRunner, EmptyMap
<1> QED
  BY <1>1, <1>2, <1>3, <1>4 DEF IInv

\* What is in the command channel is a command.
LEMMA QueuedCommands ==
  ASSUME TypeOK
  PROVE  \A k \in 1..Len(commands) :
           /\ commands[k].type \in {"create", "status", "store", "failed"}
           /\ commands[k].call \in Calls
           /\ commands[k].id \in Ids
<1> SUFFICES ASSUME NEW k \in 1..Len(commands) PROVE commands[k] \in Command
  BY DEF Command
<1> QED
  BY DEF TypeOK

-----------------------------------------------------------------------------
(* The RPC handlers. *)

LEMMA RpcStartStep == ASSUME NEW c \in Calls, IInv, RpcStart(c) PROVE IInv'
<1> USE DEF RpcStart, IInv, cacheVars, msgVars
<1>1. TypeOK'
  BY Zenon DEF TypeOK, PcStates
<1>2. LiveExecutorsOwn' /\ CommandsDistinct' /\ DownHoldsNothing'
  BY DEF LiveExecutorsOwn, CommandsDistinct, DownHoldsNothing
<1>3. CommandsMatch'
  BY QueuedCommands, ZenonT(60) DEF CommandsMatch, CommandMatches, TypeOK
<1>4. InstancesHaveOwner' /\ TerminatedAreFinished' /\ ResultsOfOwnExecutor' /\ BacklogOnlyForAbsent'
  BY DEF InstancesHaveOwner, ReportQueued, TerminatedAreFinished, ResultsOfOwnExecutor,
         BacklogOnlyForAbsent
<1>5. NotYetStarted'
  BY DEF NotYetStarted, TypeOK
<1>6. WaiterHasRunner'
  BY DEF WaiterHasRunner, ReportQueued, Open, TypeOK
<1> QED
  BY <1>1, <1>2, <1>3, <1>4, <1>5, <1>6

LEMMA RpcSendStep == ASSUME NEW c \in Calls, IInv, RpcSend(c) PROVE IInv'
<1> DEFINE e == [type |-> IF request[c].kind = "status" THEN "status" ELSE "create",
                 call |-> c, id |-> request[c].id]
<1> USE DEF RpcSend, IInv, cacheVars, msgVars
<1>0. /\ commands \in Seq(Command) /\ e \in Command /\ commands' = Append(commands, e)
      /\ e.call = c /\ e.id = request[c].id /\ request[c].kind \in Kinds
  BY DEF TypeOK, Command, Request
<1>a. /\ Len(commands') = Len(commands) + 1
      /\ commands'[Len(commands) + 1] = e
      /\ \A k \in 1..Len(commands) : commands'[k] = commands[k]
      /\ Len(commands) \in Nat
      /\ commands' \in Seq(Command)
  BY <1>0, AppendByIndex
<1>b. \A k \in 1..Len(commands) : commands[k].call # c
  <2> SUFFICES ASSUME NEW k \in 1..Len(commands), commands[k].call = c PROVE FALSE
    OBVIOUS
  <2>1. commands[k].type \in {"store", "failed"} => executor[c] = "done"
    BY Zenon DEF CommandsMatch, CommandMatches
  <2>2. commands[k].type \in {"create", "status"} => pc[c] \in {"wait", "gone"}
    BY Zenon DEF CommandsMatch, CommandMatches
  <2>3. executor[c] = "none"
    BY DEF NotYetStarted
  <2> QED
    BY <2>1, <2>2, <2>3, QueuedCommands
<1> HIDE DEF e
<1>1. TypeOK'
  BY <1>a, Zenon DEF TypeOK, PcStates
<1>2. LiveExecutorsOwn' /\ DownHoldsNothing'
  BY DEF LiveExecutorsOwn, DownHoldsNothing
<1>3. CommandsMatch'
  <2>1. executor[c] = "none" /\ pc'[c] = "wait"
    BY DEF NotYetStarted, TypeOK
  <2>2. e.type \in {"create", "status"} /\ (e.type = "status" <=> request[c].kind = "status")
    BY DEF e
  <2>3. \A k \in 1..Len(commands) : pc'[commands[k].call] = pc[commands[k].call]
    BY <1>b, QueuedCommands, Zenon DEF TypeOK
  <2> SUFFICES ASSUME NEW k \in 1..Len(commands') PROVE CommandMatches(commands[k])'
    BY DEF CommandsMatch
  <2>4. CASE k = Len(commands) + 1
    BY <1>0, <1>a, <2>1, <2>2, <2>4, ZenonT(60) DEF CommandMatches
  <2>5. CASE k \in 1..Len(commands)
    <3>1. CommandMatches(commands[k]) /\ commands'[k] = commands[k]
      BY <1>a, <2>5 DEF CommandsMatch
    <3> QED
      BY Zenon, <2>3, <2>5, <3>1 DEF CommandMatches
  <2> QED
    BY <1>a, <2>4, <2>5
<1>4. CommandsDistinct'
  BY <1>0, <1>a, <1>b DEF CommandsDistinct
<1>5. \A d \in Calls : ReportQueued(d) => ReportQueued(d)'
  BY <1>a DEF ReportQueued
<1>6. InstancesHaveOwner'
  BY <1>5, Zenon DEF InstancesHaveOwner, TypeOK, Instance
<1>7. TerminatedAreFinished' /\ ResultsOfOwnExecutor' /\ BacklogOnlyForAbsent'
  BY DEF TerminatedAreFinished, ResultsOfOwnExecutor, BacklogOnlyForAbsent
<1>8. NotYetStarted'
  BY DEF NotYetStarted, TypeOK
<1>9. WaiterHasRunner'
  BY Zenon, <1>5 DEF WaiterHasRunner, Open, TypeOK
<1> QED
  BY <1>1, <1>2, <1>3, <1>4, <1>6, <1>7, <1>8, <1>9

LEMMA RpcSendFailsStep == ASSUME NEW c \in Calls, IInv, RpcSendFails(c) PROVE IInv'
<1>0. PICK what \in {"panic", "unable_id"} :
        reply' = [reply EXCEPT ![c] = [what |-> what, of |-> c]]
  BY DEF RpcSendFails
<1>s. /\ pc[c] = "send" /\ manager = "down" /\ pc' = [pc EXCEPT ![c] = "done"]
      /\ UNCHANGED <<request, commands, manager, cacheVars, msgVars, executor>>
  BY DEF RpcSendFails
<1> USE <1>0, <1>s DEF IInv, cacheVars, msgVars
<1>1. TypeOK'
  BY DEF TypeOK, PcStates, Reply, Answers
<1>2. LiveExecutorsOwn' /\ CommandsDistinct' /\ DownHoldsNothing'
  BY ZenonT(60) DEF LiveExecutorsOwn, CommandsDistinct, DownHoldsNothing
<1>3. CommandsMatch'
  BY DEF CommandsMatch, CommandMatches, DownHoldsNothing
<1>4. InstancesHaveOwner' /\ TerminatedAreFinished' /\ BacklogOnlyForAbsent'
  BY DEF InstancesHaveOwner, ReportQueued, TerminatedAreFinished, BacklogOnlyForAbsent
<1>5. NotYetStarted' /\ ResultsOfOwnExecutor'
  BY DEF NotYetStarted, ResultsOfOwnExecutor, TypeOK
<1>6. WaiterHasRunner'
  BY DEF WaiterHasRunner, ReportQueued, Open, TypeOK
<1> QED
  BY <1>1, <1>2, <1>3, <1>4, <1>5, <1>6

LEMMA ClientGoneStep == ASSUME NEW c \in Calls, IInv, ClientGone(c) PROVE IInv'
<1> USE DEF ClientGone, IInv, cacheVars, msgVars
<1>1. TypeOK'
  BY DEF TypeOK, PcStates
<1>2. LiveExecutorsOwn' /\ CommandsDistinct' /\ DownHoldsNothing'
  BY DEF LiveExecutorsOwn, CommandsDistinct, DownHoldsNothing
<1>3. CommandsMatch'
  BY QueuedCommands, ZenonT(60) DEF CommandsMatch, CommandMatches, TypeOK
<1>4. InstancesHaveOwner' /\ TerminatedAreFinished' /\ ResultsOfOwnExecutor' /\ BacklogOnlyForAbsent'
  <2>1. InstancesHaveOwner'
    BY ZenonT(60) DEF InstancesHaveOwner, ReportQueued
  <2>2. TerminatedAreFinished' /\ BacklogOnlyForAbsent'
    BY ZenonT(60) DEF TerminatedAreFinished, BacklogOnlyForAbsent
  <2>3. ResultsOfOwnExecutor'
    BY ZenonT(60) DEF ResultsOfOwnExecutor
  <2> QED
    BY <2>1, <2>2, <2>3
<1>5. NotYetStarted'
  BY DEF NotYetStarted, TypeOK
<1>6. WaiterHasRunner'
  <2>1. \A d \in Calls : pc'[d] = "waitResult" => pc[d] = "waitResult"
    BY DEF TypeOK
  <2> QED
    BY <2>1, ZenonT(60) DEF WaiterHasRunner, ReportQueued, Open
<1> QED
  BY <1>1, <1>2, <1>3, <1>4, <1>5, <1>6

-----------------------------------------------------------------------------
(* The command branch of the manager. *)

\* Taking the first command: it is what CommandsMatch says of it, no other command of
\* the same call is left, and the reports of other executors stay queued.
LEMMA ReceiveFacts ==
  ASSUME IInv, NEW types, Receive(types)
  PROVE  LET cmd == Head(commands) IN
         /\ manager = "select"
         /\ cmd.type \in types
         /\ cmd.type \in {"create", "status", "store", "failed"}
         /\ cmd.call \in Calls /\ cmd.id \in Ids
         /\ cmd.id = request[cmd.call].id
         /\ cmd.type \in {"store", "failed"} =>
              /\ executor[cmd.call] = "done"
              /\ cmd.id \in DOMAIN instance_data
              /\ instance_data[cmd.id].owner = cmd.call
              /\ ~instance_data[cmd.id].finished
         /\ cmd.type \in {"create", "status"} =>
              /\ executor[cmd.call] = "none"
              /\ pc[cmd.call] \in {"wait", "gone"}
              /\ cmd.type = "status" <=> request[cmd.call].kind = "status"
         /\ commands' \in Seq(Command)
         /\ \A k \in 1..Len(commands') :
              /\ k + 1 \in 1..Len(commands)
              /\ commands'[k] = commands[k + 1]
              /\ commands'[k].call # cmd.call
              /\ commands'[k].call \in Calls
         /\ CommandsDistinct'
         /\ \A d \in Calls :
              ReportQueued(d) /\ (d # cmd.call \/ cmd.type \notin {"store", "failed"})
                => ReportQueued(d)'
<1> DEFINE cmd == Head(commands)
<1>1. /\ cmd = commands[1] /\ 1 \in 1..Len(commands)
      /\ commands' \in Seq(Command) /\ Len(commands') = Len(commands) - 1
      /\ \A k \in 1..Len(commands') : commands'[k] = commands[k + 1] /\ k + 1 \in 1..Len(commands)
      /\ Len(commands) \in Nat
  BY TailByIndex DEF Receive, IInv, TypeOK
<1>2. /\ cmd.type \in {"create", "status", "store", "failed"}
      /\ cmd.call \in Calls /\ cmd.id \in Ids
  BY <1>1, QueuedCommands DEF IInv
<1>3. \A k \in 1..Len(commands') : commands'[k].call # cmd.call /\ commands'[k].call \in Calls
  <2> SUFFICES ASSUME NEW k \in 1..Len(commands')
               PROVE  commands'[k].call # cmd.call /\ commands'[k].call \in Calls
    BY Zenon
  <2>1. /\ commands'[k] = commands[k + 1] /\ k + 1 \in 1..Len(commands) /\ k + 1 # 1
        /\ cmd = commands[1] /\ 1 \in 1..Len(commands)
    BY <1>1
  <2>2. commands[k + 1].call = commands[1].call => k + 1 = 1
    BY Zenon, <2>1 DEF IInv, CommandsDistinct
  <2>3. commands[k + 1].call \in Calls
    BY Zenon, <2>1, QueuedCommands DEF IInv
  <2> HIDE DEF cmd
  <2> QED
    BY Zenon, <2>1, <2>2, <2>3
<1>4. CommandsDistinct'
  BY <1>1 DEF IInv, CommandsDistinct
<1>5. \A d \in Calls :
        ReportQueued(d) /\ (d # cmd.call \/ cmd.type \notin {"store", "failed"})
          => ReportQueued(d)'
  <2> SUFFICES ASSUME NEW d \in Calls, NEW k \in 1..Len(commands),
                      commands[k].type \in {"store", "failed"}, commands[k].call = d,
                      d # cmd.call \/ cmd.type \notin {"store", "failed"}
               PROVE  \E j \in 1..Len(commands') :
                        commands'[j].type \in {"store", "failed"} /\ commands'[j].call = d
    BY DEF ReportQueued
  <2>1. k # 1
    BY <1>1
  <2>2. k - 1 \in 1..Len(commands') /\ commands'[k - 1] = commands[k]
    BY <1>1, <2>1
  <2> QED
    BY <2>2
<1>6. /\ cmd.id = request[cmd.call].id
      /\ cmd.type \in {"store", "failed"} =>
           /\ executor[cmd.call] = "done"
           /\ cmd.id \in DOMAIN instance_data
           /\ instance_data[cmd.id].owner = cmd.call
           /\ ~instance_data[cmd.id].finished
      /\ cmd.type \in {"create", "status"} =>
           /\ executor[cmd.call] = "none"
           /\ pc[cmd.call] \in {"wait", "gone"}
           /\ cmd.type = "status" <=> request[cmd.call].kind = "status"
  <2>1. CommandMatches(cmd)
    BY <1>1, Zenon DEF IInv, CommandsMatch
  <2> HIDE DEF cmd
  <2> QED
    BY <2>1, ZenonT(60) DEF CommandMatches
<1> QED
  BY <1>1, <1>2, <1>3, <1>4, <1>5, <1>6, Zenon DEF Receive

\* An answer to a call that waits for the first responder.  It disturbs no other call,
\* and is not the result of a protocol unless the call asks for a status.
LEMMA AnswerStep ==
  ASSUME IInv, NEW types \in SUBSET {"create", "status"}, Receive(types),
         NEW what \in Answers, NEW of \in Calls,
         what \in {"result", "error"} => types = {"status"},
         Answer(Head(commands).call, what, of),
         UNCHANGED <<request, manager, cacheVars, msgVars, executor>>
  PROVE  IInv'
<1> DEFINE c == Head(commands).call
<1> USE DEF IInv, cacheVars, msgVars
<1>1. /\ manager = "select" /\ Head(commands).type \in types /\ c \in Calls
      /\ commands' \in Seq(Command) /\ CommandsDistinct'
      /\ executor[c] = "none" /\ pc[c] \in {"wait", "gone"}
      /\ Head(commands).type = "status" <=> request[c].kind = "status"
      /\ \A k \in 1..Len(commands') :
           /\ k + 1 \in 1..Len(commands) /\ commands'[k] = commands[k + 1]
           /\ commands'[k].call # c /\ commands'[k].call \in Calls
      /\ \A d \in Calls : ReportQueued(d) => ReportQueued(d)'
  BY ReceiveFacts
<1>2. /\ pc' = [pc EXCEPT ![c] = IF pc[c] = "gone" THEN "gone" ELSE "done"]
      /\ reply' = [reply EXCEPT ![c] = IF pc[c] = "gone" THEN reply[c]
                                       ELSE [what |-> what, of |-> of]]
  BY Zenon DEF Answer, TypeOK
<1> HIDE DEF c
<1>3. TypeOK'
  BY <1>1, <1>2, Zenon DEF TypeOK, PcStates, Reply
<1>4. LiveExecutorsOwn' /\ DownHoldsNothing' /\ TerminatedAreFinished' /\ BacklogOnlyForAbsent'
  <2>1. LiveExecutorsOwn'
    BY Zenon DEF LiveExecutorsOwn
  <2>2. DownHoldsNothing'
    BY <1>1, Zenon DEF DownHoldsNothing
  <2>3. TerminatedAreFinished' /\ BacklogOnlyForAbsent'
    BY Zenon DEF TerminatedAreFinished, BacklogOnlyForAbsent
  <2> QED
    BY <2>1, <2>2, <2>3, Zenon
<1>5. CommandsMatch'
  <2>1. \A k \in 1..Len(commands') : pc'[commands'[k].call] = pc[commands'[k].call]
    BY <1>1, <1>2, Zenon DEF TypeOK
  <2> SUFFICES ASSUME NEW k \in 1..Len(commands') PROVE CommandMatches(commands[k])'
    BY DEF CommandsMatch
  <2>2. CommandMatches(commands[k + 1]) /\ commands'[k] = commands[k + 1]
    BY <1>1, Zenon DEF CommandsMatch
  <2> QED
    BY <2>1, <2>2, Zenon DEF CommandMatches
<1>6. InstancesHaveOwner'
  BY <1>1, Zenon DEF InstancesHaveOwner, TypeOK, Instance
<1>7. NotYetStarted'
  BY <1>1, <1>2, Zenon DEF NotYetStarted, TypeOK
<1>8. ResultsOfOwnExecutor'
  <2>1. \A d \in Calls \ {c} : reply'[d] = reply[d]
    BY <1>1, <1>2, ZenonT(60) DEF TypeOK
  <2>2. (request[c].kind = "sync" /\ reply'[c].what \in {"result", "error"}) => reply'[c].of = c
    <3>1. CASE pc[c] = "gone"
      BY <1>1, <1>2, <3>1, Zenon DEF TypeOK, ResultsOfOwnExecutor
    <3>2. CASE pc[c] # "gone"
      <4>1. reply'[c] = [what |-> what, of |-> of]
        BY <1>1, <1>2, <3>2, ZenonT(60) DEF TypeOK
      <4> QED
        BY <1>1, <4>1
    <3> QED
      BY <3>1, <3>2
  <2> QED
    BY <2>1, <2>2, Zenon DEF ResultsOfOwnExecutor
<1>9. WaiterHasRunner'
  <2>1. \A d \in Calls : pc'[d] = "waitResult" => pc[d] = "waitResult"
    BY Zenon, <1>1, <1>2 DEF TypeOK
  <2>2. \A d \in Calls : Open(d)' = Open(d)
    BY DEF Open
  <2> QED
    BY Zenon, <1>1, <2>1, <2>2 DEF WaiterHasRunner
<1> QED
  BY <1>1, <1>3, <1>4, <1>5, <1>6, <1>7, <1>8, <1>9

LEMMA CreateExistingStep == ASSUME IInv, CreateExisting PROVE IInv'
<1>1. Head(commands).call \in Calls
  BY ReceiveFacts DEF CreateExisting
<1> QED
  BY <1>1, AnswerStep DEF CreateExisting, Answers

LEMMA CreateWithoutKeyStep == ASSUME IInv, CreateWithoutKey PROVE IInv'
<1> DEFINE c == Head(commands).call
<1>1. c \in Calls
  BY ReceiveFacts DEF CreateWithoutKey
<1>2. OnDropped(c) \in {"unable_result", "unable_id", "panic"}
  BY DEF OnDropped
<1> DEFINE what == IF request[c].kind = "sync" THEN "aborted" ELSE OnDropped(c)
<1>3. what \in Answers /\ what \notin {"result", "error"}
  BY <1>2 DEF Answers
<1>4. /\ Receive({"create"}) /\ Answer(c, what, c)
      /\ UNCHANGED <<request, manager, cacheVars, msgVars, executor>>
  BY DEF CreateWithoutKey
<1> HIDE DEF what, c
<1> QED
  BY <1>1, <1>3, <1>4, AnswerStep DEF c

LEMMA StatusStep == ASSUME IInv, Status PROVE IInv'
<1> DEFINE c == Head(commands).call
           id == Head(commands).id
<1>1. c \in Calls
  BY Zenon, ReceiveFacts DEF Status
<1>2. /\ Receive({"status"})
      /\ UNCHANGED <<request, manager, cacheVars, msgVars, executor>>
  BY DEF Status
<1>3. CASE Answer(c, "notfound", c) \/ Answer(c, "pending", c) \/ Answer(c, "panic", c)
  BY <1>1, <1>2, <1>3, AnswerStep DEF Answers
<1>4. CASE /\ id \in DOMAIN instance_data /\ instance_data[id].finished
           /\ Answer(c, "result", instance_data[id].result.of)
  <2>1. instance_data[id].result.of \in Calls
    BY <1>4, Zenon DEF IInv, ResultsOfOwnExecutor, TypeOK, Instance
  <2> QED
    BY <1>1, <1>2, <1>4, <2>1, AnswerStep DEF Answers
<1> QED
  BY <1>3, <1>4, ZenonT(60) DEF Status

LEMMA DownStep == ASSUME IInv, Down PROVE IInv'
<1>0. TypeOK /\ NotYetStarted /\ ResultsOfOwnExecutor
  BY DEF IInv
<1>1. TypeOK'
  <2>1. \A c \in Calls : OnDropped(c) \in Answers
    BY DEF OnDropped, Answers
  <2>2. pc' \in [Calls -> PcStates]
    BY <1>0, Zenon DEF Down, TypeOK, PcStates
  <2>3. reply' \in [Calls -> Reply]
    BY <1>0, <2>1, ZenonT(60) DEF Down, TypeOK, Reply
  <2>4. /\ manager' = "down" /\ commands' = <<>> /\ incoming' = <<>> /\ held' = <<>>
        /\ DOMAIN instance_data' = {} /\ terminated_instances' = <<>>
        /\ DOMAIN backlog' = {} /\ UNCHANGED <<request, net, executor, chan, forward>>
    BY DEF Down, EmptyMap
  <2> QED
    BY <1>0, <2>2, <2>3, <2>4 DEF TypeOK
<1>2. LiveExecutorsOwn' /\ CommandsMatch' /\ CommandsDistinct' /\ DownHoldsNothing'
  <2>1. manager' = "down" /\ commands' = <<>> /\ DOMAIN instance_data' = {}
    BY DEF Down, EmptyMap
  <2> QED
    BY <2>1 DEF LiveExecutorsOwn, CommandsMatch, CommandsDistinct, DownHoldsNothing
<1>3. InstancesHaveOwner' /\ TerminatedAreFinished' /\ BacklogOnlyForAbsent'
  BY DEF Down, InstancesHaveOwner, TerminatedAreFinished, BacklogOnlyForAbsent, EmptyMap
<1>4. NotYetStarted'
  BY <1>0, ZenonT(60) DEF Down, NotYetStarted, TypeOK
<1>5. ResultsOfOwnExecutor'
  <2>1. \A c \in Calls : OnDropped(c) \notin {"result", "error"}
    BY ZenonT(60) DEF OnDropped
  <2> QED
    BY <1>0, <2>1 DEF Down, ResultsOfOwnExecutor, EmptyMap
<1>6. WaiterHasRunner'
  BY <1>0 DEF Down, WaiterHasRunner, TypeOK
<1> QED
  BY Zenon, <1>1, <1>2, <1>3, <1>4, <1>5, <1>6 DEF IInv

-----------------------------------------------------------------------------
(* The two commands that change the instance cache: the report of an executor and the *)
(* creation of an instance.                                                           *)

\* The report of an executor: the instance it finishes is the one that executor owns, so
\* the result is its own, the queue of terminated instances gets a new id, and the
\* synchronous caller, if it still waits, is the owner.
LEMMA TerminateStep == ASSUME IInv, Terminate PROVE IInv'
<1> DEFINE cmd == Head(commands)
           c == cmd.call
           id == cmd.id
           fin == [owner |-> c, finished |-> TRUE,
                   result |-> [ok |-> cmd.type = "store", of |-> c],
                   result_sender |-> FALSE]
<1> USE DEF IInv
<1>1. /\ manager = "select" /\ cmd.type \in {"store", "failed"} /\ c \in Calls /\ id \in Ids
      /\ id = request[c].id /\ executor[c] = "done"
      /\ id \in DOMAIN instance_data
      /\ instance_data[id].owner = c /\ ~instance_data[id].finished
      /\ commands' \in Seq(Command) /\ CommandsDistinct'
      /\ \A k \in 1..Len(commands') :
           /\ k + 1 \in 1..Len(commands) /\ commands'[k] = commands[k + 1]
           /\ commands'[k].call # c /\ commands'[k].call \in Calls
      /\ \A d \in Calls \ {c} : ReportQueued(d) => ReportQueued(d)'
  BY ReceiveFacts, Zenon DEF Terminate
<1>2. /\ instance_data' = [instance_data EXCEPT ![id] = fin]
      /\ terminated_instances' = Append(terminated_instances, id)
      /\ IF instance_data[id].result_sender
         THEN Answer(c, IF cmd.type = "store" THEN "result" ELSE "error", c)
         ELSE UNCHANGED <<pc, reply>>
      /\ UNCHANGED <<request, manager, msgVars, executor>>
  BY <1>1 DEF Terminate
<1>3. /\ fin \in Instance /\ fin.owner = c /\ fin.finished /\ ~fin.result_sender
      /\ fin.result \in Result /\ fin.result.of = c
  BY <1>1 DEF Instance, Result
<1> DEFINE what == IF cmd.type = "store" THEN "result" ELSE "error"
<1>4. what \in Answers
  BY DEF Answers
<1>5. IF instance_data[id].result_sender
      THEN /\ pc' = [pc EXCEPT ![c] = IF pc[c] = "gone" THEN "gone" ELSE "done"]
           /\ reply' = [reply EXCEPT ![c] = IF pc[c] = "gone" THEN reply[c]
                                            ELSE [what |-> what, of |-> c]]
      ELSE UNCHANGED <<pc, reply>>
  BY <1>1, <1>2, Zenon DEF Answer, TypeOK
<1> HIDE DEF cmd, c, id, fin, what
<1>6. /\ DOMAIN instance_data' = DOMAIN instance_data
      /\ instance_data'[id] = fin
      /\ \A i \in DOMAIN instance_data : i # id => instance_data'[i] = instance_data[i]
  BY <1>1, <1>2
<1>7. TypeOK'
  <2>1. pc' \in [Calls -> PcStates] /\ reply' \in [Calls -> Reply]
    <3>1. [what |-> what, of |-> c] \in Reply
      BY <1>1, <1>4 DEF Reply
    <3>2. CASE instance_data[id].result_sender
      <4>1. pc' \in [Calls -> PcStates]
        <5>1. \E p \in PcStates : pc' = [pc EXCEPT ![c] = p]
          BY <1>5, <3>2 DEF PcStates
        <5> QED
          BY <5>1, Zenon DEF TypeOK
      <4>2. \E r \in Reply : reply' = [reply EXCEPT ![c] = r]
        BY <1>1, <1>5, <3>1, <3>2 DEF TypeOK
      <4>3. reply' \in [Calls -> Reply]
        BY <4>2, Zenon DEF TypeOK
      <4> QED
        BY <4>1, <4>3
    <3>3. CASE ~instance_data[id].result_sender
      BY Zenon, <1>5, <3>3 DEF TypeOK
    <3> QED
      BY <3>2, <3>3
  <2>2. terminated_instances' \in Seq(Ids)
    BY <1>1, <1>2, AppendByIndex, Zenon DEF TypeOK
  <2> QED
    BY <1>1, <1>2, <1>3, <1>6, <2>1, <2>2, Zenon DEF TypeOK, msgVars
<1>8. \A i \in DOMAIN instance_data : i # id => instance_data[i].owner # c
  BY Zenon, <1>1 DEF InstancesHaveOwner
<1>9. LiveExecutorsOwn'
  <2> SUFFICES ASSUME NEW d \in Calls, executor[d] \notin {"none", "done"}
               PROVE  /\ request[d].id \in DOMAIN instance_data'
                      /\ instance_data'[request[d].id].owner = d
                      /\ ~instance_data'[request[d].id].finished
    BY <1>2 DEF LiveExecutorsOwn
  <2>1. /\ request[d].id \in DOMAIN instance_data
        /\ instance_data[request[d].id].owner = d
        /\ ~instance_data[request[d].id].finished
    BY <1>1 DEF LiveExecutorsOwn
  <2>2. request[d].id # id
    BY <1>1, <2>1
  <2> QED
    BY <1>6, <2>1, <2>2
<1>10. CommandsMatch'
  <2> SUFFICES ASSUME NEW k \in 1..Len(commands')
               PROVE  LET d == commands'[k].call IN
                      /\ commands'[k].id = request[d].id
                      /\ commands'[k].type \in {"store", "failed"} =>
                           /\ executor[d] = "done"
                           /\ request[d].id \in DOMAIN instance_data'
                           /\ instance_data'[request[d].id].owner = d
                           /\ ~instance_data'[request[d].id].finished
                      /\ commands'[k].type \in {"create", "status"} =>
                           /\ executor[d] = "none"
                           /\ pc'[d] \in {"wait", "gone"}
                           /\ commands'[k].type = "status" <=> request[d].kind = "status"
    BY <1>2, Zenon DEF CommandsMatch, CommandMatches
  <2> DEFINE d == commands'[k].call
  <2>1. /\ d \in Calls /\ d # c /\ k + 1 \in 1..Len(commands) /\ commands'[k] = commands[k + 1]
    BY <1>1
  <2>2. pc'[d] = pc[d]
    BY <1>5, <2>1 DEF TypeOK
  <2>3. LET e == commands[k + 1] IN
        /\ e.id = request[d].id
        /\ e.type \in {"store", "failed"} =>
             /\ executor[d] = "done"
             /\ request[d].id \in DOMAIN instance_data
             /\ instance_data[request[d].id].owner = d
             /\ ~instance_data[request[d].id].finished
        /\ e.type \in {"create", "status"} =>
             /\ executor[d] = "none"
             /\ pc[d] \in {"wait", "gone"}
             /\ e.type = "status" <=> request[d].kind = "status"
    BY <2>1, Zenon DEF CommandsMatch, CommandMatches
  <2>4. (request[d].id \in DOMAIN instance_data /\ instance_data[request[d].id].owner = d)
          => request[d].id # id
    BY Zenon, <1>1, <2>1
  <2> QED
    BY <1>6, <2>1, <2>2, <2>3, <2>4, Zenon
<1>11. InstancesHaveOwner'
  <2> DEFINE Queued(d) == \E k \in 1..Len(commands') :
               commands'[k].type \in {"store", "failed"} /\ commands'[k].call = d
  <2>a. \A d \in Calls \ {c} : ReportQueued(d) => Queued(d)
    BY <1>1 DEF ReportQueued
  <2> SUFFICES ASSUME NEW i \in DOMAIN instance_data
               PROVE  LET d == instance_data'[i].owner IN
                      /\ request[d].id = i
                      /\ executor[d] # "none"
                      /\ instance_data'[i].finished => ~instance_data'[i].result_sender
                      /\ instance_data'[i].result_sender => request[d].kind = "sync"
                      /\ (~instance_data'[i].finished /\ executor[d] = "done")
                           => Queued(d)
    BY Zenon, <1>2, <1>6 DEF InstancesHaveOwner, ReportQueued
  <2> HIDE DEF Queued
  <2>1. CASE i = id
    BY <1>1, <1>3, <1>6, <2>1, Zenon
  <2>2. CASE i # id
    <3>1. instance_data[i].owner \in Calls \ {c} /\ instance_data'[i] = instance_data[i]
      BY Zenon, <1>6, <1>8, <2>2 DEF TypeOK, Instance
    <3> QED
      BY <2>a, <3>1 DEF InstancesHaveOwner
  <2> QED
    BY Zenon, <2>1, <2>2
<1>12. NotYetStarted'
  BY Zenon, <1>1, <1>2, <1>5 DEF NotYetStarted, TypeOK
<1>13. DownHoldsNothing'
  BY <1>1, <1>2 DEF DownHoldsNothing
<1>14. TerminatedAreFinished'
  <2>1. /\ Len(terminated_instances') = Len(terminated_instances) + 1
        /\ Len(terminated_instances) \in Nat
        /\ terminated_instances'[Len(terminated_instances) + 1] = id
        /\ \A k \in 1..Len(terminated_instances) :
             terminated_instances'[k] = terminated_instances[k]
    BY <1>1, <1>2, AppendByIndex DEF TypeOK
  <2>2. \A k \in 1..Len(terminated_instances) : terminated_instances[k] # id
    BY Zenon, <1>1 DEF TerminatedAreFinished
  <2>3. \A j, k \in 1..Len(terminated_instances') :
          terminated_instances'[j] = terminated_instances'[k] => j = k
    <3> DEFINE n == Len(terminated_instances)
    <3>1. \A j, k \in 1..n : terminated_instances[j] = terminated_instances[k] => j = k
      BY Zenon, <1>1 DEF TerminatedAreFinished
    <3>2. 1..Len(terminated_instances') = 1..n \cup {n + 1}
      BY <2>1
    <3> HIDE DEF n
    <3> QED
      BY Zenon, <2>1, <2>2, <3>1, <3>2 DEF n
  <2>4. ASSUME NEW i \in Ids
        PROVE  (\E k \in 1..Len(terminated_instances') : terminated_instances'[k] = i)
                 <=> (i \in DOMAIN instance_data' /\ instance_data'[i].finished)
    <3>1. CASE i = id
      <4>1. \E k \in 1..Len(terminated_instances') : terminated_instances'[k] = i
        <5>1. Len(terminated_instances) + 1 \in 1..Len(terminated_instances')
          BY <2>1
        <5> QED
          BY <2>1, <3>1, <5>1, Zenon
      <4>2. i \in DOMAIN instance_data' /\ instance_data'[i].finished
        BY <1>1, <1>3, <1>6, <3>1, Zenon
      <4> QED
        BY <4>1, <4>2, Zenon
    <3>2. CASE i # id
      <4>1. (\E k \in 1..Len(terminated_instances') : terminated_instances'[k] = i)
              <=> (\E k \in 1..Len(terminated_instances) : terminated_instances[k] = i)
        <5>1. \A k \in 1..Len(terminated_instances) : k \in 1..Len(terminated_instances')
          BY <2>1
        <5>2. \A k \in 1..Len(terminated_instances') :
                k \in 1..Len(terminated_instances) \/ k = Len(terminated_instances) + 1
          BY <2>1
        <5> QED
          BY <2>1, <3>2, <5>1, <5>2, Zenon
      <4> QED
        BY <1>6, <3>2, <4>1 DEF TerminatedAreFinished
    <3> QED
      BY <3>1, <3>2
  <2> QED
    BY Zenon, <2>3, <2>4 DEF TerminatedAreFinished
<1>15. ResultsOfOwnExecutor'
  <2>1. \A i \in DOMAIN instance_data' : instance_data'[i].finished =>
          instance_data'[i].result \in Result /\ instance_data'[i].result.of = instance_data'[i].owner
    BY <1>3, <1>6 DEF ResultsOfOwnExecutor
  <2>2. ASSUME NEW d \in Calls, request[d].kind = "sync", reply'[d].what \in {"result", "error"}
        PROVE  reply'[d].of = d
    <3>1. reply'[d] = reply[d] \/ (d = c /\ reply'[d] = [what |-> what, of |-> c])
      <4>1. reply \in [Calls -> Reply]
        BY Zenon DEF TypeOK
      <4> QED
        BY <1>5, <4>1, Zenon
    <3>2. CASE reply'[d] = reply[d]
      BY <2>2, <3>2 DEF ResultsOfOwnExecutor
    <3> QED
      BY <3>1, <3>2
  <2> QED
    BY Zenon, <1>2, <2>1, <2>2 DEF ResultsOfOwnExecutor
<1>16. WaiterHasRunner'
  <2> SUFFICES ASSUME NEW d \in Calls, pc'[d] = "waitResult"
               PROVE  /\ request[d].id \in DOMAIN instance_data'
                      /\ instance_data'[request[d].id].owner = d
                      /\ ~instance_data'[request[d].id].finished
                      /\ instance_data'[request[d].id].result_sender
                      /\ Open(d) \/ ReportQueued(d)' \/ executor[d] = "panic"
    BY Zenon, <1>2 DEF WaiterHasRunner, Open
  <2>1. pc[d] = "waitResult"
    BY Zenon, <1>1, <1>5 DEF TypeOK
  <2>2. /\ request[d].id \in DOMAIN instance_data
        /\ instance_data[request[d].id].owner = d
        /\ ~instance_data[request[d].id].finished
        /\ instance_data[request[d].id].result_sender
        /\ Open(d) \/ ReportQueued(d) \/ executor[d] = "panic"
    BY Zenon, <2>1 DEF WaiterHasRunner
  <2>3. d # c
    <3> SUFFICES ASSUME d = c PROVE FALSE
      OBVIOUS
    <3>1. instance_data[id].result_sender
      BY <1>1, <2>2
    <3>2. pc'[c] # "waitResult"
      BY Zenon, <1>1, <1>5, <3>1 DEF TypeOK
    <3> QED
      BY <3>2
  <2>4. request[d].id # id
    BY Zenon, <1>1, <2>2, <2>3
  <2> QED
    BY Zenon, <1>1, <1>6, <2>2, <2>3, <2>4
<1>17. BacklogOnlyForAbsent'
  BY Zenon, <1>2, <1>6 DEF BacklogOnlyForAbsent, msgVars
<1> QED
  BY Zenon, <1>1, <1>7, <1>9, <1>10, <1>11, <1>12, <1>13, <1>14, <1>15, <1>16, <1>17

\* InstanceCache::insert: only finished instances are ejected, those at the front of the
\* queue of terminated instances, and the queue loses exactly these.
LEMMA InsertFacts ==
  ASSUME TypeOK, TerminatedAreFinished, NEW id \in Ids, NEW inst \in Instance,
         id \notin DOMAIN instance_data, ~inst.finished, insert(id, inst)
  PROVE  /\ id \in DOMAIN instance_data' /\ instance_data'[id] = inst
         /\ \A i \in DOMAIN instance_data' : i # id =>
              i \in DOMAIN instance_data /\ instance_data'[i] = instance_data[i]
         /\ \A i \in DOMAIN instance_data : ~instance_data[i].finished =>
              i \in DOMAIN instance_data'
         /\ terminated_instances' \in Seq(Ids)
         /\ TerminatedAreFinished'
<1> DEFINE T == terminated_instances
           n == IF Cardinality(DOMAIN instance_data) >= Capacity THEN EjectCount ELSE 0
<1>0. T \in Seq(Ids) /\ Len(T) \in Nat
  BY DEF TypeOK
<1>1. n \in 0..Len(T)
  BY <1>0, CacheAssumption DEF EjectCount
<1>2. Ejected = {T[k] : k \in 1..n}
  BY <1>1 DEF Ejected
<1>3. /\ terminated_instances' \in Seq(Ids)
      /\ Len(terminated_instances') = Len(T) - n
      /\ \A k \in 1..Len(terminated_instances') : terminated_instances'[k] = T[k + n]
  <2>1. CASE Cardinality(DOMAIN instance_data) >= Capacity
    BY Zenon, <1>0, <1>1, <2>1, DropByIndex DEF insert
  <2>2. CASE ~(Cardinality(DOMAIN instance_data) >= Capacity)
    BY <1>0, <2>2 DEF insert
  <2> QED
    BY <2>1, <2>2
<1>4. \A i \in Ejected : i \in DOMAIN instance_data /\ instance_data[i].finished
  <2> SUFFICES ASSUME NEW k \in 1..n
               PROVE  T[k] \in DOMAIN instance_data /\ instance_data[T[k]].finished
    BY <1>2
  <2>1. k \in 1..Len(T) /\ T[k] \in Ids
    BY <1>0, <1>1
  <2> QED
    BY <2>1 DEF TerminatedAreFinished
<1>5. /\ DOMAIN instance_data' = (DOMAIN instance_data \ Ejected) \cup {id}
      /\ instance_data'[id] = inst
      /\ \A i \in DOMAIN instance_data' : i # id => instance_data'[i] = instance_data[i]
  BY DEF insert
<1> HIDE DEF n
<1>6. TerminatedAreFinished'
  <2>1. ASSUME NEW j \in 1..Len(terminated_instances'), NEW k \in 1..Len(terminated_instances'),
               terminated_instances'[j] = terminated_instances'[k]
        PROVE  j = k
    <3>1. j + n \in 1..Len(T) /\ k + n \in 1..Len(T) /\ T[j + n] = T[k + n]
      BY <1>0, <1>1, <1>3, <2>1
    <3>2. j + n = k + n
      BY <3>1 DEF TerminatedAreFinished
    <3> QED
      BY <1>0, <1>1, <3>2
  <2>2. ASSUME NEW i \in Ids
        PROVE  (\E k \in 1..Len(terminated_instances') : terminated_instances'[k] = i)
                 <=> (i \in DOMAIN instance_data' /\ instance_data'[i].finished)
    <3>1. ASSUME NEW k \in 1..Len(terminated_instances'), terminated_instances'[k] = i
          PROVE  i \in DOMAIN instance_data' /\ instance_data'[i].finished
      <4>1. k + n \in 1..Len(T) /\ T[k + n] = i
        BY <1>0, <1>1, <1>3, <3>1
      <4>2. i \in DOMAIN instance_data /\ instance_data[i].finished
        BY <4>1 DEF TerminatedAreFinished
      <4>3. i \notin Ejected
        <5> SUFFICES ASSUME NEW j \in 1..n, T[j] = i PROVE FALSE
          BY <1>2
        <5>1. j \in 1..Len(T) /\ j # k + n
          BY <1>0, <1>1, <1>3
        <5> QED
          BY <4>1, <5>1 DEF TerminatedAreFinished
      <4> QED
        BY <1>5, <4>2, <4>3
    <3>2. ASSUME i \in DOMAIN instance_data', instance_data'[i].finished
          PROVE  \E k \in 1..Len(terminated_instances') : terminated_instances'[k] = i
      <4>1. i # id /\ i \in DOMAIN instance_data /\ i \notin Ejected /\ instance_data[i].finished
        BY <1>5, <3>2
      <4>2. PICK k \in 1..Len(T) : T[k] = i
        BY Zenon, <4>1 DEF TerminatedAreFinished
      <4>3. k \notin 1..n
        BY Zenon, <1>2, <4>1, <4>2
      <4>4. k - n \in 1..Len(terminated_instances') /\ terminated_instances'[k - n] = i
        BY <1>0, <1>1, <1>3, <4>2, <4>3
      <4> QED
        BY <4>4
    <3> QED
      BY <3>1, <3>2
  <2> QED
    BY <2>1, <2>2 DEF TerminatedAreFinished
<1> QED
  BY <1>3, <1>4, <1>5, <1>6

LEMMA CreateNewStep == ASSUME IInv, CreateNew PROVE IInv'
<1> DEFINE cmd == Head(commands)
           c == cmd.call
           id == cmd.id
           inst == [owner |-> c, finished |-> FALSE, result |-> NoResult,
                    result_sender |-> request[c].kind = "sync"]
<1> USE DEF IInv
<1>1. /\ manager = "select" /\ c \in Calls /\ id \in Ids /\ id = request[c].id
      /\ executor[c] = "none" /\ pc[c] \in {"wait", "gone"}
      /\ commands' \in Seq(Command) /\ CommandsDistinct'
      /\ \A k \in 1..Len(commands') :
           /\ k + 1 \in 1..Len(commands) /\ commands'[k] = commands[k + 1]
           /\ commands'[k].call # c /\ commands'[k].call \in Calls
      /\ \A d \in Calls : ReportQueued(d) => ReportQueued(d)'
  BY ReceiveFacts, Zenon DEF CreateNew
<1>2. /\ id \notin DOMAIN instance_data
      /\ insert(id, inst)
      /\ executor' = [executor EXCEPT ![c] = "init"]
      /\ forward' = [forward EXCEPT ![c] =
                       IF id \in DOMAIN backlog THEN backlog[id].messages ELSE forward[c]]
      /\ backlog' = [i \in DOMAIN backlog \ {id} |-> backlog[i]]
      /\ UNCHANGED <<request, manager, net, incoming, held, chan>>
  BY <1>1, Zenon DEF CreateNew, BacklogWithout, TypeOK
<1>3. /\ inst \in Instance /\ inst.owner = c /\ ~inst.finished
      /\ inst.result_sender = (request[c].kind = "sync")
  BY <1>1, ZenonT(60) DEF Instance
<1>4. /\ id \in DOMAIN instance_data' /\ instance_data'[id] = inst
      /\ \A i \in DOMAIN instance_data' : i # id =>
           i \in DOMAIN instance_data /\ instance_data'[i] = instance_data[i]
      /\ \A i \in DOMAIN instance_data : ~instance_data[i].finished =>
           i \in DOMAIN instance_data'
      /\ terminated_instances' \in Seq(Ids)
      /\ TerminatedAreFinished'
  <2>1. TypeOK /\ TerminatedAreFinished
    BY Zenon
  <2> HIDE DEF inst, IInv
  <2> QED
    BY <1>1, <1>2, <1>3, <2>1, InsertFacts, ZenonT(60)
<1>5. /\ \E p \in {"gone", "done", "waitResult"} :
           /\ pc' = [pc EXCEPT ![c] = p]
           /\ p = "waitResult" => request[c].kind = "sync"
      /\ \/ reply' = reply
         \/ reply' = [reply EXCEPT ![c] = [what |-> "id", of |-> c]]
  <2>1. CASE request[c].kind = "sync"
    BY <1>1, <2>1, Zenon DEF CreateNew, TypeOK
  <2>2. CASE request[c].kind # "sync"
    <3>1. Answer(c, "id", c)
      BY <2>2 DEF CreateNew
    <3>2. reply[c] \in Reply /\ [reply EXCEPT ![c] = reply[c]] = reply
      BY Zenon, <1>1 DEF TypeOK
    <3> QED
      BY <1>1, <2>2, <3>1, <3>2, ZenonT(60) DEF Answer, TypeOK
  <2> QED
    BY Zenon, <2>1, <2>2
<1> HIDE DEF cmd, c, id, inst
<1>p. PICK p \in {"gone", "done", "waitResult"} :
        /\ pc' = [pc EXCEPT ![c] = p]
        /\ p = "waitResult" => request[c].kind = "sync"
  BY <1>5, Zenon
<1>6. TypeOK'
  <2>1. pc' \in [Calls -> PcStates]
    BY Zenon, <1>1, <1>p DEF TypeOK, PcStates
  <2>2. [what |-> "id", of |-> c] \in Reply
    BY Zenon, <1>1 DEF Reply, Answers
  <2>3. reply' \in [Calls -> Reply]
    <3>1. CASE reply' = reply
      BY Zenon, <3>1 DEF TypeOK
    <3>2. CASE reply' = [reply EXCEPT ![c] = [what |-> "id", of |-> c]]
      BY <2>2, <3>2, Zenon DEF TypeOK
    <3> QED
      BY Zenon, <1>5, <3>1, <3>2
  <2>4. \A i \in DOMAIN instance_data' : i \in Ids /\ instance_data'[i] \in Instance
    BY <1>1, <1>3, <1>4, Zenon DEF TypeOK
  <2>5. executor' \in [Calls -> ExecStates]
    BY <1>1, <1>2, ZenonT(60) DEF TypeOK, ExecStates
  <2>6. /\ DOMAIN backlog' \subseteq Ids
        /\ \A i \in DOMAIN backlog' : backlog'[i] \in BacklogData
    BY Zenon, <1>2 DEF TypeOK
  <2>7. id \in DOMAIN backlog => backlog[id].messages \in Seq(Message)
    BY Zenon DEF TypeOK, BacklogData
  <2>8. forward' \in [Calls -> Seq(Message)]
    BY <1>1, <1>2, <2>7, Zenon DEF TypeOK
  <2> QED
    BY <1>1, <1>2, <1>4, <2>1, <2>3, <2>4, <2>5, <2>6, <2>8, ZenonT(60) DEF TypeOK
<1>7. /\ executor'[c] = "init"
      /\ \A d \in Calls : d # c => executor'[d] = executor[d] /\ pc'[d] = pc[d]
  BY <1>1, <1>2, <1>p, ZenonT(60) DEF TypeOK
<1>8. \A d \in Calls : (executor[d] # "none" /\ request[d].id \in DOMAIN instance_data
                        /\ ~instance_data[request[d].id].finished)
        => /\ request[d].id \in DOMAIN instance_data'
           /\ instance_data'[request[d].id] = instance_data[request[d].id]
  BY Zenon, <1>2, <1>4
<1>9. LiveExecutorsOwn'
  <2> SUFFICES ASSUME NEW d \in Calls, executor'[d] \notin {"none", "done"}
               PROVE  /\ request[d].id \in DOMAIN instance_data'
                      /\ instance_data'[request[d].id].owner = d
                      /\ ~instance_data'[request[d].id].finished
    BY Zenon, <1>2 DEF LiveExecutorsOwn
  <2>1. CASE d = c
    BY Zenon, <1>1, <1>3, <1>4, <2>1
  <2>2. CASE d # c
    <3>1. /\ executor[d] \notin {"none", "done"}
          /\ request[d].id \in DOMAIN instance_data
          /\ instance_data[request[d].id].owner = d
          /\ ~instance_data[request[d].id].finished
      BY Zenon, <1>1, <1>7, <2>2 DEF LiveExecutorsOwn
    <3> QED
      BY Zenon, <1>8, <3>1
  <2> QED
    BY ZenonT(60), <2>1, <2>2
<1>10. CommandsMatch'
  <2> SUFFICES ASSUME NEW k \in 1..Len(commands')
               PROVE  LET d == commands'[k].call IN
                      /\ commands'[k].id = request[d].id
                      /\ commands'[k].type \in {"store", "failed"} =>
                           /\ executor'[d] = "done"
                           /\ request[d].id \in DOMAIN instance_data'
                           /\ instance_data'[request[d].id].owner = d
                           /\ ~instance_data'[request[d].id].finished
                      /\ commands'[k].type \in {"create", "status"} =>
                           /\ executor'[d] = "none"
                           /\ pc'[d] \in {"wait", "gone"}
                           /\ commands'[k].type = "status" <=> request[d].kind = "status"
    BY <1>2, Zenon DEF CommandsMatch, CommandMatches
  <2> DEFINE d == commands'[k].call
  <2>1. /\ d \in Calls /\ d # c /\ k + 1 \in 1..Len(commands) /\ commands'[k] = commands[k + 1]
    BY Zenon, <1>1
  <2>2. LET e == commands[k + 1] IN
        /\ e.id = request[d].id
        /\ e.type \in {"store", "failed"} =>
             /\ executor[d] = "done"
             /\ request[d].id \in DOMAIN instance_data
             /\ instance_data[request[d].id].owner = d
             /\ ~instance_data[request[d].id].finished
        /\ e.type \in {"create", "status"} =>
             /\ executor[d] = "none"
             /\ pc[d] \in {"wait", "gone"}
             /\ e.type = "status" <=> request[d].kind = "status"
    BY <2>1, ZenonT(60) DEF CommandsMatch, CommandMatches
  <2> QED
    BY <1>7, <1>8, <2>1, <2>2, Zenon
<1>11. InstancesHaveOwner'
  <2> DEFINE Queued(d) == \E k \in 1..Len(commands') :
               commands'[k].type \in {"store", "failed"} /\ commands'[k].call = d
  <2>a. \A d \in Calls : ReportQueued(d) => Queued(d)
    BY <1>1 DEF ReportQueued
  <2> SUFFICES ASSUME NEW i \in DOMAIN instance_data'
               PROVE  LET d == instance_data'[i].owner IN
                      /\ request[d].id = i
                      /\ executor'[d] # "none"
                      /\ instance_data'[i].finished => ~instance_data'[i].result_sender
                      /\ instance_data'[i].result_sender => request[d].kind = "sync"
                      /\ (~instance_data'[i].finished /\ executor'[d] = "done")
                           => Queued(d)
    BY Zenon, <1>2 DEF InstancesHaveOwner, ReportQueued
  <2> HIDE DEF Queued
  <2>1. CASE i = id
    BY <1>1, <1>3, <1>4, <1>7, <2>1, Zenon
  <2>2. CASE i # id
    <3>1. /\ i \in DOMAIN instance_data /\ instance_data'[i] = instance_data[i]
          /\ instance_data[i].owner \in Calls
      BY Zenon, <1>4, <2>2 DEF TypeOK, Instance
    <3>2. instance_data[i].owner # c
      BY Zenon, <1>1, <3>1 DEF InstancesHaveOwner
    <3> QED
      BY <1>7, <2>a, <3>1, <3>2, ZenonT(60) DEF InstancesHaveOwner
  <2> QED
    BY Zenon, <2>1, <2>2
<1>12. NotYetStarted'
  BY <1>1, <1>p, <1>7, ZenonT(60) DEF NotYetStarted, TypeOK
<1>13. DownHoldsNothing'
  BY Zenon, <1>1, <1>2 DEF DownHoldsNothing
<1>14. ResultsOfOwnExecutor'
  <2>1. \A i \in DOMAIN instance_data' : instance_data'[i].finished =>
          instance_data'[i].result \in Result /\ instance_data'[i].result.of = instance_data'[i].owner
    BY Zenon, <1>3, <1>4 DEF ResultsOfOwnExecutor
  <2>2. ASSUME NEW d \in Calls, request[d].kind = "sync", reply'[d].what \in {"result", "error"}
        PROVE  reply'[d].of = d
    <3>1. reply'[d] = reply[d] \/ reply'[d] = [what |-> "id", of |-> c]
      BY Zenon, <1>1, <1>5 DEF TypeOK
    <3>2. CASE reply'[d] = reply[d]
      BY Zenon, <2>2, <3>2 DEF ResultsOfOwnExecutor
    <3>3. CASE reply'[d] = [what |-> "id", of |-> c]
      <4>1. reply'[d].what = "id"
        BY <3>3
      <4> HIDE <3>3
      <4> QED
        BY <2>2, <4>1
    <3> QED
      BY <3>1, <3>2, <3>3
  <2> QED
    BY Zenon, <1>2, <2>1, <2>2 DEF ResultsOfOwnExecutor
<1>15. WaiterHasRunner'
  <2> SUFFICES ASSUME NEW d \in Calls, pc'[d] = "waitResult"
               PROVE  /\ request[d].id \in DOMAIN instance_data'
                      /\ instance_data'[request[d].id].owner = d
                      /\ ~instance_data'[request[d].id].finished
                      /\ instance_data'[request[d].id].result_sender
                      /\ Open(d)' \/ ReportQueued(d)' \/ executor'[d] = "panic"
    BY Zenon, <1>2 DEF WaiterHasRunner
  <2>1. CASE d = c
    <3>1. request[c].kind = "sync"
      BY <1>1, <1>p, <2>1, ZenonT(60) DEF TypeOK
    <3> QED
      BY <1>1, <1>3, <1>4, <1>7, <2>1, <3>1, Zenon DEF Open
  <2>2. CASE d # c
    <3>1. pc[d] = "waitResult" /\ executor'[d] = executor[d]
      BY ZenonT(60), <1>7, <2>2
    <3>2. /\ request[d].id \in DOMAIN instance_data
          /\ instance_data[request[d].id].owner = d
          /\ ~instance_data[request[d].id].finished
          /\ instance_data[request[d].id].result_sender
          /\ Open(d) \/ ReportQueued(d) \/ executor[d] = "panic"
      BY Zenon, <3>1 DEF WaiterHasRunner
    <3>3. executor[d] # "none"
      BY Zenon, <3>2 DEF InstancesHaveOwner
    <3> QED
      BY Zenon, <1>1, <1>8, <3>1, <3>2, <3>3 DEF Open
  <2> QED
    BY ZenonT(60), <2>1, <2>2
<1>16. BacklogOnlyForAbsent'
  BY Zenon, <1>2, <1>4 DEF BacklogOnlyForAbsent
<1> QED
  BY Zenon, <1>1, <1>4, <1>6, <1>9, <1>10, <1>11, <1>12, <1>13, <1>14, <1>15, <1>16

-----------------------------------------------------------------------------
(* Messages: the incoming branch, the tick, the network and the forwarding tasks. *)

\* A step that moves only messages keeps what is said of commands, executors and cache.
LEMMA MessageStep ==
  ASSUME IInv, TypeOK', BacklogOnlyForAbsent', manager' = manager \/ manager # "down",
         manager' = "down" => manager = "down",
         UNCHANGED <<rpcVars, commands, cacheVars, executor>>
  PROVE  IInv'
<1> USE DEF IInv, rpcVars, cacheVars
<1>0. LiveExecutorsOwn' /\ CommandsDistinct' /\ DownHoldsNothing'
  BY ZenonT(60) DEF LiveExecutorsOwn, CommandsDistinct, DownHoldsNothing
<1>1. CommandsMatch'
  <2>1. CommandsMatch
    BY Zenon
  <2> QED
    BY <2>1, ZenonT(60) DEF CommandsMatch, CommandMatches
<1>2. InstancesHaveOwner' /\ NotYetStarted' /\ TerminatedAreFinished' /\ ResultsOfOwnExecutor'
  <2>1. InstancesHaveOwner'
    BY Zenon DEF InstancesHaveOwner, ReportQueued
  <2>2. NotYetStarted'
    BY Zenon DEF NotYetStarted
  <2>3. TerminatedAreFinished'
    BY Zenon DEF TerminatedAreFinished
  <2>4. ResultsOfOwnExecutor'
    BY Zenon DEF ResultsOfOwnExecutor
  <2> QED
    BY Zenon, <2>1, <2>2, <2>3, <2>4
<1>3. WaiterHasRunner'
  BY Zenon DEF WaiterHasRunner, ReportQueued, Open
<1> QED
  BY ZenonT(60), <1>0, <1>1, <1>2, <1>3

\* A send on the channel of an instance appends a message or changes nothing.
LEMMA SendType ==
  ASSUME TypeOK, NEW c \in Calls, NEW m \in Message, SendReturns(c, m)
  PROVE  chan' \in [Calls -> Seq(Message)]
<1>1. chan[c] \in Seq(Message) /\ Append(chan[c], m) \in Seq(Message)
  BY Zenon, AppendByIndex DEF TypeOK
<1> QED
  BY <1>1, Zenon DEF SendReturns, TypeOK

LEMMA DeliverStep == ASSUME IInv, Deliver PROVE IInv'
<1> USE DEF IInv, Deliver, rpcVars, cacheVars
<1>1. Head(incoming) \in Message /\ Tail(incoming) \in Seq(Message)
  BY Zenon, NextIncoming
<1>2. [msg |-> Head(incoming), to |-> instance_data[Head(incoming).id].owner]
        \in [msg : Message, to : Calls]
  BY Zenon, <1>1 DEF TypeOK, Instance
<1>3. held' \in Seq([msg : Message, to : Calls]) /\ Len(held') = 1
  BY Zenon, <1>2, Singleton
<1>4. TypeOK'
  BY Zenon, <1>1, <1>3 DEF TypeOK
<1>5. BacklogOnlyForAbsent'
  BY Zenon DEF BacklogOnlyForAbsent
<1> QED
  BY Zenon, <1>4, <1>5, MessageStep

\* The message the manager is sending.
LEMMA OnlyElement ==
  ASSUME NEW S, NEW s \in Seq(S), Len(s) = 1
  PROVE  s[1] \in S
  OBVIOUS

LEMMA DeliveredStep == ASSUME IInv, Delivered PROVE IInv'
<1> USE DEF IInv, Delivered, BackToSelect, rpcVars, cacheVars
<1>1. held[1].msg \in Message /\ held[1].to \in Calls
  <2>1. held \in Seq([msg : Message, to : Calls]) /\ Len(held) = 1
    BY Zenon DEF TypeOK
  <2>2. held[1] \in [msg : Message, to : Calls]
    BY <2>1, OnlyElement, Zenon
  <2> QED
    BY <2>2
<1>2. chan' \in [Calls -> Seq(Message)]
  BY Zenon, <1>1, SendType
<1>3. TypeOK'
  <2>1. held' = <<>> /\ manager' = "select"
    BY Zenon
  <2>2. /\ held' \in Seq([msg : Message, to : Calls])
        /\ Len(held') = IF manager' = "sending" THEN 1 ELSE 0
    <3> HIDE DEF IInv, Delivered
    <3> QED
      BY <2>1
  <2> QED
    BY Zenon, <1>2, <2>1, <2>2 DEF TypeOK
<1>4. BacklogOnlyForAbsent'
  BY Zenon DEF BacklogOnlyForAbsent
<1> QED
  BY <1>3, <1>4, MessageStep

LEMMA DiscardStep == ASSUME IInv, Discard PROVE IInv'
<1> USE DEF IInv, Discard, rpcVars, cacheVars
<1>1. Tail(incoming) \in Seq(Message)
  BY Zenon, TailByIndex DEF TypeOK
<1>2. TypeOK'
  BY Zenon, <1>1 DEF TypeOK
<1>3. BacklogOnlyForAbsent'
  BY Zenon DEF BacklogOnlyForAbsent
<1> QED
  BY Zenon, <1>2, <1>3, MessageStep

LEMMA BacklogStep == ASSUME IInv, Backlog PROVE IInv'
<1> DEFINE m == Head(incoming)
<1> USE DEF IInv, rpcVars, cacheVars
<1>1. m \in Message /\ m.id \in Ids /\ Tail(incoming) \in Seq(Message)
  <2>1. m \in Message /\ Tail(incoming) \in Seq(Message)
    BY Zenon, NextIncoming DEF Backlog
  <2> QED
    BY <2>1 DEF Message
<1>2. <<m>> \in Seq(Message)
  BY Zenon, <1>1, Singleton
<1>3. m.id \in DOMAIN backlog =>
        /\ Append(backlog[m.id].messages, m) \in Seq(Message)
        /\ backlog[m.id].checked \in BOOLEAN
  BY Zenon, <1>1, AppendByIndex DEF TypeOK, BacklogData
<1>4. /\ DOMAIN backlog' = DOMAIN backlog \cup {m.id}
      /\ \A i \in DOMAIN backlog : i # m.id => backlog'[i] = backlog[i]
      /\ backlog'[m.id] = IF m.id \in DOMAIN backlog
                          THEN [messages |-> Append(backlog[m.id].messages, m),
                                checked |-> backlog[m.id].checked]
                          ELSE [messages |-> <<m>>, checked |-> FALSE]
  BY Zenon DEF Backlog
<1>5. backlog'[m.id] \in BacklogData
  <2> HIDE DEF IInv, m
  <2>1. CASE m.id \in DOMAIN backlog
    BY <1>3, <1>4, <2>1 DEF BacklogData
  <2>2. CASE m.id \notin DOMAIN backlog
    BY <1>2, <1>4, <2>2 DEF BacklogData
  <2> QED
    BY Zenon, <2>1, <2>2
<1>6. \A i \in DOMAIN backlog' : i \in Ids /\ backlog'[i] \in BacklogData
  BY Zenon, <1>1, <1>4, <1>5 DEF TypeOK
<1>7. TypeOK'
  BY <1>1, <1>6, Zenon DEF Backlog, TypeOK
<1>8. BacklogOnlyForAbsent'
  BY <1>4, Zenon DEF Backlog, BacklogOnlyForAbsent
<1> QED
  BY Zenon, <1>7, <1>8, MessageStep DEF Backlog

LEMMA TickStep == ASSUME IInv, Tick PROVE IInv'
<1> USE DEF IInv, Tick, rpcVars, cacheVars
<1>1. \A i \in DOMAIN backlog' : i \in DOMAIN backlog /\ backlog'[i] \in BacklogData
  BY Zenon DEF TypeOK, BacklogData
<1>2. TypeOK'
  BY <1>1, Zenon DEF TypeOK
<1>3. BacklogOnlyForAbsent'
  BY Zenon DEF BacklogOnlyForAbsent
<1> QED
  BY Zenon, <1>2, <1>3, MessageStep

LEMMA NetReceiveStep ==
  ASSUME NEW t \in Tags, NEW id \in Ids, IInv, NetReceive(t, id) PROVE IInv'
<1> USE DEF IInv, NetReceive, rpcVars, cacheVars
<1>1. [tag |-> t, id |-> id] \in Message
  BY DEF Message
<1>2. Append(incoming, [tag |-> t, id |-> id]) \in Seq(Message)
  BY Zenon, <1>1, AppendByIndex DEF TypeOK
<1>3. TypeOK'
  BY Zenon, <1>2 DEF TypeOK
<1>4. BacklogOnlyForAbsent'
  BY Zenon DEF BacklogOnlyForAbsent
<1> QED
  BY Zenon, <1>3, <1>4, MessageStep

LEMMA ForwardStep == ASSUME NEW c \in Calls, IInv, Forward(c) PROVE IInv'
<1> USE DEF IInv, Forward, rpcVars, cacheVars
<1>1. forward[c] \in Seq(Message) /\ Head(forward[c]) \in Message /\ Tail(forward[c]) \in Seq(Message)
  BY Zenon, NextForwarded
<1>2. chan' \in [Calls -> Seq(Message)]
  BY Zenon, <1>1, SendType
<1>3. TypeOK'
  BY <1>1, <1>2, Zenon DEF TypeOK
<1>4. BacklogOnlyForAbsent'
  BY DEF BacklogOnlyForAbsent
<1> QED
  BY ZenonT(60), <1>3, <1>4, MessageStep

-----------------------------------------------------------------------------
(* The executors. *)

\* An executor that goes on inside run, or returns from it, still owns its instance.
LEMMA ExecutorStep ==
  ASSUME IInv, TypeOK', NEW c \in Calls, executor[c] \in {"init", "run"},
         NEW next \in {"run", "ok", "err", "panic"},
         executor' = [executor EXCEPT ![c] = next],
         UNCHANGED <<rpcVars, commands, manager, cacheVars, backlog>>
  PROVE  IInv'
<1> USE DEF IInv, rpcVars, cacheVars
<1>1. executor'[c] = next /\ \A d \in Calls : d # c => executor'[d] = executor[d]
  BY Zenon DEF TypeOK
<1>2. LiveExecutorsOwn' /\ CommandsDistinct' /\ DownHoldsNothing'
  BY <1>1, ZenonT(60) DEF LiveExecutorsOwn, CommandsDistinct, DownHoldsNothing
<1>3. CommandsMatch'
  <2>1. \A k \in 1..Len(commands) : commands[k].call # c
    BY Zenon, QueuedCommands DEF CommandsMatch, CommandMatches
  <2>2. \A k \in 1..Len(commands) : executor'[commands[k].call] = executor[commands[k].call]
    BY Zenon, <1>1, <2>1, QueuedCommands
  <2> QED
    BY ZenonT(60), <2>2 DEF CommandsMatch, CommandMatches
<1>4. InstancesHaveOwner'
  <2>1. \A i \in DOMAIN instance_data : instance_data[i].owner \in Calls
    BY Zenon DEF TypeOK, Instance
  <2> QED
    BY <1>1, <2>1 DEF InstancesHaveOwner, ReportQueued
<1>5. NotYetStarted' /\ TerminatedAreFinished' /\ ResultsOfOwnExecutor' /\ BacklogOnlyForAbsent'
  <2>1. NotYetStarted'
    BY Zenon, <1>1 DEF NotYetStarted
  <2>2. TerminatedAreFinished'
    BY Zenon DEF TerminatedAreFinished
  <2>3. ResultsOfOwnExecutor'
    BY Zenon, <1>1 DEF ResultsOfOwnExecutor
  <2>4. BacklogOnlyForAbsent'
    BY Zenon DEF BacklogOnlyForAbsent
  <2> QED
    BY Zenon, <2>1, <2>2, <2>3, <2>4
<1>6. WaiterHasRunner'
  BY Zenon, <1>1 DEF WaiterHasRunner, ReportQueued, Open
<1> QED
  BY <1>2, <1>3, <1>4, <1>5, <1>6

LEMMA ExecFirstRoundStep == ASSUME NEW c \in Calls, IInv, ExecFirstRound(c) PROVE IInv'
<1> USE DEF IInv, ExecFirstRound, ExecUnchanged, rpcVars, cacheVars
<1>1. TypeOK'
  BY Zenon DEF TypeOK, ExecStates
<1> QED
  BY <1>1, ExecutorStep, Zenon

LEMMA ExecMessageStep == ASSUME NEW c \in Calls, IInv, ExecMessage(c) PROVE IInv'
<1> USE DEF IInv, ExecMessage, ExecUnchanged, rpcVars, cacheVars
<1>1. PICK next \in {"run", "ok", "err", "panic"} : executor' = [executor EXCEPT ![c] = next]
  BY Zenon
<1>2. Tail(chan[c]) \in Seq(Message)
  BY TailByIndex, Zenon DEF TypeOK
<1>3. TypeOK'
  BY <1>1, <1>2, Zenon DEF TypeOK, ExecStates
<1> QED
  BY <1>1, <1>3, ExecutorStep, Zenon

LEMMA ExecChannelClosedStep == ASSUME NEW c \in Calls, IInv, ExecChannelClosed(c) PROVE IInv'
<1> USE DEF IInv, ExecChannelClosed, ExecUnchanged, rpcVars, cacheVars
<1>1. TypeOK'
  BY Zenon DEF TypeOK, ExecStates
<1> QED
  BY <1>1, ExecutorStep, Zenon

LEMMA ExecReportStep == ASSUME NEW c \in Calls, IInv, ExecReport(c) PROVE IInv'
<1> DEFINE e == [type |-> IF executor[c] = "ok" THEN "store" ELSE "failed",
                 call |-> c, id |-> request[c].id]
<1> USE DEF IInv, ExecReport, ExecUnchanged, rpcVars, cacheVars
<1>1. executor'[c] = "done" /\ \A d \in Calls : d # c => executor'[d] = executor[d]
  BY Zenon DEF TypeOK
<1>2. e \in Command /\ e.call = c /\ e.id = request[c].id /\ e.type \in {"store", "failed"}
  BY Zenon DEF TypeOK, Command, Request
<1>3. \A k \in 1..Len(commands) : commands[k].call # c
  BY QueuedCommands, Zenon DEF CommandsMatch, CommandMatches
<1>4. CASE manager # "down"
  <2>1. commands' = Append(commands, e)
    BY <1>4 DEF Report
  <2> HIDE DEF e
  <2>2. /\ commands' \in Seq(Command)
        /\ Len(commands') = Len(commands) + 1 /\ Len(commands) \in Nat
        /\ commands'[Len(commands) + 1] = e
        /\ \A k \in 1..Len(commands) : commands'[k] = commands[k]
    <3>1. commands \in Seq(Command)
      BY Zenon DEF TypeOK
    <3> HIDE DEF IInv, ExecReport
    <3> QED
      BY <1>2, <2>1, <3>1, AppendByIndex
  <2>3. TypeOK'
    BY <2>2, ZenonT(60) DEF TypeOK, ExecStates
  <2>4. /\ request[c].id \in DOMAIN instance_data
        /\ instance_data[request[c].id].owner = c
        /\ ~instance_data[request[c].id].finished
    BY Zenon, <1>4 DEF LiveExecutorsOwn
  <2>5. LiveExecutorsOwn' /\ DownHoldsNothing'
    BY Zenon, <1>1, <1>4 DEF LiveExecutorsOwn, DownHoldsNothing
  <2>6. CommandsMatch'
    <3>1. \A k \in 1..Len(commands) : executor'[commands[k].call] = executor[commands[k].call]
      BY Zenon, <1>1, <1>3, QueuedCommands
    <3> SUFFICES ASSUME NEW k \in 1..Len(commands') PROVE CommandMatches(commands[k])'
      BY DEF CommandsMatch
    <3>2. CASE k = Len(commands) + 1
      BY <1>1, <1>2, <2>2, <2>4, <3>2, ZenonT(60) DEF CommandMatches
    <3>3. CASE k \in 1..Len(commands)
      <4>1. CommandMatches(commands[k]) /\ commands'[k] = commands[k]
        BY Zenon, <2>2, <3>3 DEF CommandsMatch
      <4> QED
        BY Zenon, <3>1, <3>3, <4>1 DEF CommandMatches
    <3> QED
      BY <2>2, <3>2, <3>3
  <2>7. CommandsDistinct'
    BY <1>2, <1>3, <2>2 DEF CommandsDistinct
  <2>8. /\ \A d \in Calls : ReportQueued(d) => ReportQueued(d)'
        /\ ReportQueued(c)'
    BY <1>2, <2>2 DEF ReportQueued
  <2>9. InstancesHaveOwner'
    <3>1. \A i \in DOMAIN instance_data : instance_data[i].owner \in Calls
      BY Zenon DEF TypeOK, Instance
    <3> QED
      BY <1>1, <2>8, <3>1 DEF InstancesHaveOwner
  <2>10. NotYetStarted' /\ TerminatedAreFinished' /\ ResultsOfOwnExecutor' /\ BacklogOnlyForAbsent'
    BY <1>1, ZenonT(60)
       DEF NotYetStarted, TerminatedAreFinished, ResultsOfOwnExecutor, BacklogOnlyForAbsent
  <2>11. WaiterHasRunner'
    <3>1. WaiterHasRunner /\ UNCHANGED <<pc, request, instance_data>>
      BY Zenon
    <3>2. \A d \in Calls : Open(d)' \/ ReportQueued(d)' \/ executor'[d] = "panic"
                             \/ ~(Open(d) \/ ReportQueued(d) \/ executor[d] = "panic")
      <4> SUFFICES ASSUME NEW d \in Calls
                   PROVE  Open(d)' \/ ReportQueued(d)' \/ executor'[d] = "panic"
                            \/ ~(Open(d) \/ ReportQueued(d) \/ executor[d] = "panic")
        BY Zenon
      <4>1. CASE d = c
        BY <2>8, <4>1, Zenon
      <4>2. CASE d # c
        BY <1>1, <2>8, <4>2, Zenon DEF Open
      <4> QED
        BY Zenon, <4>1, <4>2
    <3> HIDE DEF IInv, ExecReport
    <3> QED
      BY <3>1, <3>2, ZenonT(60) DEF WaiterHasRunner
  <2> QED
    BY Zenon, <2>3, <2>5, <2>6, <2>7, <2>9, <2>10, <2>11
<1>5. CASE manager = "down"
  <2>1. commands' = commands /\ commands = <<>> /\ DOMAIN instance_data = {}
    BY Zenon, <1>5 DEF Report, DownHoldsNothing
  <2>2. TypeOK'
    BY <2>1, Zenon DEF TypeOK, ExecStates
  <2>3. LiveExecutorsOwn' /\ CommandsMatch' /\ CommandsDistinct' /\ DownHoldsNothing'
    <3> HIDE DEF IInv
    <3>1. commands' = <<>> /\ manager' = "down" /\ DOMAIN instance_data' = {}
      BY <1>5, <2>1
    <3> HIDE DEF ExecReport
    <3> QED
      BY <3>1 DEF LiveExecutorsOwn, CommandsMatch, CommandsDistinct, DownHoldsNothing
  <2>4. InstancesHaveOwner' /\ TerminatedAreFinished' /\ ResultsOfOwnExecutor' /\ BacklogOnlyForAbsent'
    BY Zenon, <2>1
       DEF InstancesHaveOwner, TerminatedAreFinished, ResultsOfOwnExecutor, BacklogOnlyForAbsent
  <2>5. NotYetStarted'
    BY <1>1 DEF NotYetStarted
  <2>6. WaiterHasRunner'
    BY Zenon, <2>1 DEF WaiterHasRunner
  <2> QED
    BY Zenon, <2>2, <2>3, <2>4, <2>5, <2>6
<1> QED
  BY Zenon, <1>4, <1>5

-----------------------------------------------------------------------------
(* Theorems *)

\* Every step of the system keeps the inductive invariant.
LEMMA NextIInv == IInv /\ [Next]_vars => IInv'
<1> SUFFICES ASSUME IInv, [Next]_vars PROVE IInv'
  OBVIOUS
<1>1. ASSUME NEW c \in Calls, Rpc(c) PROVE IInv'
  BY <1>1, RpcStartStep, RpcSendStep, RpcSendFailsStep, ClientGoneStep DEF Rpc
<1>2. ASSUME NEW c \in Calls, Executor(c) PROVE IInv'
  BY <1>2, ExecFirstRoundStep, ExecMessageStep, ExecChannelClosedStep, ExecReportStep
     DEF Executor
<1>3. ASSUME NEW c \in Calls, Forward(c) PROVE IInv'
  BY <1>3, ForwardStep
<1>4. ASSUME NEW t \in Tags, NEW id \in Ids, NetReceive(t, id) PROVE IInv'
  BY <1>4, NetReceiveStep
<1>5. ASSUME Manager PROVE IInv'
  <2>1. CASE CreateExisting \/ CreateWithoutKey \/ CreateNew
    BY <2>1, CreateExistingStep, CreateWithoutKeyStep, CreateNewStep
  <2>2. CASE Status \/ StatusPanics \/ Terminate \/ Stop
    BY <2>2, StatusStep, DownStep, TerminateStep DEF StatusPanics, Stop
  <2>3. CASE Deliver \/ Delivered \/ Discard \/ Backlog \/ Tick
    BY <2>3, DeliverStep, DeliveredStep, DiscardStep, BacklogStep, TickStep
  <2> QED
    BY <1>5, <2>1, <2>2, <2>3 DEF Manager
<1>6. CASE UNCHANGED vars
  <2> USE <1>6 DEF vars, IInv
  <2>1. TypeOK' /\ BacklogOnlyForAbsent'
    BY Zenon DEF TypeOK, BacklogOnlyForAbsent
  <2> QED
    BY Zenon, <2>1, MessageStep DEF rpcVars, cacheVars
<1> QED
  BY <1>1, <1>2, <1>3, <1>4, <1>5, <1>6 DEF Next

\* In every reachable state commands, executors, callers and cache agree as IInv says.
THEOREM Invariance == Spec => []IInv
  BY InitIInv, NextIInv, PTL DEF Spec

\* Type correctness of the manager, its callers and its tasks.
THEOREM TypeCorrect == Spec => []TypeOK
<1>1. IInv => TypeOK
  BY DEF IInv
<1> QED
  BY <1>1, Invariance, PTL

\* The queue that attempt_eject works from and the cache agree, whatever is ejected and
\* created again.
THEOREM EjectionQueueExact == Spec => []TerminatedAreFinished
<1>1. IInv => TerminatedAreFinished
  BY DEF IInv
<1> QED
  BY <1>1, Invariance, PTL

\* A result is stored in, and sent to the caller of, the incarnation that computed it.
THEOREM ResultsNeverCross == Spec => []ResultsOfOwnExecutor
<1>1. IInv => ResultsOfOwnExecutor
  BY DEF IInv
<1> QED
  BY <1>1, Invariance, PTL

\* No synchronous caller is forgotten.
THEOREM NoWaiterForgotten == Spec => []WaiterHasRunner
<1>1. IInv => WaiterHasRunner
  BY DEF IInv
<1> QED
  BY <1>1, Invariance, PTL

\* No message stays in the backlog of an instance that exists.
THEOREM BacklogHandedOver == Spec => []BacklogOnlyForAbsent
<1>1. IInv => BacklogOnlyForAbsent
  BY DEF IInv
<1> QED
  BY <1>1, Invariance, PTL

\* The body of RunningStays: what no step does to a running instance.
LEMMA RunningStep ==
  ASSUME IInv, [Next]_vars, NEW i \in DOMAIN instance_data,
         ~instance_data[i].finished, manager' # "down"
  PROVE  i \in DOMAIN instance_data' /\ instance_data'[i].owner = instance_data[i].owner
<1>1. CASE UNCHANGED instance_data
  BY ZenonT(60), <1>1
<1>2. CASE CreateNew
  <2> DEFINE cmd == Head(commands)
             inst == [owner |-> cmd.call, finished |-> FALSE, result |-> NoResult,
                      result_sender |-> request[cmd.call].kind = "sync"]
  <2>1. cmd.call \in Calls /\ cmd.id \in Ids /\ cmd.id \notin DOMAIN instance_data
    BY <1>2, ReceiveFacts, ZenonT(60) DEF CreateNew
  <2>2. inst \in Instance /\ ~inst.finished
    BY Zenon, <2>1 DEF Instance
  <2>3. insert(cmd.id, inst)
    BY Zenon, <1>2 DEF CreateNew
  <2> HIDE DEF inst
  <2> QED
    BY Zenon, <2>1, <2>2, <2>3, InsertFacts DEF IInv
<1>3. CASE Terminate
  BY <1>3 DEF Terminate, cacheVars
<1>4. CASE Down
  BY Zenon, <1>4 DEF Down
<1>5. ASSUME Manager PROVE \/ UNCHANGED instance_data \/ CreateNew \/ Terminate \/ Down
  BY <1>5, ZenonT(60)
     DEF Manager, CreateExisting, CreateWithoutKey, Status, StatusPanics, Stop, Deliver,
     Delivered, Discard, Backlog, Tick, cacheVars
<1>6. ASSUME NEW c \in Calls, Rpc(c) \/ Executor(c) \/ Forward(c) PROVE UNCHANGED instance_data
  BY Zenon, <1>6 DEF Rpc, RpcStart, RpcSend, RpcSendFails, ClientGone, Executor, ExecFirstRound,
     ExecMessage, ExecChannelClosed, ExecReport, ExecUnchanged, Forward, cacheVars
<1>7. ASSUME NEW t \in Tags, NEW id \in Ids, NetReceive(t, id) PROVE UNCHANGED instance_data
  BY <1>7 DEF NetReceive, cacheVars
<1> QED
  BY Zenon, <1>1, <1>2, <1>3, <1>4, <1>5, <1>6, <1>7 DEF Next, vars

\* A running instance is never ejected or replaced while the manager runs.
THEOREM RunningNeverEjected == Spec => RunningStays
<1>1. IInv /\ [Next]_vars =>
        [\A i \in DOMAIN instance_data :
           (~instance_data[i].finished /\ manager' # "down") =>
             /\ i \in DOMAIN instance_data'
             /\ instance_data'[i].owner = instance_data[i].owner]_vars
  BY RunningStep
<1> QED
  BY <1>1, Invariance, PTL DEF Spec, RunningStays
-----------------------------------------------------------------------------
(* Messages are moved, never copied. *)

\* A tag has one holder at most; and no sequence of messages has a tag twice.
OneHolder == \A t \in Tags : \A g, h \in Holders : t \in Tagged(g) /\ t \in Tagged(h) => g = h

SequencesApart ==
  /\ NoRepeats(incoming)
  /\ \A i \in DOMAIN backlog : NoRepeats(backlog[i].messages)
  /\ \A c \in Calls : NoRepeats(forward[c]) /\ NoRepeats(chan[c])

LEMMA OneCopyByParts == OneCopy <=> OneHolder /\ SequencesApart
  BY Zenon DEF OneCopy, OneHolder, SequencesApart

InBacklog(i) == IF i \in DOMAIN backlog THEN TagsIn(backlog[i].messages) ELSE {}

TaggedKinds ==
  /\ Tagged(<<"net", "node">>) = net
  /\ Tagged(<<"incoming", "node">>) = TagsIn(incoming)
  /\ Tagged(<<"held", "node">>) = {held[k].msg.tag : k \in 1..Len(held)}
  /\ \A i \in Ids : Tagged(<<"backlog", i>>) = InBacklog(i)
  /\ \A c \in Calls : Tagged(<<"forward", c>>) = TagsIn(forward[c])
  /\ \A c \in Calls : Tagged(<<"chan", c>>) = TagsIn(chan[c])

\* The tags of each kind of holder, before and after a step.
LEMMA TaggedByKind == TaggedKinds /\ TaggedKinds'
<1>1. TaggedKinds
  BY DEF TaggedKinds, Tagged, InBacklog
<1>2. TaggedKinds'
  BY DEF TaggedKinds, Tagged, InBacklog
<1> QED
  BY <1>1, <1>2

LEMMA HolderKinds ==
  \A h \in Holders :
    \/ h = <<"net", "node">> \/ h = <<"incoming", "node">> \/ h = <<"held", "node">>
    \/ \E i \in Ids : h = <<"backlog", i>>
    \/ \E c \in Calls : h = <<"forward", c>> \/ h = <<"chan", c>>
  BY DEF Holders

LEMMA HoldersAre ==
  /\ <<"net", "node">> \in Holders
  /\ <<"incoming", "node">> \in Holders
  /\ <<"held", "node">> \in Holders
  /\ \A i \in Ids : <<"backlog", i>> \in Holders
  /\ \A c \in Calls : <<"forward", c>> \in Holders /\ <<"chan", c>> \in Holders
  BY DEF Holders

\* Holders outside E that get nothing hold no more than before.
LEMMA OthersShrink ==
  ASSUME NEW E,
         <<"net", "node">> \in E \/ net' \subseteq net,
         <<"incoming", "node">> \in E \/ TagsIn(incoming)' \subseteq TagsIn(incoming),
         <<"held", "node">> \in E \/ held' = held \/ held' = <<>>,
         \A i \in Ids : <<"backlog", i>> \in E \/ InBacklog(i)' \subseteq InBacklog(i),
         \A c \in Calls : <<"forward", c>> \in E \/ TagsIn(forward[c])' \subseteq TagsIn(forward[c]),
         \A c \in Calls : <<"chan", c>> \in E \/ TagsIn(chan[c])' \subseteq TagsIn(chan[c])
  PROVE  \A h \in Holders \ E : Tagged(h)' \subseteq Tagged(h)
<1> SUFFICES ASSUME NEW h \in Holders \ E PROVE Tagged(h)' \subseteq Tagged(h)
  BY Zenon
<1>1. CASE h = <<"net", "node">>
  <2>1. Tagged(h)' = net' /\ Tagged(h) = net
    BY Zenon, <1>1, TaggedByKind DEF TaggedKinds
  <2> QED
    BY Zenon, <1>1, <2>1
<1>2. CASE h = <<"incoming", "node">>
  <2>1. Tagged(h)' = TagsIn(incoming)' /\ Tagged(h) = TagsIn(incoming)
    BY Zenon, <1>2, TaggedByKind DEF TaggedKinds
  <2> QED
    BY Zenon, <1>2, <2>1
<1>3. CASE h = <<"held", "node">>
  <2>1. Tagged(h)' = {held'[k].msg.tag : k \in 1..Len(held')}
        /\ Tagged(h) = {held[k].msg.tag : k \in 1..Len(held)}
    BY Zenon, <1>3, TaggedByKind DEF TaggedKinds
  <2> QED
    BY <1>3, <2>1
<1>4. ASSUME NEW i \in Ids, h = <<"backlog", i>> PROVE Tagged(h)' \subseteq Tagged(h)
  <2>1. Tagged(h)' = InBacklog(i)' /\ Tagged(h) = InBacklog(i)
    BY Zenon, <1>4, TaggedByKind DEF TaggedKinds
  <2> QED
    BY Zenon, <1>4, <2>1
<1>5. ASSUME NEW c \in Calls, h = <<"forward", c>> PROVE Tagged(h)' \subseteq Tagged(h)
  <2>1. Tagged(h)' = TagsIn(forward[c])' /\ Tagged(h) = TagsIn(forward[c])
    BY Zenon, <1>5, TaggedByKind DEF TaggedKinds
  <2> QED
    BY Zenon, <1>5, <2>1
<1>6. ASSUME NEW c \in Calls, h = <<"chan", c>> PROVE Tagged(h)' \subseteq Tagged(h)
  <2>1. Tagged(h)' = TagsIn(chan[c])' /\ Tagged(h) = TagsIn(chan[c])
    BY Zenon, <1>6, TaggedByKind DEF TaggedKinds
  <2> QED
    BY Zenon, <1>6, <2>1
<1> QED
  BY Zenon, <1>1, <1>2, <1>3, <1>4, <1>5, <1>6, HolderKinds

\* Messages only disappear.
LEMMA NothingMoves ==
  ASSUME OneHolder, \A h \in Holders : Tagged(h)' \subseteq Tagged(h)
  PROVE  OneHolder'
  BY DEF OneHolder, Holders

\* Messages with the tags S go from holder a to holder b.
LEMMA TagsMove ==
  ASSUME OneHolder, NEW a \in Holders, NEW b \in Holders, NEW S, S \subseteq Tagged(a),
         Tagged(a)' \subseteq Tagged(a) \ S, Tagged(b)' \subseteq Tagged(b) \cup S,
         \A h \in Holders \ {a, b} : Tagged(h)' \subseteq Tagged(h)
  PROVE  OneHolder'
<1> SUFFICES ASSUME NEW t \in Tags, NEW g \in Holders, NEW h \in Holders,
                    t \in Tagged(g)', t \in Tagged(h)'
             PROVE  g = h
  BY DEF OneHolder, Holders
<1>1. CASE t \in S
  <2>1. \A x \in Holders : t \in Tagged(x) => x = a
    BY <1>1 DEF OneHolder
  <2>2. \A x \in Holders : t \in Tagged(x)' => x = b
    BY <1>1, <2>1
  <2> QED
    BY <2>2
<1>2. CASE t \notin S
  <2>1. \A x \in Holders : t \in Tagged(x)' => t \in Tagged(x)
    BY <1>2
  <2> QED
    BY <2>1 DEF OneHolder
<1> QED
  BY <1>1, <1>2

\* The same for one tag.
LEMMA TagMoves ==
  ASSUME OneHolder, NEW a \in Holders, NEW b \in Holders, NEW t \in Tagged(a),
         Tagged(a)' \subseteq Tagged(a) \ {t}, Tagged(b)' \subseteq Tagged(b) \cup {t},
         \A h \in Holders \ {a, b} : Tagged(h)' \subseteq Tagged(h)
  PROVE  OneHolder'
<1>1. {t} \subseteq Tagged(a)
  OBVIOUS
<1> QED
  BY <1>1, TagsMove, Zenon

\* Sequences of messages: what Tail, Append and a single message hold.
LEMMA TagsOfTail ==
  ASSUME NEW s \in Seq(Message), s # <<>>, NoRepeats(s)
  PROVE  /\ Head(s).tag \in TagsIn(s)
         /\ TagsIn(Tail(s)) \subseteq TagsIn(s) \ {Head(s).tag}
         /\ NoRepeats(Tail(s))
<1>1. /\ Head(s) = s[1] /\ 1 \in 1..Len(s)
      /\ Len(Tail(s)) = Len(s) - 1 /\ Len(s) \in Nat
      /\ \A k \in 1..Len(Tail(s)) : Tail(s)[k] = s[k + 1] /\ k + 1 \in 1..Len(s)
  BY TailByIndex
<1>2. Head(s).tag \in TagsIn(s)
  BY <1>1 DEF TagsIn
<1>3. NoRepeats(Tail(s))
  BY <1>1 DEF NoRepeats
<1>4. ASSUME NEW k \in 1..Len(Tail(s))
      PROVE  Tail(s)[k].tag \in TagsIn(s) /\ Tail(s)[k].tag # Head(s).tag
  <2>1. Tail(s)[k] = s[k + 1] /\ k + 1 \in 1..Len(s) /\ k + 1 # 1
    BY <1>1
  <2> QED
    BY <1>1, <2>1 DEF TagsIn, NoRepeats
<1> QED
  BY <1>2, <1>3, <1>4 DEF TagsIn

LEMMA TagsOfAppend ==
  ASSUME NEW s \in Seq(Message), NEW m \in Message, NoRepeats(s), m.tag \notin TagsIn(s)
  PROVE  /\ TagsIn(Append(s, m)) \subseteq TagsIn(s) \cup {m.tag}
         /\ NoRepeats(Append(s, m))
<1>1. /\ Len(Append(s, m)) = Len(s) + 1 /\ Len(s) \in Nat
      /\ Append(s, m)[Len(s) + 1] = m
      /\ \A k \in 1..Len(s) : Append(s, m)[k] = s[k]
  BY AppendByIndex
<1>2. ASSUME NEW k \in 1..Len(Append(s, m))
      PROVE  k \in 1..Len(s) \/ k = Len(s) + 1
  BY <1>1
<1>3. TagsIn(Append(s, m)) \subseteq TagsIn(s) \cup {m.tag}
  BY <1>1, <1>2 DEF TagsIn
<1>4. \A k \in 1..Len(s) : s[k].tag # m.tag
  BY DEF TagsIn
<1>5. NoRepeats(Append(s, m))
  BY Zenon, <1>1, <1>2, <1>4 DEF NoRepeats
<1> QED
  BY <1>3, <1>5

LEMMA TagsOfNone == TagsIn(<<>>) = {} /\ NoRepeats(<<>>)
  BY DEF TagsIn, NoRepeats

LEMMA TagsOfOne ==
  ASSUME NEW m \in Message
  PROVE  TagsIn(<<m>>) \subseteq {m.tag} /\ NoRepeats(<<m>>)
<1>1. Len(<<m>>) = 1 /\ <<m>>[1] = m
  OBVIOUS
<1> QED
  BY <1>1 DEF TagsIn, NoRepeats

LEMMA MessageTags == \A m \in Message : m.tag \in Tags
  BY DEF Message

\* What TagsIn and SequencesApart say after a step.
LEMMA TagsAfter ==
  /\ TagsIn(incoming)' = TagsIn(incoming')
  /\ \A c : TagsIn(forward[c])' = TagsIn(forward'[c]) /\ TagsIn(chan[c])' = TagsIn(chan'[c])
  BY Zenon DEF TagsIn

LEMMA SequencesAfter ==
  ASSUME NoRepeats(incoming'),
         \A i \in DOMAIN backlog' : NoRepeats(backlog'[i].messages),
         \A c \in Calls : NoRepeats(forward'[c]), \A c \in Calls : NoRepeats(chan'[c])
  PROVE  SequencesApart'
  BY Zenon DEF SequencesApart, NoRepeats

\* Steps that touch no message.
LEMMA NoMessageStep == ASSUME OneCopy, UNCHANGED msgVars PROVE OneCopy'
<1> USE DEF msgVars
<1>1. \A h \in Holders : Tagged(h)' = Tagged(h)
  BY DEF Tagged, TagsIn
<1>2. OneHolder'
  BY <1>1, OneCopyByParts, NothingMoves
<1>3. SequencesApart'
  BY SequencesAfter, Zenon DEF OneCopy
<1> QED
  BY Zenon, <1>2, <1>3 DEF OneCopy, OneHolder, SequencesApart

\* The two parts after a step.
LEMMA OneCopyPrimed == ASSUME OneHolder', SequencesApart' PROVE OneCopy'
  BY Zenon DEF OneCopy, OneHolder, SequencesApart

LEMMA NetReceiveMoves ==
  ASSUME TypeOK, OneCopy, NEW t \in Tags, NEW id \in Ids, NetReceive(t, id) PROVE OneCopy'
<1> DEFINE a == <<"net", "node">>
           b == <<"incoming", "node">>
           m == [tag |-> t, id |-> id]
<1>1. m \in Message /\ m.tag = t
  BY DEF Message
<1>2. t \in Tagged(a) /\ t \notin TagsIn(incoming)
  <2>1. Tagged(a) = net /\ Tagged(b) = TagsIn(incoming) /\ t \in net
    BY TaggedByKind, Zenon DEF TaggedKinds, NetReceive
  <2>2. a \in Holders /\ b \in Holders /\ a # b
    BY HoldersAre
  <2> HIDE DEF a, b
  <2> QED
    BY <2>1, <2>2, Zenon DEF OneCopy
<1>3. TagsIn(incoming') \subseteq TagsIn(incoming) \cup {t} /\ NoRepeats(incoming')
  BY Zenon, <1>1, <1>2, TagsOfAppend DEF NetReceive, OneCopy, TypeOK
<1>4. Tagged(a)' \subseteq Tagged(a) \ {t} /\ Tagged(b)' \subseteq Tagged(b) \cup {t}
  BY Zenon, <1>3, TaggedByKind DEF TaggedKinds, NetReceive, TagsIn
<1>5. \A h \in Holders \ {a, b} : Tagged(h)' \subseteq Tagged(h)
  BY OthersShrink, Zenon DEF NetReceive, InBacklog, TagsIn
<1>6. OneHolder'
  <2>1. a \in Holders /\ b \in Holders /\ OneHolder
    BY HoldersAre, OneCopyByParts
  <2> HIDE DEF a, b
  <2> QED
    BY <1>2, <1>4, <1>5, <2>1, TagMoves, Zenon
<1>7. SequencesApart'
  BY <1>3, SequencesAfter, Zenon DEF NetReceive, OneCopy
<1> QED
  BY <1>6, <1>7, OneCopyPrimed

\* The head of incoming is taken out of it.
LEMMA IncomingHead ==
  ASSUME TypeOK, OneCopy, incoming # <<>>, incoming' = Tail(incoming)
  PROVE  /\ Head(incoming) \in Message
         /\ Head(incoming).tag \in Tagged(<<"incoming", "node">>)
         /\ Head(incoming).tag \in Tags
         /\ TagsIn(incoming') \subseteq TagsIn(incoming) \ {Head(incoming).tag}
         /\ Tagged(<<"incoming", "node">>)'
              \subseteq Tagged(<<"incoming", "node">>) \ {Head(incoming).tag}
         /\ NoRepeats(incoming')
<1>1. Head(incoming) \in Message
  BY Zenon, NextIncoming
<1>2. /\ Head(incoming).tag \in TagsIn(incoming)
      /\ TagsIn(incoming') \subseteq TagsIn(incoming) \ {Head(incoming).tag}
      /\ NoRepeats(incoming')
  BY Zenon, TagsOfTail DEF TypeOK, OneCopy
<1>3. Tagged(<<"incoming", "node">>) = TagsIn(incoming)
      /\ Tagged(<<"incoming", "node">>)' = TagsIn(incoming')
  BY Zenon, TaggedByKind DEF TaggedKinds, TagsIn
<1> QED
  BY Zenon, <1>1, <1>2, <1>3, MessageTags

LEMMA DeliverMoves == ASSUME TypeOK, OneCopy, Deliver PROVE OneCopy'
<1> DEFINE a == <<"incoming", "node">>
           b == <<"held", "node">>
           t == Head(incoming).tag
<1>1. /\ Head(incoming) \in Message /\ t \in Tagged(a) /\ NoRepeats(incoming')
      /\ Tagged(a)' \subseteq Tagged(a) \ {t}
  BY Zenon, IncomingHead DEF Deliver
<1>2. Tagged(b)' \subseteq Tagged(b) \cup {t}
  <2>1. Len(held') = 1 /\ held'[1].msg = Head(incoming)
    BY Zenon DEF Deliver
  <2>2. Tagged(b)' = {held'[k].msg.tag : k \in 1..Len(held')}
    BY Zenon, TaggedByKind DEF TaggedKinds
  <2> QED
    BY <2>1, <2>2
<1>3. \A h \in Holders \ {a, b} : Tagged(h)' \subseteq Tagged(h)
  BY OthersShrink, Zenon DEF Deliver, InBacklog, TagsIn
<1>4. OneHolder'
  <2>1. a \in Holders /\ b \in Holders /\ OneHolder
    BY HoldersAre, OneCopyByParts
  <2> HIDE DEF a, b, t
  <2> QED
    BY <1>1, <1>2, <1>3, <2>1, TagMoves, Zenon
<1>5. SequencesApart'
  BY <1>1, SequencesAfter, Zenon DEF Deliver, OneCopy
<1> QED
  BY <1>4, <1>5, OneCopyPrimed

LEMMA DiscardMoves == ASSUME TypeOK, OneCopy, Discard PROVE OneCopy'
<1>1. TagsIn(incoming)' \subseteq TagsIn(incoming) /\ NoRepeats(incoming')
  BY Zenon, IncomingHead DEF Discard, TagsIn
<1>2. \A h \in Holders \ {} : Tagged(h)' \subseteq Tagged(h)
  BY <1>1, OthersShrink, Zenon DEF Discard, InBacklog, TagsIn
<1>3. OneHolder'
  BY <1>2, OneCopyByParts, NothingMoves
<1>4. SequencesApart'
  BY <1>1, SequencesAfter, Zenon DEF Discard, OneCopy
<1> QED
  BY <1>3, <1>4, OneCopyPrimed

LEMMA BacklogMoves == ASSUME TypeOK, OneCopy, Backlog PROVE OneCopy'
<1> PICK m : m = Head(incoming)
  OBVIOUS
<1> DEFINE t == m.tag
           a == <<"incoming", "node">>
           b == <<"backlog", m.id>>
<1>1. /\ m \in Message /\ t \in Tags /\ t \in Tagged(a) /\ NoRepeats(incoming')
      /\ Tagged(a)' \subseteq Tagged(a) \ {t}
  BY Zenon, IncomingHead DEF Backlog
<1>2. m.id \in Ids /\ a \in Holders /\ b \in Holders /\ a # b
  BY <1>1, HoldersAre DEF Message
<1>3. t \notin InBacklog(m.id)
  <2>1. Tagged(b) = InBacklog(m.id)
    BY Zenon, <1>2, TaggedByKind DEF TaggedKinds
  <2> QED
    BY Zenon, <1>1, <1>2, <2>1 DEF OneCopy
<1>4. /\ m.id \in DOMAIN backlog'
      /\ TagsIn(backlog'[m.id].messages) \subseteq InBacklog(m.id) \cup {t}
      /\ NoRepeats(backlog'[m.id].messages)
  <2>1. CASE m.id \in DOMAIN backlog
    <3>1. /\ m.id \in DOMAIN backlog'
          /\ backlog'[m.id].messages = Append(backlog[m.id].messages, m)
      BY Zenon, <2>1 DEF Backlog
    <3>2. backlog[m.id].messages \in Seq(Message)
      BY Zenon, <2>1 DEF TypeOK, BacklogData
    <3>3. /\ NoRepeats(backlog[m.id].messages)
          /\ InBacklog(m.id) = TagsIn(backlog[m.id].messages)
      BY <2>1, Zenon DEF OneCopy, InBacklog
    <3>4. /\ TagsIn(Append(backlog[m.id].messages, m)) \subseteq InBacklog(m.id) \cup {t}
          /\ NoRepeats(Append(backlog[m.id].messages, m))
      BY <1>1, <1>3, <3>2, <3>3, TagsOfAppend, Zenon
    <3> QED
      BY <3>1, <3>4, Zenon
  <2>2. CASE m.id \notin DOMAIN backlog
    <3>1. m.id \in DOMAIN backlog' /\ backlog'[m.id].messages = <<m>>
      BY Zenon, <2>2 DEF Backlog
    <3> QED
      BY Zenon, <1>1, <3>1, TagsOfOne
  <2> QED
    BY Zenon, <2>1, <2>2
<1>5. \A i \in DOMAIN backlog' \ {m.id} : i \in DOMAIN backlog /\ backlog'[i] = backlog[i]
  BY Zenon DEF Backlog
<1>6. Tagged(b)' \subseteq Tagged(b) \cup {t}
  <2>1. Tagged(b) = InBacklog(m.id) /\ Tagged(b)' = TagsIn(backlog'[m.id].messages)
    <3>1. /\ \A i \in Ids : Tagged(<<"backlog", i>>) = InBacklog(i)
          /\ \A i \in Ids : Tagged(<<"backlog", i>>)' = InBacklog(i)'
      BY Zenon, TaggedByKind DEF TaggedKinds
    <3>2. InBacklog(m.id)' = TagsIn(backlog'[m.id].messages)
      BY Zenon, <1>4 DEF InBacklog, TagsIn
    <3> QED
      BY Zenon, <1>2, <3>1, <3>2
  <2> QED
    BY Zenon, <1>4, <2>1
<1>7. \A h \in Holders \ {a, b} : Tagged(h)' \subseteq Tagged(h)
  <2>1. \A i \in Ids : <<"backlog", i>> \in {a, b} \/ InBacklog(i)' \subseteq InBacklog(i)
    BY Zenon, <1>5 DEF InBacklog, TagsIn
  <2> QED
    BY <2>1, OthersShrink, Zenon DEF Backlog, TagsIn
<1>8. OneHolder'
  <2>1. OneHolder
    BY OneCopyByParts
  <2> HIDE DEF a, b, t
  <2> QED
    BY <1>1, <1>2, <1>6, <1>7, <2>1, TagMoves, Zenon
<1>9. SequencesApart'
  <2>1. \A i \in DOMAIN backlog' : NoRepeats(backlog'[i].messages)
    BY Zenon, <1>4, <1>5 DEF OneCopy
  <2>2. UNCHANGED <<forward, chan>>
    BY Zenon DEF Backlog
  <2> QED
    BY <1>1, <2>1, <2>2, SequencesAfter, Zenon DEF OneCopy
<1> QED
  BY <1>8, <1>9, OneCopyPrimed

\* A send on the channel of c adds m to it or changes nothing.
LEMMA SendMoves ==
  ASSUME TypeOK, OneCopy, NEW c \in Calls, NEW m \in Message, SendReturns(c, m),
         m.tag \notin TagsIn(chan[c])
  PROVE  /\ TagsIn(chan'[c]) \subseteq TagsIn(chan[c]) \cup {m.tag}
         /\ \A d \in Calls \ {c} : chan'[d] = chan[d]
         /\ \A d \in Calls : NoRepeats(chan'[d])
<1>1. CASE chan' = [chan EXCEPT ![c] = Append(@, m)]
  <2>1. chan'[c] = Append(chan[c], m) /\ \A d \in Calls \ {c} : chan'[d] = chan[d]
    BY Zenon, <1>1 DEF TypeOK
  <2>2. chan[c] \in Seq(Message) /\ \A d \in Calls : NoRepeats(chan[d])
    BY Zenon DEF TypeOK, OneCopy
  <2>3. TagsIn(chan'[c]) \subseteq TagsIn(chan[c]) \cup {m.tag} /\ NoRepeats(chan'[c])
    BY Zenon, <2>1, <2>2, TagsOfAppend
  <2> QED
    BY <2>1, <2>2, <2>3, Zenon
<1>2. CASE chan' = chan
  BY Zenon, <1>2 DEF OneCopy
<1> QED
  BY Zenon, <1>1, <1>2 DEF SendReturns

LEMMA DeliveredMoves == ASSUME TypeOK, OneCopy, Delivered PROVE OneCopy'
<1> PICK c, m : c = held[1].to /\ m = held[1].msg
  OBVIOUS
<1> DEFINE t == m.tag
           a == <<"held", "node">>
           b == <<"chan", c>>
<1>1. m \in Message /\ c \in Calls /\ Len(held) = 1
  <2>1. held \in Seq([msg : Message, to : Calls]) /\ Len(held) = 1
    BY Zenon DEF TypeOK, Delivered
  <2>2. held[1] \in [msg : Message, to : Calls]
    BY <2>1, OnlyElement, Zenon
  <2> QED
    BY <2>1, <2>2
<1>2. t \in Tags /\ a \in Holders /\ b \in Holders /\ a # b
  BY <1>1, MessageTags, HoldersAre, Zenon
<1>3. t \in Tagged(a) /\ Tagged(a)' = {}
  <2>1. Tagged(a) = {held[k].msg.tag : k \in 1..Len(held)}
        /\ Tagged(a)' = {held'[k].msg.tag : k \in 1..Len(held')}
    BY Zenon, TaggedByKind DEF TaggedKinds
  <2>2. held' = <<>>
    BY DEF Delivered, BackToSelect
  <2> QED
    BY <1>1, <2>1, <2>2
<1>4. Tagged(b) = TagsIn(chan[c]) /\ Tagged(b)' = TagsIn(chan'[c])
  <2>1. Tagged(b) = TagsIn(chan[c]) /\ Tagged(b)' = TagsIn(chan[c])'
    BY Zenon, <1>1, TaggedByKind DEF TaggedKinds
  <2> QED
    BY <2>1, TagsAfter, Zenon
<1>5. t \notin TagsIn(chan[c])
  <2>1. Tagged(b) = TagsIn(chan[c])
    BY <1>4, Zenon
  <2>2. OneHolder
    BY OneCopyByParts, Zenon
  <2> HIDE DEF a, b, t
  <2>3. t \in Tagged(b) => a = b
    BY <1>2, <1>3, <2>2, Zenon DEF OneHolder
  <2> QED
    BY <1>2, <2>1, <2>3, Zenon
<1>6. /\ TagsIn(chan'[c]) \subseteq TagsIn(chan[c]) \cup {t}
      /\ \A d \in Calls \ {c} : chan'[d] = chan[d]
      /\ \A d \in Calls : NoRepeats(chan'[d])
  BY Zenon, <1>1, <1>5, SendMoves DEF Delivered
<1>7. UNCHANGED <<net, incoming, backlog, forward>>
  BY DEF Delivered
<1>8. \A h \in Holders \ {a, b} : Tagged(h)' \subseteq Tagged(h)
  <2>1. \A d \in Calls : <<"chan", d>> \in {a, b} \/ TagsIn(chan[d])' \subseteq TagsIn(chan[d])
    BY <1>6, TagsAfter, Zenon
  <2> QED
    BY <1>7, <2>1, OthersShrink, Zenon DEF InBacklog, TagsIn
<1>9. OneHolder'
  <2>1. OneHolder /\ Tagged(a)' \subseteq Tagged(a) \ {t} /\ Tagged(b)' \subseteq Tagged(b) \cup {t}
    BY Zenon, <1>3, <1>4, <1>6, OneCopyByParts
  <2> HIDE DEF a, b, t
  <2> QED
    BY <1>2, <1>3, <1>8, <2>1, TagMoves, Zenon
<1>10. SequencesApart'
  BY <1>6, <1>7, SequencesAfter, Zenon DEF OneCopy
<1> QED
  BY <1>9, <1>10, OneCopyPrimed

LEMMA ForwardMoves ==
  ASSUME TypeOK, OneCopy, NEW c \in Calls, Forward(c) PROVE OneCopy'
<1> PICK m : m = Head(forward[c])
  OBVIOUS
<1> DEFINE t == m.tag
           a == <<"forward", c>>
           b == <<"chan", c>>
<1>1. /\ forward[c] \in Seq(Message) /\ forward[c] # <<>> /\ NoRepeats(forward[c])
      /\ forward'[c] = Tail(forward[c])
      /\ \A d \in Calls \ {c} : forward'[d] = forward[d]
      /\ UNCHANGED <<net, incoming, held, backlog>>
  BY Zenon DEF Forward, TypeOK, OneCopy
<1>2. /\ m \in Message /\ t \in TagsIn(forward[c])
      /\ TagsIn(forward'[c]) \subseteq TagsIn(forward[c]) \ {t}
      /\ NoRepeats(forward'[c])
  <2>1. m \in Message
    BY <1>1, TailByIndex, Zenon
  <2>2. /\ Head(forward[c]).tag \in TagsIn(forward[c])
        /\ TagsIn(Tail(forward[c])) \subseteq TagsIn(forward[c]) \ {Head(forward[c]).tag}
        /\ NoRepeats(Tail(forward[c]))
    BY <1>1, TagsOfTail, Zenon
  <2>3. forward'[c] = Tail(forward[c])
    BY Zenon, <1>1
  <2> QED
    BY Zenon, <2>1, <2>2, <2>3
<1>3. t \in Tags /\ a \in Holders /\ b \in Holders /\ a # b
  BY Zenon, <1>2, MessageTags, HoldersAre
<1>4. /\ Tagged(a) = TagsIn(forward[c]) /\ Tagged(a)' = TagsIn(forward'[c])
      /\ Tagged(b) = TagsIn(chan[c]) /\ Tagged(b)' = TagsIn(chan'[c])
  <2>1. /\ Tagged(a) = TagsIn(forward[c]) /\ Tagged(a)' = TagsIn(forward[c])'
        /\ Tagged(b) = TagsIn(chan[c]) /\ Tagged(b)' = TagsIn(chan[c])'
    BY Zenon, TaggedByKind DEF TaggedKinds
  <2> QED
    BY <2>1, TagsAfter, Zenon
<1>5. t \notin TagsIn(chan[c])
  <2>1. t \in Tagged(a) /\ Tagged(b) = TagsIn(chan[c])
    BY Zenon, <1>2, <1>4
  <2> HIDE DEF a, b, t
  <2> QED
    BY <1>3, <2>1, Zenon DEF OneCopy
<1>6. /\ TagsIn(chan'[c]) \subseteq TagsIn(chan[c]) \cup {t}
      /\ \A d \in Calls \ {c} : chan'[d] = chan[d]
      /\ \A d \in Calls : NoRepeats(chan'[d])
  BY Zenon, <1>2, <1>5, SendMoves DEF Forward
<1>7. \A h \in Holders \ {a, b} : Tagged(h)' \subseteq Tagged(h)
  <2>1. /\ \A d \in Calls : <<"chan", d>> \in {a, b} \/ TagsIn(chan[d])' \subseteq TagsIn(chan[d])
        /\ \A d \in Calls :
             <<"forward", d>> \in {a, b} \/ TagsIn(forward[d])' \subseteq TagsIn(forward[d])
    BY <1>1, <1>6, TagsAfter, Zenon
  <2> QED
    BY <1>1, <2>1, OthersShrink, Zenon DEF InBacklog, TagsIn
<1>8. OneHolder'
  <2>1. /\ OneHolder /\ t \in Tagged(a)
        /\ Tagged(a)' \subseteq Tagged(a) \ {t} /\ Tagged(b)' \subseteq Tagged(b) \cup {t}
    BY Zenon, <1>2, <1>4, <1>6, OneCopyByParts
  <2> HIDE DEF a, b, t
  <2> QED
    BY <1>3, <1>7, <2>1, TagMoves, Zenon
<1>9. SequencesApart'
  <2>1. \A d \in Calls : NoRepeats(forward'[d])
    BY Zenon, <1>1, <1>2 DEF OneCopy
  <2> QED
    BY <1>1, <1>6, <2>1, SequencesAfter, Zenon DEF OneCopy
<1> QED
  BY <1>8, <1>9, OneCopyPrimed

\* Steps that only drop messages.
LEMMA DropsOnly ==
  ASSUME OneCopy, SequencesApart', net' = net,
         TagsIn(incoming)' \subseteq TagsIn(incoming), held' = held \/ held' = <<>>,
         \A i \in Ids : InBacklog(i)' \subseteq InBacklog(i),
         \A c \in Calls : TagsIn(forward[c])' \subseteq TagsIn(forward[c]),
         \A c \in Calls : TagsIn(chan[c])' \subseteq TagsIn(chan[c])
  PROVE  OneCopy'
<1>1. \A h \in Holders \ {} : Tagged(h)' \subseteq Tagged(h)
  BY OthersShrink, Zenon
<1>2. OneHolder'
  BY Zenon, <1>1, OneCopyByParts, NothingMoves
<1> QED
  BY Zenon, <1>2, OneCopyPrimed

LEMMA TickDrops == ASSUME OneCopy, Tick PROVE OneCopy'
<1>1. \A i \in DOMAIN backlog' :
        i \in DOMAIN backlog /\ backlog'[i].messages = backlog[i].messages
  BY Zenon DEF Tick
<1>2. UNCHANGED <<net, incoming, held, forward, chan>>
  BY Zenon DEF Tick
<1>3. SequencesApart'
  BY <1>1, <1>2, SequencesAfter, Zenon DEF OneCopy
<1>4. \A i \in Ids : InBacklog(i)' \subseteq InBacklog(i)
  BY Zenon, <1>1 DEF InBacklog, TagsIn
<1> QED
  BY Zenon, <1>2, <1>3, <1>4, DropsOnly DEF TagsIn

LEMMA DownDrops == ASSUME OneCopy, Down PROVE OneCopy'
<1>1. incoming' = <<>> /\ held' = <<>> /\ DOMAIN backlog' = {}
  BY Zenon DEF Down, EmptyMap
<1>2. UNCHANGED <<net, forward, chan>>
  BY Zenon DEF Down
<1>3. SequencesApart'
  BY <1>1, <1>2, TagsOfNone, SequencesAfter, Zenon DEF OneCopy
<1>4. \A i \in Ids : InBacklog(i)' \subseteq InBacklog(i)
  BY Zenon, <1>1 DEF InBacklog
<1>5. TagsIn(incoming)' \subseteq TagsIn(incoming)
  BY <1>1 DEF TagsIn
<1> QED
  BY Zenon, <1>1, <1>2, <1>3, <1>4, <1>5, DropsOnly DEF TagsIn

LEMMA ExecMessageDrops ==
  ASSUME TypeOK, OneCopy, NEW c \in Calls, ExecMessage(c) PROVE OneCopy'
<1>1. /\ chan[c] \in Seq(Message) /\ chan[c] # <<>> /\ NoRepeats(chan[c])
      /\ chan'[c] = Tail(chan[c]) /\ \A d \in Calls \ {c} : chan'[d] = chan[d]
  BY Zenon DEF ExecMessage, TypeOK, OneCopy
<1>2. UNCHANGED <<net, incoming, held, backlog, forward>>
  BY DEF ExecMessage, ExecUnchanged
<1>3. TagsIn(chan'[c]) \subseteq TagsIn(chan[c]) /\ NoRepeats(chan'[c])
  <2>1. /\ TagsIn(Tail(chan[c])) \subseteq TagsIn(chan[c]) \ {Head(chan[c]).tag}
        /\ NoRepeats(Tail(chan[c]))
    BY <1>1, TagsOfTail, Zenon
  <2>2. chan'[c] = Tail(chan[c])
    BY Zenon, <1>1
  <2> QED
    BY Zenon, <2>1, <2>2
<1>4. SequencesApart'
  <2>1. \A d \in Calls : NoRepeats(chan'[d])
    BY Zenon, <1>1, <1>3 DEF OneCopy
  <2> QED
    BY <1>2, <2>1, SequencesAfter, Zenon DEF OneCopy
<1>5. \A d \in Calls : TagsIn(chan[d])' \subseteq TagsIn(chan[d])
  <2>1. \A d \in Calls : TagsIn(chan'[d]) \subseteq TagsIn(chan[d])
    BY <1>1, <1>3, Zenon
  <2> QED
    BY <2>1, TagsAfter, Zenon
<1> QED
  BY <1>2, <1>4, <1>5, DropsOnly, Zenon DEF TagsIn, InBacklog

\* The messages of the backlog of an id all go to the forwarding task of its instance.
LEMMA CreateNewMoves == ASSUME IInv, OneCopy, CreateNew PROVE OneCopy'
<1> PICK c, id : c = Head(commands).call /\ id = Head(commands).id
  OBVIOUS
<1> DEFINE S == InBacklog(id)
           a == <<"backlog", id>>
           b == <<"forward", c>>
<1>1. c \in Calls /\ id \in Ids /\ TypeOK
  BY ReceiveFacts, ZenonT(60) DEF CreateNew, IInv
<1>2. /\ forward' = [forward EXCEPT ![c] = IF id \in DOMAIN backlog THEN backlog[id].messages
                                           ELSE @]
      /\ backlog' = [i \in DOMAIN backlog \ {id} |-> backlog[i]]
      /\ UNCHANGED <<net, incoming, held, chan>>
  BY Zenon DEF CreateNew, BacklogWithout
<1>3. /\ id \notin DOMAIN backlog'
      /\ \A i \in DOMAIN backlog' : i \in DOMAIN backlog /\ backlog'[i] = backlog[i]
      /\ \A d \in Calls \ {c} : forward'[d] = forward[d]
      /\ id \in DOMAIN backlog => forward'[c] = backlog[id].messages
      /\ id \notin DOMAIN backlog => forward'[c] = forward[c]
  <2>1. DOMAIN forward = Calls
    BY Zenon, <1>1 DEF TypeOK
  <2> QED
    BY Zenon, <1>1, <1>2, <2>1
<1>4. a \in Holders /\ b \in Holders
  BY <1>1, HoldersAre, Zenon
<1>5. /\ Tagged(a) = S /\ Tagged(a)' = InBacklog(id)'
      /\ Tagged(b) = TagsIn(forward[c]) /\ Tagged(b)' = TagsIn(forward[c])'
  BY Zenon, <1>1, TaggedByKind DEF TaggedKinds
<1>6. InBacklog(id)' = {} /\ TagsIn(forward[c])' \subseteq TagsIn(forward[c]) \cup S
  <2>1. InBacklog(id)' = {}
    BY <1>3, Zenon DEF InBacklog
  <2>2. TagsIn(forward[c])' = TagsIn(forward'[c])
    BY Zenon DEF TagsIn
  <2>3. CASE id \in DOMAIN backlog
    <3>1. TagsIn(forward'[c]) = S
      BY <1>3, <2>3, Zenon DEF InBacklog
    <3> QED
      BY <2>1, <2>2, <3>1, Zenon
  <2>4. CASE id \notin DOMAIN backlog
    BY <1>3, <2>1, <2>2, <2>4, Zenon
  <2> QED
    BY Zenon, <2>3, <2>4
<1>7. \A h \in Holders \ {a, b} : Tagged(h)' \subseteq Tagged(h)
  <2>1. /\ \A i \in Ids : InBacklog(i)' \subseteq InBacklog(i)
        /\ \A d \in Calls :
             <<"forward", d>> \in {a, b} \/ TagsIn(forward[d])' \subseteq TagsIn(forward[d])
    <3>1. \A i \in Ids : InBacklog(i)' \subseteq InBacklog(i)
      <4> SUFFICES ASSUME NEW i \in Ids, i \in DOMAIN backlog'
                   PROVE  InBacklog(i)' = InBacklog(i)
        BY Zenon DEF InBacklog
      <4>1. i \in DOMAIN backlog /\ backlog'[i] = backlog[i]
        BY <1>3, Zenon
      <4> QED
        BY <4>1, Zenon DEF InBacklog, TagsIn
    <3> QED
      BY <1>3, <3>1, TagsAfter, Zenon
  <2>2. /\ net' \subseteq net /\ TagsIn(incoming)' \subseteq TagsIn(incoming) /\ held' = held
        /\ \A d \in Calls : TagsIn(chan[d])' \subseteq TagsIn(chan[d])
    BY Zenon, <1>2 DEF TagsIn
  <2> QED
    BY <2>1, <2>2, OthersShrink, Zenon
<1>8. OneHolder'
  <2>1. OneHolder /\ Tagged(a)' \subseteq Tagged(a) \ S /\ Tagged(b)' \subseteq Tagged(b) \cup S
        /\ S \subseteq Tagged(a)
    BY Zenon, <1>5, <1>6, OneCopyByParts
  <2> HIDE DEF a, b
  <2> QED
    BY <1>4, <1>7, <2>1, TagsMove, Zenon
<1>9. SequencesApart'
  <2>1. \A d \in Calls : NoRepeats(forward'[d])
    BY Zenon, <1>3 DEF OneCopy
  <2>2. \A i \in DOMAIN backlog' : NoRepeats(backlog'[i].messages)
    BY Zenon, <1>3 DEF OneCopy
  <2> QED
    BY <1>2, <2>1, <2>2, SequencesAfter, Zenon DEF OneCopy
<1> QED
  BY <1>8, <1>9, OneCopyPrimed

LEMMA OneCopyStep == IInv /\ OneCopy /\ [Next]_vars => OneCopy'
<1> SUFFICES ASSUME IInv, OneCopy, [Next]_vars PROVE OneCopy'
  OBVIOUS
<1>1. TypeOK
  BY DEF IInv
<1>2. CASE UNCHANGED vars
  BY Zenon, <1>2, NoMessageStep DEF vars, msgVars
<1>3. ASSUME NEW c \in Calls, Rpc(c) PROVE OneCopy'
  BY <1>3, NoMessageStep, ZenonT(60)
     DEF Rpc, RpcStart, RpcSend, RpcSendFails, ClientGone
<1>4. ASSUME NEW c \in Calls, Executor(c) PROVE OneCopy'
  <2>1. ASSUME ExecFirstRound(c) \/ ExecChannelClosed(c) \/ ExecReport(c)
        PROVE  UNCHANGED msgVars
    BY Zenon, <2>1 DEF ExecFirstRound, ExecChannelClosed, ExecReport, ExecUnchanged, msgVars
  <2> QED
    BY <1>1, <1>4, <2>1, NoMessageStep, ExecMessageDrops DEF Executor
<1>5. ASSUME NEW c \in Calls, Forward(c) PROVE OneCopy'
  BY <1>1, <1>5, ForwardMoves
<1>6. ASSUME NEW t \in Tags, NEW id \in Ids, NetReceive(t, id) PROVE OneCopy'
  BY <1>1, <1>6, NetReceiveMoves
<1>7. ASSUME Manager PROVE OneCopy'
  <2>1. ASSUME CreateExisting \/ CreateWithoutKey \/ Status \/ Terminate
        PROVE  OneCopy'
    BY <2>1, NoMessageStep, ZenonT(60) DEF CreateExisting, CreateWithoutKey, Status, Terminate
  <2>2. ASSUME StatusPanics \/ Stop PROVE OneCopy'
    BY <2>2, DownDrops, ZenonT(60) DEF StatusPanics, Stop
  <2> QED
    BY <1>1, <1>7, <2>1, <2>2, CreateNewMoves, DeliverMoves, DeliveredMoves, DiscardMoves,
       BacklogMoves, TickDrops, ZenonT(60) DEF Manager
<1> QED
  BY <1>2, <1>3, <1>4, <1>5, <1>6, <1>7 DEF Next

LEMMA OneCopyAtFirst == Init => OneCopy
<1> SUFFICES ASSUME Init PROVE OneCopy
  OBVIOUS
<1>1. /\ incoming = <<>> /\ held = <<>> /\ DOMAIN backlog = {}
      /\ \A c \in Calls : forward[c] = <<>> /\ chan[c] = <<>>
  BY Zenon DEF Init, EmptyMap
<1>2. SequencesApart
  BY Zenon, <1>1, TagsOfNone DEF SequencesApart
<1>3. \A h \in Holders : Tagged(h) # {} => h = <<"net", "node">>
  <2>1. /\ Tagged(<<"incoming", "node">>) = {} /\ Tagged(<<"held", "node">>) = {}
        /\ \A i \in Ids : Tagged(<<"backlog", i>>) = {}
    <3>1. /\ Tagged(<<"incoming", "node">>) = TagsIn(incoming)
          /\ Tagged(<<"held", "node">>) = {held[k].msg.tag : k \in 1..Len(held)}
          /\ \A i \in Ids : Tagged(<<"backlog", i>>) = InBacklog(i)
      BY TaggedByKind, Zenon DEF TaggedKinds
    <3>2. \A i \in Ids : InBacklog(i) = {}
      BY <1>1, Zenon DEF InBacklog
    <3>3. {held[k].msg.tag : k \in 1..Len(held)} = {}
      BY <1>1
    <3> QED
      BY <1>1, <3>1, <3>2, <3>3, TagsOfNone, Zenon
  <2>2. \A c \in Calls : Tagged(<<"forward", c>>) = {} /\ Tagged(<<"chan", c>>) = {}
    BY <1>1, TagsOfNone, TaggedByKind, Zenon DEF TaggedKinds
  <2> QED
    BY <2>1, <2>2, HolderKinds, Zenon
<1>4. OneHolder
  BY <1>3 DEF OneHolder
<1> QED
  BY <1>2, <1>4, OneCopyByParts

\* A message is moved from the network to at most one executor, and never copied on the
\* way: not by the backlog, the manager's pending send or the forwarding tasks.
THEOREM MessagesNeverCopied == Spec => []OneCopy
<1>1. Init => OneCopy
  BY OneCopyAtFirst
<1>2. IInv /\ OneCopy /\ [Next]_vars => OneCopy'
  BY OneCopyStep
<1> QED
  BY <1>1, <1>2, Invariance, PTL DEF Spec

=============================================================================
