---------------------------- MODULE GatewayProofs ----------------------------
(***************************************************************************)
(* Proofs about the communication gateway, for any number of commands and  *)
(* clients.                                                                *)
(*                                                                         *)
(* The invariant ties the four fields the callbacks share, _navigation,    *)
(* _active_goal_handle, _pending_nav_command_id and _nav_velocity_enabled, *)
(* to the callbacks still outstanding at Nav2 and to the replies sent.     *)
(***************************************************************************)
EXTENDS Gateway, SequenceTheorems, TLAPS

\* A request waiting for its answer: everything else is idle, and it is the
\* last command that took motion.
PendingIsLatest ==
  pending # None =>
    /\ pending = lastOverride /\ pending = nav.goal
    /\ nav.state = "sending"
    /\ active = None /\ ~relay
    /\ request[pending].stage \in {"sent", "answered"}

\* The active handle is the goal shown.
ActiveIsCurrent ==
  /\ activeCmd = active
  /\ active # None =>
       /\ active = nav.goal
       /\ nav.state \in {"executing", "canceling"}
       /\ request[active].stage \in {"watched", "finished"}

RelayIsLatest ==
  relay => active # None /\ nav.state = "executing" /\ active = lastOverride

\* Commands that have not arrived have left no trace.
FutureIsUntouched ==
  /\ lastOverride <= count /\ nav.goal <= count
  /\ \A id \in Id : id > count => /\ request[id].stage = "unsent"
                                  /\ replies[id] = <<>>

\* What the stage of a request says about the rest.
StagesAgree ==
  \A id \in Id :
    /\ request[id].stage \in {"sent", "answered"} =>
         ((nav.goal = id /\ pending # id) => nav.state = "canceling")
    /\ request[id].stage \in {"watched", "finished"} =>
         /\ active = id \/ id \in cancelAsked
         /\ nav.goal = id => active = id
    /\ request[id].stage = "dropped" => id \in cancelAsked

\* The last command that took motion and the goal shown have run.
ShownHasRun ==
  /\ lastOverride # None => lastOverride \in Ran
  /\ nav.goal # None => nav.goal \in Ran



\* What the stage of a request says about the replies.  A goal that is under
\* way has been refused only when its message came more than once.
RepliesAgree ==
  \A id \in Id :
    /\ request[id].stage \in {"sent", "answered"}
         => "accepted" \notin Told[id]
    /\ request[id].stage \in {"unsent", "sent", "answered", "watched",
                              "finished"}
         => Told[id] \cap Ends = {}
    /\ request[id].stage \in {"sent", "answered", "watched", "finished"}
         => ("rejected" \in Told[id] => id \in repeated)

\* A message that may come again is that of a command that has arrived, there
\* is one for each, and its number is used up once the command has run.
CopiesArePast ==
  /\ \A m \in copies :
       m.id <= count /\ (m.id \in Ran => m.seq < lastSeq[m.client])
  /\ \A m, n \in copies : m.id = n.id => m = n

IInv ==
  /\ TypeOK
  /\ PendingIsLatest
  /\ ActiveIsCurrent
  /\ RelayIsLatest
  /\ FutureIsUntouched
  /\ StagesAgree
  /\ ShownHasRun
  /\ RepliesAgree
  /\ CopiesArePast
  /\ ReplyProtocol

-----------------------------------------------------------------------------
(* Replies                                                                 *)

\* What has been replied after one more reply.
LEMMA ReplyFacts ==
  ASSUME TypeOK, NEW id \in Id, NEW s \in ReplyStatus, Reply(id, s)
  PROVE  /\ replies' \in [Id -> Seq(ReplyStatus)]
         /\ replies'[id] = Append(replies[id], s)
         /\ \A j \in Id : j # id => replies'[j] = replies[j]
         /\ \A j \in Id : j # id => Told'[j] = Told[j]
         /\ Told'[id] = Told[id] \cup {s}
<1>1. replies \in [Id -> Seq(ReplyStatus)]
  BY DEF TypeOK
<1>2. replies' = [replies EXCEPT ![id] = Append(replies[id], s)]
  BY DEF Reply
<1>3. replies[id] \in Seq(ReplyStatus)
  BY <1>1
<1>4. Append(replies[id], s) \in Seq(ReplyStatus)
  BY <1>3
<1>5. /\ replies' \in [Id -> Seq(ReplyStatus)]
      /\ replies'[id] = Append(replies[id], s)
      /\ \A j \in Id : j # id => replies'[j] = replies[j]
  BY <1>1, <1>2, <1>4
<1>6. \A j \in Id : j # id => Told'[j] = Told[j]
  BY <1>5 DEF Told
<1>7. Told'[id] = Told[id] \cup {s}
  <2>. DEFINE q == replies[id]
  <2>1. /\ Len(Append(q, s)) = Len(q) + 1 /\ Len(q) \in Nat
        /\ Append(q, s)[Len(q) + 1] = s
        /\ \A i \in 1..Len(q) : Append(q, s)[i] = q[i]
        /\ DOMAIN q = 1..Len(q) /\ DOMAIN Append(q, s) = 1..Len(q) + 1
    BY <1>3, <1>4
  <2>2. Told'[id] = {Append(q, s)[i] : i \in 1..Len(q) + 1}
    BY <1>5, <2>1 DEF Told
  <2>3. Told[id] = {q[i] : i \in 1..Len(q)}
    BY <2>1 DEF Told
  <2>. HIDE DEF q
  <2>4. ASSUME NEW x PROVE x \in Told'[id] <=> x \in Told[id] \cup {s}
    <3>1. x \in Told'[id] => x \in Told[id] \cup {s}
      BY <2>1, <2>2, <2>3
    <3>2. s \in Told'[id]
      BY <2>1, <2>2
    <3>3. x \in Told[id] => x \in Told'[id]
      BY <2>1, <2>2, <2>3
    <3>. QED
      BY <3>1, <3>2, <3>3
  <2>. QED
    BY <2>4
<1>. QED
  BY <1>5, <1>6, <1>7

\* One more reply keeps the protocol when it is an acceptance of a command that
\* has only been refused, a final reply to one without, or a refusal, and when
\* refusals beside other replies come from repeated messages.
LEMMA ReplyKeepsProtocol ==
  ASSUME TypeOK, ReplyProtocol, NEW id \in Id, NEW s \in ReplyStatus,
         Reply(id, s), repeated \subseteq repeated',
         s # "rejected" => Told[id] \cap Ends = {},
         s = "accepted" => "accepted" \notin Told[id],
         s = "rejected" => (replies[id] # <<>> => id \in repeated'),
         "rejected" \in Told[id] => id \in repeated'
  PROVE  ReplyProtocol'
<1>1. /\ replies'[id] = Append(replies[id], s)
      /\ \A j \in Id : j # id => replies'[j] = replies[j]
  BY ReplyFacts
<1>2. replies[id] \in Seq(ReplyStatus)
  BY DEF TypeOK
<1>. SUFFICES ASSUME NEW j \in Id, NEW a \in DOMAIN replies'[j],
                     NEW b \in DOMAIN replies'[j], a < b
              PROVE  /\ replies'[j][b] = "accepted"
                          => replies'[j][a] = "rejected"
                     /\ replies'[j][b] \in Ends
                          => replies'[j][a] \in {"accepted", "rejected"}
                     /\ "rejected" \in {replies'[j][a], replies'[j][b]}
                          => j \in repeated'
  BY DEF ReplyProtocol
<1>3. CASE j # id
  BY <1>1, <1>3 DEF ReplyProtocol
<1>4. CASE j = id
  <2>. DEFINE q == replies[id]
  <2>1. /\ Len(q) \in Nat /\ DOMAIN q = 1..Len(q)
        /\ DOMAIN Append(q, s) = 1..Len(q) + 1
        /\ Append(q, s)[Len(q) + 1] = s
        /\ \A i \in 1..Len(q) : Append(q, s)[i] = q[i]
        /\ \A i \in 1..Len(q) : q[i] \in ReplyStatus
    BY <1>2
  <2>2. /\ a \in 1..Len(q) /\ b \in 1..Len(q) + 1 /\ a \in DOMAIN q
        /\ replies'[j][a] = q[a] /\ q[a] \in ReplyStatus
    BY <1>1, <1>4, <2>1
  <2>3. CASE b \in 1..Len(q)
    <3>1. b \in DOMAIN q /\ replies'[j][b] = q[b]
      BY <1>1, <1>4, <2>1, <2>3
    <3>. QED
      BY <1>4, <2>2, <3>1 DEF ReplyProtocol
  <2>4. CASE b = Len(q) + 1
    <3>1. replies'[j][b] = s
      BY <1>1, <1>4, <2>1, <2>4
    <3>2. q[a] \in Told[id] /\ q # <<>>
      BY <2>2 DEF Told
    <3>3. q[a] = "rejected" => id \in repeated'
      BY <3>2
    <3>4. s = "rejected" => id \in repeated'
      BY <3>2
    <3>5. s # "rejected" => q[a] \in {"accepted", "rejected"}
      BY <2>2, <3>2 DEF Ends, ReplyStatus
    <3>6. s = "accepted" => q[a] # "accepted"
      BY <3>2
    <3>. QED
      BY <1>4, <2>2, <3>1, <3>3, <3>4, <3>5, <3>6 DEF Ends
  <2>. QED
    BY <2>2, <2>3, <2>4
<1>. QED
  BY <1>3, <1>4

-----------------------------------------------------------------------------
(* Commands                                                                *)

LEMMA InitIInv == Init => IInv
<1>. SUFFICES ASSUME Init PROVE IInv
  OBVIOUS
<1>1. \A i \in Id : /\ request[i] = At("unsent") /\ replies[i] = <<>>
                    /\ request[i].stage = "unsent"
  BY DEF Init, At
<1>2. TypeOK
  <2>1. request \in [Id -> RequestState]
    BY DEF Init, RequestState, At, Stage
  <2>2. <<>> \in Seq(ReplyStatus)
    OBVIOUS
  <2>3. replies \in [Id -> Seq(ReplyStatus)]
    BY <2>2 DEF Init
  <2>4. /\ lastSeq \in [Clients -> 0..MaxSequence + 1]
        /\ count \in 0..MaxCommands /\ repeats \in 0..MaxRepeats
    BY GatewayAssumption DEF Init
  <2>. QED
    BY <2>1, <2>3, <2>4 DEF Init, TypeOK, NavState, None
<1>3. \A i \in Id : Told[i] = {}
  BY <1>1 DEF Told
<1>4. RepliesAgree
  BY <1>1, <1>3 DEF RepliesAgree
<1>5. ReplyProtocol
  BY <1>1 DEF ReplyProtocol
<1>. QED
  BY <1>1, <1>2, <1>4, <1>5
  DEF Init, IInv, PendingIsLatest, ActiveIsCurrent, RelayIsLatest,
      FutureIsUntouched, StagesAgree, ShownHasRun, CopiesArePast, None

LEMMA CopyPast ==
  ASSUME IInv, NEW c \in copies
  PROVE  c.id <= count /\ (c.id \in Ran => c.seq < lastSeq[c.client])
<1>1. CopiesArePast
  BY DEF IInv
<1>. QED
  BY <1>1 DEF CopiesArePast

\* What is true of every command received, the first time or again.
LEMMA Received ==
  ASSUME IInv, NEW m \in Message, ReceiveCommand(m)
  PROVE  /\ m.id \in Id /\ m.id <= count' /\ count <= count'
         /\ count \in Nat /\ count' \in 0..MaxCommands
         /\ copies' \in SUBSET Message /\ repeats' \in 0..MaxRepeats
         /\ repeated' \in SUBSET Id /\ repeated \subseteq repeated'
         /\ replies[m.id] # <<>> => m.id \in repeated'
         /\ "rejected" \in Told[m.id] => m.id \in repeated'
         /\ m.id \in Ran => m.seq < lastSeq[m.client]
<1>1. /\ m.id \in Id /\ count \in 0..MaxCommands /\ count \in Nat
      /\ repeats \in 0..MaxRepeats /\ copies \in SUBSET Message
      /\ repeated \in SUBSET Id
  BY GatewayAssumption DEF Message, IInv, TypeOK
<1>2. ASSUME NEW rest \in SUBSET Message, Copy(m, rest)
      PROVE  copies' \in SUBSET Message /\ repeats' \in 0..MaxRepeats
  BY <1>1, <1>2, GatewayAssumption DEF Copy
<1>3. "rejected" \in Told[m.id] => replies[m.id] # <<>>
  <2>1. Told[m.id] = {replies[m.id][i] : i \in DOMAIN replies[m.id]}
    BY <1>1 DEF Told
  <2>. QED
    BY <2>1
<1>4. CASE Arrives(m)
  <2>1. /\ m.id = count + 1 /\ count' = count + 1 /\ count < MaxCommands
        /\ repeated' = repeated /\ Copy(m, copies)
    BY <1>4 DEF Arrives
  <2>2. request[m.id].stage = "unsent" /\ replies[m.id] = <<>>
    BY <1>1, <2>1 DEF IInv, FutureIsUntouched
  <2>3. m.id \notin Ran
    BY <2>2 DEF Ran, Told
  <2>. QED
    BY <1>1, <1>2, <1>3, <2>1, <2>2, <2>3, GatewayAssumption
<1>5. CASE ArrivesAgain(m)
  <2>1. PICK c \in copies : /\ m.id = c.id /\ m.client = c.client
                            /\ m.seq = c.seq /\ Copy(m, copies \ {c})
    BY <1>5 DEF ArrivesAgain
  <2>2. repeated' = repeated \cup {m.id} /\ count' = count
    BY <1>5 DEF ArrivesAgain
  <2>3. m.id <= count /\ (m.id \in Ran => m.seq < lastSeq[m.client])
    <3>1. m.id = c.id /\ m.client = c.client /\ m.seq = c.seq
      BY <2>1
    <3>2. c.id <= count /\ (c.id \in Ran => c.seq < lastSeq[c.client])
      BY CopyPast
    <3>. QED
      BY <3>1, <3>2
  <2>4. copies' \in SUBSET Message /\ repeats' \in 0..MaxRepeats
    BY <1>1, <1>2, <2>1
  <2>. QED
    BY <1>1, <2>2, <2>3, <2>4
<1>. QED
  BY <1>4, <1>5 DEF ReceiveCommand

\* A command that has run comes again only as a repeat.
LEMMA RanIsRepeated ==
  ASSUME IInv, NEW m \in Message, ReceiveCommand(m), m.id \in Ran
  PROVE  m.id \in repeated'
<1>1. CASE Arrives(m)
  <2>1. m.id = count + 1 /\ count \in Nat /\ m.id \in Id
    BY <1>1, GatewayAssumption DEF Arrives, Message, IInv, TypeOK
  <2>2. request[m.id].stage = "unsent" /\ replies[m.id] = <<>>
    BY <2>1 DEF IInv, FutureIsUntouched
  <2>. QED
    BY <2>2 DEF Ran, Told
<1>2. CASE ArrivesAgain(m)
  BY <1>2 DEF ArrivesAgain
<1>. QED
  BY <1>1, <1>2 DEF ReceiveCommand

\* A command that is valid has not run before: no field refers to it.
LEMMA NeverRan ==
  ASSUME IInv, NEW m \in Message, ReceiveCommand(m), Valid(m)
  PROVE  /\ m.id \notin Ran /\ m.id # None
         /\ request[m.id].stage = "unsent"
         /\ "accepted" \notin Told[m.id] /\ Told[m.id] \cap Ends = {}
         /\ lastOverride # m.id
         /\ active # m.id /\ pending # m.id /\ nav.goal # m.id
<1>1. m.id \notin Ran /\ m.id \in Id
  <2>1. m.seq \in Nat /\ lastSeq[m.client] \in Nat
        /\ m.seq >= lastSeq[m.client]
    BY GatewayAssumption DEF Message, Valid, IInv, TypeOK
  <2>. QED
    BY <2>1, Received
<1>2. m.id # None
  BY <1>1, GatewayAssumption DEF Id, None
<1>3. request[m.id].stage = "unsent" /\ "accepted" \notin Told[m.id]
  BY <1>1 DEF Ran
<1>4. Told[m.id] \cap Ends = {}
  BY <1>1, <1>3 DEF IInv, RepliesAgree
<1>5. lastOverride # m.id /\ nav.goal # m.id
  BY <1>1, <1>2 DEF IInv, ShownHasRun
<1>6. active # m.id /\ pending # m.id
  BY <1>2, <1>5 DEF IInv, ActiveIsCurrent, PendingIsLatest
<1>. QED
  BY <1>1, <1>2, <1>3, <1>4, <1>5, <1>6

\* The messages that may come again, after one was received.
LEMMA CopiesKept ==
  ASSUME IInv, NEW m \in Message, ReceiveCommand(m),
         \A j \in Id : j \in Ran' => j \in Ran \/ j = m.id,
         m.id \in Ran' => m.seq < lastSeq'[m.client],
         \A c \in Clients : lastSeq[c] \in Nat /\ lastSeq'[c] \in Nat
                            /\ lastSeq[c] <= lastSeq'[c]
  PROVE  CopiesArePast'
<1>1. /\ m.id <= count' /\ count <= count' /\ count \in Nat
      /\ count' \in Nat /\ copies \in SUBSET Message
  BY Received, GatewayAssumption DEF IInv, TypeOK
<1>2. ASSUME NEW n \in copies
      PROVE  /\ n.id \in Nat /\ n.id \in Id /\ n.id <= count
             /\ n.client \in Clients /\ n.seq \in Nat
             /\ n.id \in Ran => n.seq < lastSeq[n.client]
  <2>1. n \in Message
    BY <1>1
  <2>2. n.id \in Id /\ n.client \in Clients /\ n.seq \in Nat
    BY <2>1, GatewayAssumption DEF Message
  <2>3. n.id <= count /\ (n.id \in Ran => n.seq < lastSeq[n.client])
    BY CopyPast
  <2>4. n.id \in Nat
    BY <2>2, GatewayAssumption DEF Id
  <2>. QED
    BY <2>2, <2>3, <2>4
\* Whatever is kept beside m is an old copy of another command.
<1>3. PICK rest \in SUBSET copies :
        /\ Copy(m, rest)
        /\ \A n \in rest : n.id # m.id
  <2>1. CASE Arrives(m)
    <3>1. Copy(m, copies) /\ m.id = count + 1
      BY <2>1 DEF Arrives
    <3>. QED
      BY <1>1, <1>2, <3>1
  <2>2. CASE ArrivesAgain(m)
    <3>1. PICK c \in copies : m.id = c.id /\ Copy(m, copies \ {c})
      BY <2>2 DEF ArrivesAgain
    <3>. QED
      BY <3>1 DEF IInv, CopiesArePast
  <2>. QED
    BY <2>1, <2>2 DEF ReceiveCommand
<1>4. copies' \subseteq rest \cup {m}
  BY <1>3 DEF Copy
<1>5. ASSUME NEW n \in rest
      PROVE  n.id <= count' /\ (n.id \in Ran' => n.seq < lastSeq'[n.client])
  <2>1. n.id <= count'
    BY <1>1, <1>2
  <2>2. n.id \in Ran' => n.id \in Ran
    BY <1>2, <1>3
  <2>. QED
    BY <1>2, <2>1, <2>2
<1>6. \A n \in copies' : /\ n.id <= count'
                         /\ n.id \in Ran' => n.seq < lastSeq'[n.client]
  BY <1>1, <1>4, <1>5
<1>7. \A n, k \in copies' : n.id = k.id => n = k
  BY <1>3, <1>4 DEF IInv, CopiesArePast
<1>. QED
  BY <1>6, <1>7 DEF CopiesArePast

\* Commands that leave the navigation alone: reset, navigation mode, lift,
\* unsupported kinds, and everything that is rejected.
Passive(id) ==
  /\ \E s \in {"accepted", "rejected"} : Reply(id, s)
  /\ LeaveNavigation
  /\ NoOverride

\* Commands that cancel the navigation.
Overriding(id) ==
  /\ RequestNavCancel
  /\ Reply(id, "accepted")
  /\ Override(id)

LEMMA DispatchKinds ==
  ASSUME NEW id, Dispatch(id)
  PROVE  Passive(id) \/ Overriding(id) \/ NavigationGoal(id, TRUE)
<1>1. CASE \E ready \in BOOLEAN : NavigationGoal(id, ready)
  <2>1. NavigationGoal(id, TRUE) \/ NavigationGoal(id, FALSE)
    BY <1>1
  <2>. QED
    BY <2>1 DEF NavigationGoal, Passive
<1>2. CASE \E m \in Mode : SetMode(id, m)
  BY <1>2 DEF SetMode, Passive, Overriding
<1>3. CASE CancelNavigation(id)
  BY <1>3 DEF CancelNavigation, Passive, Overriding
<1>4. CASE ResetEmergencyStop(id) \/ Lift(id) \/ Unsupported(id)
  BY <1>4 DEF ResetEmergencyStop, Lift, Unsupported, Passive
<1>5. CASE \/ \E v \in Velocities : ManualMotion(id, v)
           \/ Stop(id) \/ BrakeCommand(id) \/ EmergencyStop(id)
  BY <1>5 DEF ManualMotion, Stop, BrakeCommand, EmergencyStop, Overriding
<1>. QED
  BY <1>1, <1>2, <1>3, <1>4, <1>5 DEF Dispatch

\* What a reply to a command just received, which does not send a goal, does
\* to the parts of the invariant that are about replies.
LEMMA ReplyToReceived ==
  ASSUME IInv, NEW m \in Message, ReceiveCommand(m),
         NEW s \in {"accepted", "rejected"}, Reply(m.id, s),
         s = "accepted" => m.id \notin Ran /\ Told[m.id] \cap Ends = {},
         request' = request
  PROVE  /\ replies' \in [Id -> Seq(ReplyStatus)]
         /\ ReplyProtocol' /\ RepliesAgree'
         /\ \A j \in Id : j > count' => replies'[j] = <<>>
         /\ Ran' = IF s = "accepted" THEN Ran \cup {m.id} ELSE Ran
<1>1. /\ m.id \in Id /\ m.id <= count' /\ count <= count'
      /\ count \in Nat /\ count' \in Nat /\ repeated \subseteq repeated'
      /\ replies[m.id] # <<>> => m.id \in repeated'
      /\ "rejected" \in Told[m.id] => m.id \in repeated'
  BY Received, GatewayAssumption
<1>2. /\ TypeOK /\ ReplyProtocol /\ RepliesAgree /\ FutureIsUntouched
  BY DEF IInv
<1>3. s \in ReplyStatus
  BY DEF ReplyStatus
<1>4. /\ replies' \in [Id -> Seq(ReplyStatus)]
      /\ \A j \in Id : j # m.id => replies'[j] = replies[j]
      /\ \A j \in Id : j # m.id => Told'[j] = Told[j]
      /\ Told'[m.id] = Told[m.id] \cup {s}
  BY <1>1, <1>2, <1>3, ReplyFacts
<1>5. s = "accepted" => /\ request[m.id].stage = "unsent"
                        /\ "accepted" \notin Told[m.id]
  BY <1>1 DEF Ran
<1>6. ReplyProtocol'
  BY <1>1, <1>2, <1>3, <1>5, ReplyKeepsProtocol
<1>7. RepliesAgree'
  <2>1. ASSUME NEW j \in Id, j # m.id
        PROVE  /\ request[j].stage \in {"sent", "answered"}
                    => "accepted" \notin Told'[j]
               /\ request[j].stage \in {"unsent", "sent", "answered",
                                        "watched", "finished"}
                    => Told'[j] \cap Ends = {}
               /\ request[j].stage \in {"sent", "answered", "watched",
                                        "finished"}
                    => ("rejected" \in Told'[j] => j \in repeated')
    BY <1>1, <1>2, <1>4, <2>1 DEF RepliesAgree
  <2>2. /\ request[m.id].stage \in {"sent", "answered"}
             => "accepted" \notin Told'[m.id]
        /\ request[m.id].stage \in {"unsent", "sent", "answered",
                                    "watched", "finished"}
             => Told'[m.id] \cap Ends = {}
    BY <1>1, <1>2, <1>4, <1>5 DEF RepliesAgree, Ends
  <2>3. (/\ request[m.id].stage \in {"sent", "answered", "watched", "finished"}
         /\ "rejected" \in Told'[m.id])
           => m.id \in repeated'
    <3>1. CASE s = "accepted"
      BY <1>5, <3>1
    <3>2. CASE s = "rejected" /\ request[m.id].stage # "unsent"
      <4>1. m.id \in Ran
        BY <1>1, <3>2 DEF Ran
      <4>. QED
        BY <4>1, RanIsRepeated
    <3>. QED
      BY <3>1, <3>2
  <2>. QED
    BY <2>1, <2>2, <2>3 DEF RepliesAgree
<1>8. \A j \in Id : j > count' => replies'[j] = <<>>
  <2>1. \A j \in Id : j > count' => j > count /\ j # m.id
    BY <1>1 DEF Id
  <2>. QED
    BY <1>2, <1>4, <2>1 DEF FutureIsUntouched
<1>9. Ran' = IF s = "accepted" THEN Ran \cup {m.id} ELSE Ran
  <2>1. ASSUME NEW j \in Id, j # m.id PROVE j \in Ran' <=> j \in Ran
    BY <1>4, <2>1 DEF Ran
  <2>2. m.id \in Ran' <=> (m.id \in Ran \/ s = "accepted")
    <3>1. "accepted" \in Told'[m.id]
            <=> ("accepted" \in Told[m.id] \/ s = "accepted")
      BY <1>4
    <3>2. m.id \in Ran' <=> (\/ request[m.id].stage # "unsent"
                             \/ "accepted" \in Told'[m.id])
      BY <1>1 DEF Ran
    <3>3. m.id \in Ran <=> (\/ request[m.id].stage # "unsent"
                            \/ "accepted" \in Told[m.id])
      BY <1>1 DEF Ran
    <3>. QED
      BY <3>1, <3>2, <3>3
  <2>3. Ran \subseteq Id /\ Ran' \subseteq Id
    BY DEF Ran
  <2>. QED
    <3>1. CASE s = "accepted"
      <4>1. \A j \in Id : j \in Ran' <=> j \in Ran \cup {m.id}
        BY <2>1, <2>2, <3>1
      <4>2. Ran \cup {m.id} \subseteq Id
        BY <1>1, <2>3
      <4>3. Ran' = Ran \cup {m.id}
        BY <2>3, <4>1, <4>2
      <4>. QED
        BY <3>1, <4>3
    <3>2. CASE s = "rejected"
      <4>1. \A j \in Id : j \in Ran' <=> j \in Ran
        BY <2>1, <2>2, <3>2
      <4>2. Ran' = Ran
        BY <2>3, <4>1
      <4>. QED
        BY <3>2, <4>2
    <3>. QED
      BY <3>1, <3>2
<1>. QED
  BY <1>4, <1>6, <1>7, <1>8, <1>9
LEMMA PassiveIInv ==
  ASSUME IInv, NEW m \in Message, ReceiveCommand(m),
         NEW s \in {"accepted", "rejected"}, Reply(m.id, s),
         s = "accepted" => m.id \notin Ran /\ Told[m.id] \cap Ends = {},
         s = "accepted" => m.seq < lastSeq'[m.client],
         LeaveNavigation, NoOverride,
         lastSeq' \in [Clients -> 0..MaxSequence + 1],
         \A c \in Clients : lastSeq[c] <= lastSeq'[c]
  PROVE  IInv'
<1>1. /\ m.id \in Id /\ m.id <= count' /\ count <= count'
      /\ count \in Nat /\ count' \in 0..MaxCommands
      /\ copies' \in SUBSET Message /\ repeats' \in 0..MaxRepeats
      /\ repeated' \in SUBSET Id /\ repeated \subseteq repeated'
  BY Received
<1>2. UNCHANGED <<nav, active, activeCmd, pending, relay, request,
                  cancelAsked, lastOverride>>
  BY DEF LeaveNavigation, NoOverride, handleVars
<1>3. /\ replies' \in [Id -> Seq(ReplyStatus)]
      /\ ReplyProtocol' /\ RepliesAgree'
      /\ \A j \in Id : j > count' => replies'[j] = <<>>
      /\ Ran' = IF s = "accepted" THEN Ran \cup {m.id} ELSE Ran
  BY <1>2, ReplyToReceived
<1>4. TypeOK'
  BY <1>1, <1>2, <1>3 DEF IInv, TypeOK
<1>5. PendingIsLatest' /\ ActiveIsCurrent' /\ RelayIsLatest' /\ StagesAgree'
  BY <1>2
  DEF IInv, PendingIsLatest, ActiveIsCurrent, RelayIsLatest, StagesAgree
<1>6. FutureIsUntouched'
  <2>1. lastOverride \in Nat /\ nav.goal \in Nat /\ count' \in Nat
    BY <1>1, GatewayAssumption DEF IInv, TypeOK, Id, None
  <2>2. lastOverride' <= count' /\ nav'.goal <= count'
    BY <1>1, <1>2, <2>1 DEF IInv, FutureIsUntouched
  <2>3. \A j \in Id : j > count' => j > count
    BY <1>1, <2>1 DEF Id
  <2>. QED
    BY <1>2, <1>3, <2>2, <2>3 DEF IInv, FutureIsUntouched
<1>7. ShownHasRun'
  BY <1>2, <1>3 DEF IInv, ShownHasRun
<1>8. CopiesArePast'
  <2>1. \A c \in Clients : lastSeq[c] \in Nat /\ lastSeq'[c] \in Nat
    BY GatewayAssumption DEF IInv, TypeOK
  <2>2. m.id \in Ran' => m.seq < lastSeq'[m.client]
    <3>1. CASE s = "accepted"
      BY <3>1
    <3>2. CASE s = "rejected"
      <4>1. m.id \in Ran' => m.seq < lastSeq[m.client]
        BY <1>3, <3>2, Received
      <4>2. m.seq \in Nat /\ m.client \in Clients
        BY GatewayAssumption DEF Message
      <4>. QED
        BY <2>1, <4>1, <4>2
    <3>. QED
      BY <3>1, <3>2
  <2>3. \A j \in Id : j \in Ran' => j \in Ran \/ j = m.id
    BY <1>3
  <2>. QED
    BY <2>1, <2>2, <2>3, CopiesKept
<1>. QED
  BY <1>3, <1>4, <1>5, <1>6, <1>7, <1>8 DEF IInv

\* The number of a command that runs is used up.
LEMMA SequenceTaken ==
  ASSUME IInv, NEW m \in Message, Valid(m),
         lastSeq' = [lastSeq EXCEPT ![m.client] = m.seq + 1]
  PROVE  /\ lastSeq' \in [Clients -> 0..MaxSequence + 1]
         /\ m.seq < lastSeq'[m.client]
         /\ \A c \in Clients : /\ lastSeq[c] \in Nat /\ lastSeq'[c] \in Nat
                               /\ lastSeq[c] <= lastSeq'[c]
<1>1. /\ m.client \in Clients /\ m.seq \in 0..MaxSequence
      /\ m.seq >= lastSeq[m.client]
  BY DEF Message, Valid
<1>2. lastSeq \in [Clients -> 0..MaxSequence + 1]
  BY DEF IInv, TypeOK
<1>3. /\ m.seq \in Nat /\ m.seq + 1 \in 0..MaxSequence + 1
      /\ \A c \in Clients : lastSeq[c] \in Nat
  BY <1>1, <1>2, GatewayAssumption
<1>4. /\ lastSeq'[m.client] = m.seq + 1
      /\ \A c \in Clients : c # m.client => lastSeq'[c] = lastSeq[c]
  BY <1>1, <1>2
<1>5. lastSeq' \in [Clients -> 0..MaxSequence + 1]
  BY <1>2, <1>3
<1>. QED
  BY <1>1, <1>3, <1>4, <1>5

LEMMA OverridingIInv ==
  ASSUME IInv, NEW m \in Message, ReceiveCommand(m), Valid(m),
         Overriding(m.id),
         lastSeq' = [lastSeq EXCEPT ![m.client] = m.seq + 1]
  PROVE  IInv'
<1>. DEFINE id == m.id
<1>1. /\ id \in Id /\ id <= count' /\ count <= count'
      /\ count \in Nat /\ count' \in 0..MaxCommands
      /\ copies' \in SUBSET Message /\ repeats' \in 0..MaxRepeats
      /\ repeated' \in SUBSET Id /\ repeated \subseteq repeated'
  BY Received
<1>2. /\ id \notin Ran /\ Told[id] \cap Ends = {}
      /\ active # id /\ pending # id /\ nav.goal # id
  BY NeverRan
<1>3. /\ relay' = FALSE /\ pending' = None /\ lastOverride' = id
      /\ UNCHANGED <<active, activeCmd, request>>
      /\ cancelAsked' = cancelAsked \cup ({active} \ {None})
  BY DEF Overriding, RequestNavCancel, Override, CancelAskedAfter
<1>4. /\ replies' \in [Id -> Seq(ReplyStatus)]
      /\ ReplyProtocol' /\ RepliesAgree'
      /\ \A j \in Id : j > count' => replies'[j] = <<>>
      /\ Ran' = Ran \cup {id}
  <2>1. Reply(id, "accepted") /\ "accepted" \in {"accepted", "rejected"}
    BY DEF Overriding
  <2>. QED
    BY <1>2, <1>3, <2>1, ReplyToReceived
<1>5. /\ nav'.goal = nav.goal
      /\ nav' \in [state : NavState, goal : Id \cup {None}]
      /\ nav'.state = IF active # None \/ pending # None THEN "canceling"
                      ELSE nav.state
  BY DEF IInv, TypeOK, Overriding, RequestNavCancel, NavAfterCancel, NavState
<1>6. lastSeq' \in [Clients -> 0..MaxSequence + 1]
  BY SequenceTaken
<1>7. TypeOK'
  BY <1>1, <1>3, <1>4, <1>5, <1>6 DEF IInv, TypeOK
<1>8. PendingIsLatest' /\ RelayIsLatest'
  BY <1>3 DEF PendingIsLatest, RelayIsLatest
<1>9. ActiveIsCurrent'
  BY <1>3, <1>5 DEF IInv, ActiveIsCurrent
<1>10. FutureIsUntouched'
  <2>1. nav.goal \in Nat /\ count' \in Nat
    BY <1>1, GatewayAssumption DEF IInv, TypeOK, Id, None
  <2>2. lastOverride' <= count' /\ nav'.goal <= count'
    BY <1>1, <1>3, <1>5, <2>1 DEF IInv, FutureIsUntouched
  <2>3. \A j \in Id : j > count' => j > count
    BY <1>1, <2>1 DEF Id
  <2>. QED
    BY <1>3, <1>4, <2>2, <2>3 DEF IInv, FutureIsUntouched
<1>11. StagesAgree'
  <2>1. ASSUME NEW j \in Id, request[j].stage \in {"sent", "answered"},
               nav.goal = j
        PROVE  nav'.state = "canceling"
    <3>1. CASE pending = j
      <4>1. pending # None
        BY <3>1, GatewayAssumption DEF Id, None
      <4>. QED
        BY <1>5, <4>1
    <3>2. CASE pending # j
      BY <1>5, <2>1, <3>2 DEF IInv, StagesAgree
    <3>. QED
      BY <3>1, <3>2
  <2>. QED
    BY <1>3, <1>5, <2>1 DEF IInv, StagesAgree
<1>12. ShownHasRun'
  BY <1>3, <1>4, <1>5 DEF IInv, ShownHasRun
<1>13. CopiesArePast'
  <2>1. \A j \in Id : j \in Ran' => j \in Ran \/ j = m.id
    BY <1>4
  <2>. QED
    BY <2>1, SequenceTaken, CopiesKept
<1>. QED
  BY <1>4, <1>7, <1>8, <1>9, <1>10, <1>11, <1>12, <1>13 DEF IInv

LEMMA NavigationGoalIInv ==
  ASSUME IInv, NEW m \in Message, ReceiveCommand(m), Valid(m),
         NavigationGoal(m.id, TRUE),
         lastSeq' = [lastSeq EXCEPT ![m.client] = m.seq + 1]
  PROVE  IInv'
<1>. DEFINE id == m.id
<1>1. /\ id \in Id /\ id <= count' /\ count <= count'
      /\ count \in Nat /\ count' \in 0..MaxCommands
      /\ copies' \in SUBSET Message /\ repeats' \in 0..MaxRepeats
      /\ repeated' \in SUBSET Id /\ repeated \subseteq repeated'
      /\ "rejected" \in Told[id] => id \in repeated'
  BY Received
<1>2. /\ id \notin Ran /\ Told[id] \cap Ends = {} /\ "accepted" \notin Told[id]
      /\ active # id /\ pending # id /\ nav.goal # id
      /\ request[id].stage = "unsent"
  BY NeverRan
<1>3. /\ cancelAsked' = cancelAsked \cup ({active} \ {None})
      /\ active' = None /\ activeCmd' = None /\ relay' = FALSE
      /\ nav' = [state |-> "sending", goal |-> id]
      /\ pending' = id /\ lastOverride' = id
      /\ request' = [request EXCEPT ![id] = At("sent")]
      /\ replies' = replies
  BY DEF NavigationGoal, CancelAskedAfter, Override
<1>4. /\ request' \in [Id -> RequestState]
      /\ request'[id].stage = "sent"
      /\ \A j \in Id : j # id => request'[j] = request[j]
  BY <1>1, <1>3 DEF IInv, TypeOK, At, RequestState, Stage
<1>5. lastSeq' \in [Clients -> 0..MaxSequence + 1]
  BY SequenceTaken
<1>6. TypeOK'
  BY <1>1, <1>3, <1>4, <1>5 DEF IInv, TypeOK, NavState
<1>7. PendingIsLatest' /\ RelayIsLatest' /\ ActiveIsCurrent'
  BY <1>3, <1>4 DEF PendingIsLatest, RelayIsLatest, ActiveIsCurrent
<1>8. FutureIsUntouched'
  <2>1. lastOverride' <= count' /\ nav'.goal <= count'
    BY <1>1, <1>3
  <2>2. \A j \in Id : j > count' => j > count /\ j # id
    BY <1>1 DEF Id
  <2>. QED
    BY <1>3, <1>4, <2>1, <2>2 DEF IInv, FutureIsUntouched
<1>9. StagesAgree'
  BY <1>1, <1>2, <1>3, <1>4 DEF IInv, StagesAgree
<1>10. Ran' = Ran \cup {id} /\ Told' = Told
  BY <1>1, <1>3, <1>4 DEF Ran, Told
<1>11. ShownHasRun'
  BY <1>3, <1>10 DEF ShownHasRun
<1>12. RepliesAgree'
  BY <1>1, <1>2, <1>3, <1>4, <1>10 DEF IInv, RepliesAgree
<1>13. CopiesArePast'
  <2>1. \A j \in Id : j \in Ran' => j \in Ran \/ j = m.id
    BY <1>10
  <2>. QED
    BY <2>1, SequenceTaken, CopiesKept
<1>14. ReplyProtocol'
  BY <1>1, <1>3 DEF IInv, ReplyProtocol
<1>. QED
  BY <1>6, <1>7, <1>8, <1>9, <1>11, <1>12, <1>13, <1>14 DEF IInv
-----------------------------------------------------------------------------
(* Nav2 and the callbacks                                                  *)

\* What every step that handles no command leaves alone, and what the change
\* of one request needs for the type to hold.
LEMMA RequestChange ==
  ASSUME IInv, NEW id \in Id, NEW st \in Stage,
         NEW v \in Outcomes \cup GoalResult \cup {"none"},
         request' = [request EXCEPT ![id] = [stage |-> st, value |-> v]]
  PROVE  /\ request' \in [Id -> RequestState]
         /\ request'[id].stage = st /\ request'[id].value = v
         /\ \A j \in Id : j # id => request'[j] = request[j]
BY DEF IInv, TypeOK, RequestState

\* A request that has been sent belongs to a command that has arrived.
LEMMA SentHasArrived ==
  ASSUME IInv, NEW id \in Id, request[id].stage # "unsent"
  PROVE  ~(id > count)
BY DEF IInv, FutureIsUntouched

\* A request that has been sent stays sent, so nothing new counts as having run.
LEMMA RanUnchanged ==
  ASSUME NEW id \in Id, request[id].stage # "unsent",
         request'[id].stage # "unsent",
         \A j \in Id : j # id => request'[j] = request[j],
         \A j \in Id : j # id => Told'[j] = Told[j]
  PROVE  Ran' = Ran
<1>1. ASSUME NEW j \in Id PROVE j \in Ran' <=> j \in Ran
  BY DEF Ran
<1>. QED
  BY <1>1 DEF Ran

LEMMA CallbackKeeps ==
  ASSUME IInv, UNCHANGED <<received, lastOverride>>, nav'.goal = nav.goal,
         Ran' = Ran
  PROVE  ShownHasRun' /\ CopiesArePast'
BY DEF IInv, ShownHasRun, CopiesArePast, received

\* A reply to a goal that is under way.
LEMMA CallbackReply ==
  ASSUME IInv, NEW id \in Id, NEW s \in ReplyStatus, Reply(id, s),
         UNCHANGED received,
         request[id].stage \in {"sent", "answered", "watched", "finished"},
         s \in {"accepted", "rejected"} => "accepted" \notin Told[id]
  PROVE  /\ replies' \in [Id -> Seq(ReplyStatus)]
         /\ ReplyProtocol'
         /\ \A j \in Id : j # id => Told'[j] = Told[j]
         /\ Told'[id] = Told[id] \cup {s}
         /\ Told[id] \cap Ends = {}
         /\ "rejected" \in Told[id] => id \in repeated
         /\ \A j \in Id : j > count' => replies'[j] = <<>>
<1>1. TypeOK /\ ReplyProtocol /\ FutureIsUntouched
  BY DEF IInv
<1>2. /\ replies' \in [Id -> Seq(ReplyStatus)]
      /\ \A j \in Id : j # id => replies'[j] = replies[j]
      /\ \A j \in Id : j # id => Told'[j] = Told[j]
      /\ Told'[id] = Told[id] \cup {s}
  BY <1>1, ReplyFacts
<1>3. /\ Told[id] \cap Ends = {}
      /\ "rejected" \in Told[id] => id \in repeated
  BY DEF IInv, RepliesAgree
<1>4. s = "rejected" => (replies[id] # <<>> => id \in repeated)
  <2>. SUFFICES ASSUME s = "rejected", replies[id] # <<>>
                PROVE  id \in repeated
    OBVIOUS
  <2>1. replies[id] \in Seq(ReplyStatus)
    BY <1>1 DEF TypeOK
  <2>2. 1 \in DOMAIN replies[id] /\ replies[id][1] \in ReplyStatus
    BY <2>1
  <2>3. replies[id][1] \in Told[id]
    BY <2>2 DEF Told
  <2>4. replies[id][1] = "rejected"
    BY <1>3, <2>2, <2>3 DEF ReplyStatus, Ends
  <2>. QED
    BY <1>3, <2>3, <2>4
<1>5. repeated' = repeated /\ count' = count
  BY DEF received
<1>6. ReplyProtocol'
  BY <1>1, <1>3, <1>4, <1>5, ReplyKeepsProtocol
<1>7. \A j \in Id : j > count' => replies'[j] = <<>>
  BY <1>1, <1>2, <1>5 DEF FutureIsUntouched
<1>. QED
  BY <1>2, <1>3, <1>6, <1>7

LEMMA NavAnswersIInv ==
  ASSUME IInv, NEW id \in Id, NEW o \in Outcomes, NavAnswers(id, o)
  PROVE  IInv'
<1>1. request[id].stage = "sent"
  BY DEF NavAnswers, At
<1>2. /\ request' \in [Id -> RequestState]
      /\ request'[id].stage = "answered"
      /\ \A j \in Id : j # id => request'[j] = request[j]
  BY RequestChange DEF NavAnswers, Answered, Stage
<1>3. UNCHANGED <<lastSeq, count, copies, repeats, repeated, nav, active,
                  activeCmd, pending, relay, cancelAsked, replies,
                  lastOverride>>
  BY DEF NavAnswers, handleVars, received
<1>4. TypeOK'
  BY <1>2, <1>3 DEF IInv, TypeOK
<1>5. PendingIsLatest' /\ RelayIsLatest' /\ ReplyProtocol'
  <2>1. pending # None => pending \in Id
    BY DEF IInv, TypeOK
  <2>. QED
    BY <1>2, <1>3, <2>1
    DEF IInv, PendingIsLatest, RelayIsLatest, ReplyProtocol
<1>6. ActiveIsCurrent'
  <2>1. active # None => active \in Id /\ active # id
    BY <1>1 DEF IInv, TypeOK, ActiveIsCurrent
  <2>. QED
    BY <1>2, <1>3, <2>1 DEF IInv, ActiveIsCurrent
<1>7. FutureIsUntouched'
  BY <1>1, <1>2, <1>3, SentHasArrived DEF IInv, FutureIsUntouched
<1>8. StagesAgree'
  BY <1>1, <1>2, <1>3 DEF IInv, StagesAgree
<1>9. Told' = Told /\ Ran' = Ran
  <2>1. Told' = Told
    BY <1>3 DEF Told
  <2>. QED
    BY <1>1, <1>2, <2>1, RanUnchanged
<1>10. ShownHasRun' /\ CopiesArePast'
  BY <1>3, <1>9, CallbackKeeps DEF received
<1>11. RepliesAgree'
  BY <1>1, <1>2, <1>3, <1>9 DEF IInv, RepliesAgree
<1>. QED
  BY <1>4, <1>5, <1>6, <1>7, <1>8, <1>10, <1>11 DEF IInv

LEMMA NavFinishesIInv ==
  ASSUME IInv, NEW id \in Id, NEW r \in GoalResult, NavFinishes(id, r)
  PROVE  IInv'
<1>1. request[id].stage = "watched"
  BY DEF NavFinishes, At
<1>2. /\ request' \in [Id -> RequestState]
      /\ request'[id].stage = "finished"
      /\ \A j \in Id : j # id => request'[j] = request[j]
  BY RequestChange DEF NavFinishes, Finished, Stage
<1>3. UNCHANGED <<lastSeq, count, copies, repeats, repeated, nav, active,
                  activeCmd, pending, relay, cancelAsked, replies,
                  lastOverride>>
  BY DEF NavFinishes, handleVars, received
<1>4. TypeOK'
  BY <1>2, <1>3 DEF IInv, TypeOK
<1>5. PendingIsLatest' /\ RelayIsLatest' /\ ReplyProtocol'
  <2>1. pending # None => pending \in Id /\ pending # id
    BY <1>1 DEF IInv, TypeOK, PendingIsLatest
  <2>. QED
    BY <1>2, <1>3, <2>1
    DEF IInv, PendingIsLatest, RelayIsLatest, ReplyProtocol
<1>6. ActiveIsCurrent'
  <2>1. active # None => active \in Id
    BY DEF IInv, TypeOK
  <2>. QED
    BY <1>2, <1>3, <2>1 DEF IInv, ActiveIsCurrent
<1>7. FutureIsUntouched'
  BY <1>1, <1>2, <1>3, SentHasArrived DEF IInv, FutureIsUntouched
<1>8. StagesAgree'
  BY <1>1, <1>2, <1>3 DEF IInv, StagesAgree
<1>9. Told' = Told /\ Ran' = Ran
  <2>1. Told' = Told
    BY <1>3 DEF Told
  <2>. QED
    BY <1>1, <1>2, <2>1, RanUnchanged
<1>10. ShownHasRun' /\ CopiesArePast'
  BY <1>3, <1>9, CallbackKeeps DEF received
<1>11. RepliesAgree'
  BY <1>1, <1>2, <1>3, <1>9 DEF IInv, RepliesAgree
<1>. QED
  BY <1>4, <1>5, <1>6, <1>7, <1>8, <1>10, <1>11 DEF IInv

LEMMA ResponseSupersededIInv ==
  ASSUME IInv, NEW id \in Id, NEW o \in Outcomes, ResponseSuperseded(id, o)
  PROVE  IInv'
<1>1. request[id].stage = "answered" /\ pending # id
  BY DEF ResponseSuperseded, Answered
<1>. DEFINE st == IF o = "accepted" THEN "dropped" ELSE "over"
<1>2. /\ request' \in [Id -> RequestState]
      /\ request'[id].stage = st
      /\ \A j \in Id : j # id => request'[j] = request[j]
  BY RequestChange DEF ResponseSuperseded, Stage
<1>3. /\ UNCHANGED <<lastSeq, count, copies, repeats, repeated, active,
                     activeCmd, pending, relay, lastOverride>>
      /\ cancelAsked' = IF o = "accepted" THEN cancelAsked \cup {id}
                        ELSE cancelAsked
  BY DEF ResponseSuperseded, CallbackFrame, handleVars, received
<1>4. /\ nav' \in [state : NavState, goal : Id \cup {None}]
      /\ nav'.goal = nav.goal
      /\ nav.goal # id => nav' = nav
  BY DEF ResponseSuperseded, IInv, TypeOK, NavState, FinalStates, GoalResult
<1>5. PICK s \in {"completed"} : Reply(id, s)
  BY DEF ResponseSuperseded
<1>5a.
      /\ replies' \in [Id -> Seq(ReplyStatus)]
      /\ ReplyProtocol'
      /\ \A j \in Id : j # id => Told'[j] = Told[j]
      /\ Told'[id] = Told[id] \cup {s}
      /\ Told[id] \cap Ends = {}
      /\ "rejected" \in Told[id] => id \in repeated
      /\ \A j \in Id : j > count' => replies'[j] = <<>>
  <2>1. s \in ReplyStatus /\ UNCHANGED received
    BY <1>3 DEF ReplyStatus, received
  <2>2. s \in {"accepted", "rejected"} => "accepted" \notin Told[id]
    BY <1>1 DEF IInv, RepliesAgree
  <2>. QED
    BY <1>1, <1>5, <2>1, <2>2, CallbackReply
<1>5b. Ran' = Ran
  BY <1>1, <1>2, <1>5a, RanUnchanged
<1>5c. RepliesAgree'
  BY <1>1, <1>2, <1>3, <1>5, <1>5a DEF IInv, RepliesAgree
<1>5d. ShownHasRun' /\ CopiesArePast'
  BY <1>3, <1>4, <1>5b, CallbackKeeps DEF received
<1>6. /\ active # None => active \in Id /\ active # id /\ nav.goal # id
      /\ pending # None => pending \in Id /\ nav.goal # id
  BY <1>1 DEF IInv, TypeOK, ActiveIsCurrent, PendingIsLatest
<1>7. TypeOK'
  <2>1. cancelAsked' \in SUBSET Id
    BY <1>3 DEF IInv, TypeOK
  <2>. QED
    BY <1>2, <1>3, <1>4, <1>5a, <2>1 DEF IInv, TypeOK
<1>8. PendingIsLatest' /\ RelayIsLatest' /\ ActiveIsCurrent'
  BY <1>1, <1>2, <1>3, <1>4, <1>5a, <1>6
  DEF IInv, PendingIsLatest, RelayIsLatest, ActiveIsCurrent
<1>9. FutureIsUntouched'
  BY <1>1, <1>2, <1>3, <1>4, <1>5a, SentHasArrived
  DEF IInv, FutureIsUntouched
<1>10. StagesAgree'
  BY <1>1, <1>2, <1>3, <1>4, <1>5a DEF IInv, StagesAgree
<1>11. ReplyProtocol'
  BY <1>5a
<1>. QED
  BY <1>7, <1>8, <1>9, <1>10, <1>11, <1>5c, <1>5d DEF IInv

LEMMA ResponseRefusedIInv ==
  ASSUME IInv, NEW id \in Id, NEW o \in Outcomes, ResponseRefused(id, o)
  PROVE  IInv'
<1>1. request[id].stage = "answered" /\ pending = id /\ id # None
  BY GatewayAssumption DEF ResponseRefused, Answered, None, Id
<1>2. /\ request' \in [Id -> RequestState]
      /\ request'[id].stage = "over"
      /\ \A j \in Id : j # id => request'[j] = request[j]
  BY RequestChange DEF ResponseRefused, At, Stage
<1>3. /\ UNCHANGED <<lastSeq, count, copies, repeats, repeated, active,
                     activeCmd, cancelAsked, lastOverride>>
      /\ pending' = None
  BY DEF ResponseRefused, CallbackFrame, received
<1>4. active = None /\ ~relay /\ nav.goal = id
  BY <1>1 DEF IInv, PendingIsLatest
<1>5. relay' \in BOOLEAN /\ ~relay'
  BY <1>4 DEF ResponseRefused, IInv, TypeOK
<1>6. /\ nav' \in [state : NavState, goal : Id \cup {None}]
      /\ nav'.goal = nav.goal
  BY DEF ResponseRefused, IInv, TypeOK, NavState, FinalStates, GoalResult
<1>7. PICK s \in {"rejected", "failed"} : Reply(id, s)
  BY DEF ResponseRefused
<1>7a.
      /\ replies' \in [Id -> Seq(ReplyStatus)]
      /\ ReplyProtocol'
      /\ \A j \in Id : j # id => Told'[j] = Told[j]
      /\ Told'[id] = Told[id] \cup {s}
      /\ Told[id] \cap Ends = {}
      /\ "rejected" \in Told[id] => id \in repeated
      /\ \A j \in Id : j > count' => replies'[j] = <<>>
  <2>1. s \in ReplyStatus /\ UNCHANGED received
    BY <1>3 DEF ReplyStatus, received
  <2>2. s \in {"accepted", "rejected"} => "accepted" \notin Told[id]
    BY <1>1 DEF IInv, RepliesAgree
  <2>. QED
    BY <1>1, <1>7, <2>1, <2>2, CallbackReply
<1>7b. Ran' = Ran
  BY <1>1, <1>2, <1>7a, RanUnchanged
<1>7c. RepliesAgree'
  BY <1>1, <1>2, <1>3, <1>7, <1>7a DEF IInv, RepliesAgree
<1>7d. ShownHasRun' /\ CopiesArePast'
  BY <1>3, <1>6, <1>7b, CallbackKeeps DEF received
<1>8. TypeOK'
  BY <1>2, <1>3, <1>5, <1>6, <1>7a DEF IInv, TypeOK
<1>9. PendingIsLatest' /\ RelayIsLatest'
  BY <1>3, <1>5 DEF PendingIsLatest, RelayIsLatest
<1>10. ActiveIsCurrent'
  BY <1>3, <1>4 DEF IInv, ActiveIsCurrent
<1>11. FutureIsUntouched'
  BY <1>1, <1>2, <1>3, <1>6, <1>7a, SentHasArrived
  DEF IInv, FutureIsUntouched
<1>12. StagesAgree'
  BY <1>1, <1>2, <1>3, <1>4, <1>6, <1>7a DEF IInv, StagesAgree
<1>13. ReplyProtocol'
  BY <1>7a
<1>. QED
  BY <1>8, <1>9, <1>10, <1>11, <1>12, <1>13, <1>7c, <1>7d DEF IInv

LEMMA ResponseAcceptedIInv ==
  ASSUME IInv, NEW id \in Id, ResponseAccepted(id)
  PROVE  IInv'
<1>1. request[id].stage = "answered" /\ pending = id /\ id # None
  BY GatewayAssumption DEF ResponseAccepted, Answered, None, Id
<1>2. /\ request' \in [Id -> RequestState]
      /\ request'[id].stage = "watched"
      /\ \A j \in Id : j # id => request'[j] = request[j]
  BY RequestChange DEF ResponseAccepted, At, Stage
<1>3. /\ UNCHANGED <<lastSeq, count, copies, repeats, repeated, cancelAsked,
                     lastOverride>>
      /\ pending' = None /\ active' = id /\ activeCmd' = id /\ relay' = TRUE
  BY DEF ResponseAccepted, CallbackFrame, received
<1>4. active = None /\ nav.goal = id /\ lastOverride = id
  BY <1>1 DEF IInv, PendingIsLatest
<1>5. /\ nav' \in [state : NavState, goal : Id \cup {None}]
      /\ nav'.goal = nav.goal /\ nav'.state = "executing"
  BY DEF ResponseAccepted, IInv, TypeOK, NavState
<1>6. PICK s \in {"accepted"} : Reply(id, s)
  BY DEF ResponseAccepted
<1>6a.
      /\ replies' \in [Id -> Seq(ReplyStatus)]
      /\ ReplyProtocol'
      /\ \A j \in Id : j # id => Told'[j] = Told[j]
      /\ Told'[id] = Told[id] \cup {s}
      /\ Told[id] \cap Ends = {}
      /\ "rejected" \in Told[id] => id \in repeated
      /\ \A j \in Id : j > count' => replies'[j] = <<>>
  <2>1. s \in ReplyStatus /\ UNCHANGED received
    BY <1>3 DEF ReplyStatus, received
  <2>2. s \in {"accepted", "rejected"} => "accepted" \notin Told[id]
    BY <1>1 DEF IInv, RepliesAgree
  <2>. QED
    BY <1>1, <1>6, <2>1, <2>2, CallbackReply
<1>6b. Ran' = Ran
  BY <1>1, <1>2, <1>6a, RanUnchanged
<1>6c. RepliesAgree'
  <2>1. Told'[id] \cap Ends = {}
    BY <1>6, <1>6a DEF Ends
  <2>2. "rejected" \in Told'[id] => id \in repeated'
    BY <1>3, <1>6, <1>6a
  <2>. QED
    BY <1>1, <1>2, <1>3, <1>6a, <2>1, <2>2 DEF IInv, RepliesAgree
<1>6d. ShownHasRun' /\ CopiesArePast'
  BY <1>3, <1>5, <1>6b, CallbackKeeps DEF received
<1>7. TypeOK'
  BY <1>2, <1>3, <1>5, <1>6a DEF IInv, TypeOK
<1>8. PendingIsLatest' /\ RelayIsLatest' /\ ActiveIsCurrent'
  BY <1>1, <1>2, <1>3, <1>4, <1>5, <1>6a
  DEF PendingIsLatest, RelayIsLatest, ActiveIsCurrent
<1>9. FutureIsUntouched'
  BY <1>1, <1>2, <1>3, <1>5, <1>6a, SentHasArrived
  DEF IInv, FutureIsUntouched
<1>10. StagesAgree'
  <2>1. \A j \in Id : request[j].stage \in {"watched", "finished"}
                        => j \in cancelAsked
    BY <1>4 DEF IInv, StagesAgree, None, Id
  <2>. QED
    BY <1>1, <1>2, <1>3, <1>4, <1>5, <1>6a, <2>1 DEF IInv, StagesAgree
<1>11. ReplyProtocol'
  BY <1>6a
<1>. QED
  BY <1>7, <1>8, <1>9, <1>10, <1>11, <1>6c, <1>6d DEF IInv

LEMMA ResultIgnoredIInv ==
  ASSUME IInv, NEW id \in Id, ResultIgnored(id)
  PROVE  IInv'
<1>1. request[id].stage = "finished" /\ nav.goal # id
  BY DEF ResultIgnored
<1>2. /\ request' \in [Id -> RequestState]
      /\ request'[id].stage = "over"
      /\ \A j \in Id : j # id => request'[j] = request[j]
  BY RequestChange DEF ResultIgnored, At, Stage
<1>3. UNCHANGED <<lastSeq, count, copies, repeats, repeated, nav, active,
                  activeCmd, pending, relay, cancelAsked, replies,
                  lastOverride>>
  BY DEF ResultIgnored, CallbackFrame, handleVars, received
<1>4. /\ active # None => active \in Id /\ active # id
      /\ pending # None => pending \in Id /\ pending # id
  BY <1>1 DEF IInv, TypeOK, ActiveIsCurrent, PendingIsLatest
<1>5. TypeOK'
  BY <1>2, <1>3 DEF IInv, TypeOK
<1>6. /\ PendingIsLatest' /\ RelayIsLatest' /\ ReplyProtocol'
      /\ ActiveIsCurrent'
  BY <1>2, <1>3, <1>4
  DEF IInv, PendingIsLatest, RelayIsLatest, ReplyProtocol, ActiveIsCurrent
<1>7. FutureIsUntouched'
  BY <1>1, <1>2, <1>3, SentHasArrived DEF IInv, FutureIsUntouched
<1>8. StagesAgree'
  BY <1>2, <1>3 DEF IInv, StagesAgree
<1>9. Told' = Told /\ Ran' = Ran
  <2>1. Told' = Told
    BY <1>3 DEF Told
  <2>. QED
    BY <1>1, <1>2, <2>1, RanUnchanged
<1>10. ShownHasRun' /\ CopiesArePast'
  BY <1>3, <1>9, CallbackKeeps DEF received
<1>11. RepliesAgree'
  BY <1>1, <1>2, <1>3, <1>9 DEF IInv, RepliesAgree
<1>. QED
  BY <1>5, <1>6, <1>7, <1>8, <1>10, <1>11 DEF IInv

LEMMA ResultTakenIInv ==
  ASSUME IInv, NEW id \in Id, NEW r \in GoalResult, ResultTaken(id, r)
  PROVE  IInv'
<1>1. request[id].stage = "finished" /\ nav.goal = id /\ id # None
  BY GatewayAssumption DEF ResultTaken, Finished, None, Id
<1>2. /\ request' \in [Id -> RequestState]
      /\ request'[id].stage = "over"
      /\ \A j \in Id : j # id => request'[j] = request[j]
  BY RequestChange DEF ResultTaken, At, Stage
<1>3. /\ UNCHANGED <<lastSeq, count, copies, repeats, repeated, pending,
                     cancelAsked, lastOverride>>
      /\ relay' = FALSE /\ active' = None /\ activeCmd' = None
  BY DEF ResultTaken, CallbackFrame, received
<1>4. active = id /\ activeCmd = id /\ pending = None
  BY <1>1 DEF IInv, StagesAgree, ActiveIsCurrent, PendingIsLatest
<1>5. /\ nav' \in [state : NavState, goal : Id \cup {None}]
      /\ nav'.goal = nav.goal
  BY DEF ResultTaken, IInv, TypeOK, NavState, FinalStates
<1>6. PICK s \in {"completed", "failed"} : Reply(id, s)
  BY <1>1, <1>4 DEF ResultTaken, FinalReply
<1>6a.
      /\ replies' \in [Id -> Seq(ReplyStatus)]
      /\ ReplyProtocol'
      /\ \A j \in Id : j # id => Told'[j] = Told[j]
      /\ Told'[id] = Told[id] \cup {s}
      /\ Told[id] \cap Ends = {}
      /\ "rejected" \in Told[id] => id \in repeated
      /\ \A j \in Id : j > count' => replies'[j] = <<>>
  <2>1. s \in ReplyStatus /\ UNCHANGED received
    BY <1>3 DEF ReplyStatus, received
  <2>2. s \in {"accepted", "rejected"} => "accepted" \notin Told[id]
    BY <1>1 DEF IInv, RepliesAgree
  <2>. QED
    BY <1>1, <1>6, <2>1, <2>2, CallbackReply
<1>6b. Ran' = Ran
  BY <1>1, <1>2, <1>6a, RanUnchanged
<1>6c. RepliesAgree'
  BY <1>1, <1>2, <1>3, <1>6, <1>6a DEF IInv, RepliesAgree
<1>6d. ShownHasRun' /\ CopiesArePast'
  BY <1>3, <1>5, <1>6b, CallbackKeeps DEF received
<1>7. TypeOK'
  BY <1>2, <1>3, <1>5, <1>6a DEF IInv, TypeOK
<1>8. PendingIsLatest' /\ RelayIsLatest' /\ ActiveIsCurrent'
  BY <1>3, <1>4 DEF PendingIsLatest, RelayIsLatest, ActiveIsCurrent
<1>9. FutureIsUntouched'
  BY <1>1, <1>2, <1>3, <1>5, <1>6a, SentHasArrived
  DEF IInv, FutureIsUntouched
<1>10. StagesAgree'
  <2>1. \A j \in Id : (request[j].stage \in {"watched", "finished"} /\ j # id)
                        => j \in cancelAsked
    BY <1>4 DEF IInv, StagesAgree
  <2>. QED
    BY <1>1, <1>2, <1>3, <1>4, <1>5, <1>6a, <2>1 DEF IInv, StagesAgree
<1>11. ReplyProtocol'
  BY <1>6a
<1>. QED
  BY <1>7, <1>8, <1>9, <1>10, <1>11, <1>6c, <1>6d DEF IInv

-----------------------------------------------------------------------------
(* The invariant                                                           *)

LEMMA ReceiveIInv == ASSUME IInv, Receive PROVE IInv'
<1>. PICK m \in Message : Accept(m) \/ Reject(m)
  BY DEF Receive
<1>0. lastSeq \in [Clients -> 0..MaxSequence + 1]
  BY DEF IInv, TypeOK
<1>1. CASE Reject(m)
  <2>1. /\ ReceiveCommand(m) /\ Reply(m.id, "rejected") /\ lastSeq' = lastSeq
        /\ LeaveNavigation /\ NoOverride
    BY <1>1 DEF Reject
  <2>2. \A c \in Clients : lastSeq[c] <= lastSeq'[c]
    BY <1>0, <2>1, GatewayAssumption
  <2>3. "rejected" \in {"accepted", "rejected"} /\ "rejected" # "accepted"
    OBVIOUS
  <2>. QED
    BY <1>0, <2>1, <2>2, <2>3, PassiveIInv
<1>2. CASE Accept(m)
  <2>1. /\ ReceiveCommand(m) /\ Valid(m) /\ Dispatch(m.id)
        /\ lastSeq' = [lastSeq EXCEPT ![m.client] = m.seq + 1]
    BY <1>2 DEF Accept
  <2>2. CASE Passive(m.id)
    <3>1. PICK s \in {"accepted", "rejected"} : Reply(m.id, s)
      BY <2>2 DEF Passive
    <3>2. LeaveNavigation /\ NoOverride
      BY <2>2 DEF Passive
    <3>3. m.id \notin Ran /\ Told[m.id] \cap Ends = {}
      BY <2>1, NeverRan
    <3>4. /\ lastSeq' \in [Clients -> 0..MaxSequence + 1]
          /\ m.seq < lastSeq'[m.client]
          /\ \A c \in Clients : lastSeq[c] <= lastSeq'[c]
      BY <2>1, SequenceTaken
    <3>. QED
      BY <2>1, <3>1, <3>2, <3>3, <3>4, PassiveIInv
  <2>3. CASE Overriding(m.id)
    BY <2>1, <2>3, OverridingIInv
  <2>4. CASE NavigationGoal(m.id, TRUE)
    BY <2>1, <2>4, NavigationGoalIInv
  <2>. QED
    BY <2>1, <2>2, <2>3, <2>4, DispatchKinds
<1>. QED
  BY <1>1, <1>2

LEMMA StutterIInv ==
  ASSUME IInv,
         UNCHANGED <<received, nav, handleVars, request, cancelAsked, replies,
                     lastOverride>>
  PROVE  IInv'
<1>1. UNCHANGED <<lastSeq, count, copies, repeats, repeated, nav, active,
                  activeCmd, pending, relay, request, cancelAsked, replies,
                  lastOverride>>
  BY DEF received, handleVars
<1>2. Told' = Told /\ Ran' = Ran
  BY <1>1 DEF Told, Ran
<1>. QED
  BY <1>1, <1>2
  DEF IInv, TypeOK, PendingIsLatest, ActiveIsCurrent, RelayIsLatest,
      FutureIsUntouched, StagesAgree, ShownHasRun, RepliesAgree,
      CopiesArePast, ReplyProtocol

LEMMA NextIInv == IInv /\ [Next]_vars => IInv'
<1>. SUFFICES ASSUME IInv, [Next]_vars PROVE IInv'
  OBVIOUS
<1>1. CASE Receive
  BY <1>1, ReceiveIInv
<1>2. CASE Nav2Step
  BY <1>2, NavAnswersIInv, NavFinishesIInv DEF Nav2Step
<1>3. ASSUME NEW id \in Id, OnNavGoalResponse(id) PROVE IInv'
  BY <1>3, ResponseSupersededIInv, ResponseRefusedIInv, ResponseAcceptedIInv
  DEF OnNavGoalResponse
<1>4. ASSUME NEW id \in Id, OnNavResult(id) PROVE IInv'
  BY <1>4, ResultIgnoredIInv, ResultTakenIInv DEF OnNavResult
<1>5. CASE \E v \in Velocities : OnNavCmdVel(v)
  BY <1>5, StutterIInv DEF OnNavCmdVel
<1>6. CASE UNCHANGED vars
  BY <1>6, StutterIInv DEF vars, received, handleVars
<1>. QED
  BY <1>1, <1>2, <1>3, <1>4, <1>5, <1>6 DEF Next, Callback

LEMMA Invariance == Spec => []IInv
<1>. QED
  BY InitIInv, NextIInv, PTL DEF Spec

-----------------------------------------------------------------------------
(* Theorems                                                                *)

\* Every variable keeps its type, whatever clients and Nav2 do.
THEOREM GatewayTypeCorrect == Spec => []TypeOK
<1>1. IInv => TypeOK
  BY DEF IInv
<1>. QED
  BY <1>1, Invariance, PTL

\* The velocity relay is open only for the goal being executed and shown
\* (_on_nav_cmd_vel never forwards the velocities of any other goal).
THEOREM GatewayRelayServesCurrentGoal == Spec => []RelayServesCurrentGoal
<1>1. IInv => RelayServesCurrentGoal
  BY DEF IInv, RelayServesCurrentGoal, ActiveIsCurrent, RelayIsLatest,
         PendingIsLatest
<1>. QED
  BY <1>1, Invariance, PTL

\* After a manual command, a stop, a brake, an emergency stop, a change of
\* mode, a cancel or a newer goal, an older goal never drives the robot again.
THEOREM GatewayOverriddenGoalNeverDrives == Spec => []OverriddenGoalNeverDrives
<1>1. IInv => OverriddenGoalNeverDrives
  BY DEF IInv, OverriddenGoalNeverDrives, RelayIsLatest, TypeOK, Id, None
<1>. QED
  BY <1>1, Invariance, PTL

\* A goal Nav2 accepted and the gateway does not follow has been cancelled.
THEOREM GatewayAbandonedGoalIsCancelled == Spec => []AbandonedGoalIsCancelled
<1>1. IInv => AbandonedGoalIsCancelled
  BY DEF IInv, AbandonedGoalIsCancelled, StagesAgree
<1>. QED
  BY <1>1, Invariance, PTL

\* A command runs once at most, however often its message comes: its client
\* gets one acceptance and one final reply at most, in that order, and beside
\* them a refusal for every repeat (_poll_commands, _validate_command).
THEOREM GatewayReplyProtocol == Spec => []ReplyProtocol
<1>1. IInv => ReplyProtocol
  BY DEF IInv
<1>. QED
  BY <1>1, Invariance, PTL

-----------------------------------------------------------------------------
(* The final state of a goal                                               *)

LEMMA PassiveKeepsNav ==
  ASSUME NEW id, Passive(id) PROVE nav' = nav
BY DEF Passive, LeaveNavigation

\* A command either leaves the status alone, or cancels a goal that is not in
\* a final state, or starts another goal.
LEMMA CommandKeepsFinalState ==
  ASSUME IInv, Receive, nav.state \in FinalStates, nav'.goal = nav.goal
  PROVE  nav'.state = nav.state
<1>. PICK m \in Message : Accept(m) \/ Reject(m)
  BY DEF Receive
<1>1. CASE Reject(m)
  BY <1>1 DEF Reject, LeaveNavigation
<1>2. CASE Accept(m)
  <2>1. ReceiveCommand(m) /\ Valid(m) /\ Dispatch(m.id)
    BY <1>2 DEF Accept
  <2>2. CASE Passive(m.id)
    BY <2>2, PassiveKeepsNav
  <2>3. CASE Overriding(m.id)
    <3>1. active = None /\ pending = None
      BY DEF IInv, ActiveIsCurrent, PendingIsLatest, FinalStates, GoalResult
    <3>. QED
      BY <2>3, <3>1 DEF Overriding, RequestNavCancel, NavAfterCancel
  <2>4. CASE NavigationGoal(m.id, TRUE)
    <3>1. nav.goal # m.id
      BY <2>1, NeverRan
    <3>2. nav'.goal = m.id
      BY <2>4 DEF NavigationGoal
    <3>. QED
      BY <3>1, <3>2
  <2>. QED
    BY <2>1, <2>2, <2>3, <2>4, DispatchKinds
<1>. QED
  BY <1>1, <1>2

\* No callback rewrites a final state: a late response finds the status at
\* "canceling", and a late result finds another goal.
LEMMA CallbackKeepsFinalState ==
  ASSUME IInv, Callback, nav.state \in FinalStates, nav'.goal = nav.goal
  PROVE  nav'.state = nav.state
<1>1. ASSUME NEW id \in Id, NEW o \in Outcomes, ResponseSuperseded(id, o)
      PROVE  nav' = nav
  <2>1. request[id].stage = "answered" /\ pending # id
    BY <1>1 DEF ResponseSuperseded, Answered
  <2>2. nav.goal # id
    BY <2>1 DEF IInv, StagesAgree, FinalStates, GoalResult
  <2>. QED
    BY <1>1, <2>2 DEF ResponseSuperseded
<1>2. ASSUME NEW id \in Id, pending = id PROVE FALSE
  BY <1>2, GatewayAssumption
  DEF IInv, PendingIsLatest, FinalStates, GoalResult, None, Id
<1>3. ASSUME NEW id \in Id, ResultIgnored(id) PROVE nav' = nav
  BY <1>3 DEF ResultIgnored
<1>4. ASSUME NEW id \in Id, NEW r \in GoalResult, ResultTaken(id, r)
      PROVE  FALSE
  <2>1. active = id /\ id # None
    BY <1>4, GatewayAssumption
    DEF ResultTaken, Finished, IInv, StagesAgree, None, Id
  <2>. QED
    BY <2>1 DEF IInv, ActiveIsCurrent, FinalStates, GoalResult
<1>5. ASSUME NEW v, OnNavCmdVel(v) PROVE nav' = nav
  BY <1>5 DEF OnNavCmdVel
<1>. QED
  BY <1>1, <1>2, <1>3, <1>4, <1>5
  DEF Callback, OnNavGoalResponse, OnNavResult, ResponseRefused,
      ResponseAccepted

\* A goal shown as finished keeps its final state until another goal is sent.
THEOREM GatewayFinalStateIsFinal == Spec => FinalStateIsFinal
<1>1. IInv /\ [Next]_vars
        => [(nav.state \in FinalStates /\ nav'.goal = nav.goal)
              => nav'.state = nav.state]_vars
  <2>. SUFFICES ASSUME IInv, Next, nav.state \in FinalStates,
                       nav'.goal = nav.goal
                PROVE  nav'.state = nav.state
    OBVIOUS
  <2>1. CASE Nav2Step
    BY <2>1 DEF Nav2Step, NavAnswers, NavFinishes
  <2>. QED
    BY <2>1, CommandKeepsFinalState, CallbackKeepsFinalState DEF Next
<1>. QED
  BY <1>1, Invariance, PTL DEF Spec, FinalStateIsFinal

-----------------------------------------------------------------------------
(* The gateway implements MotionAuthority                                  *)

AuthorityState == <<Ran, lastOverride, pending, relay, active>>

LEMMA AuthorityStutter ==
  ASSUME UNCHANGED AuthorityState PROVE UNCHANGED Authority!vars
BY DEF AuthorityState, Authority!vars, Holder

\* A command that takes motion from Nav2 has not run before.
LEMMA TakeStep ==
  ASSUME NEW id \in Id, id \notin Ran, Ran' = Ran \cup {id},
         lastOverride' = id, relay' = FALSE
  PROVE  Authority!Next
<1>1. Holder' = 0
  BY DEF Holder, None
<1>2. (pending # None)' \in BOOLEAN
  OBVIOUS
<1>3. Authority!Take(id, (pending # None)')
  BY <1>1 DEF Authority!Take, Authority!Use
<1>. QED
  BY <1>2, <1>3 DEF Authority!Next

\* A command that has no say in motion.
LEMMA PassStep ==
  ASSUME NEW id \in Id, id \notin Ran, Ran' = Ran \cup {id},
         UNCHANGED <<lastOverride, pending, relay, active>>
  PROVE  Authority!Next
<1>1. Holder' = Holder
  BY DEF Holder
<1>2. Authority!Pass(id)
  BY <1>1 DEF Authority!Pass, Authority!Use
<1>. QED
  BY <1>2 DEF Authority!Next

LEMMA CommandImplements ==
  ASSUME IInv, Receive PROVE [Authority!Next]_Authority!vars
<1>. PICK m \in Message : Accept(m) \/ Reject(m)
  BY DEF Receive
<1>0. m.id \in Id
  BY DEF Message
<1>1. CASE Reject(m)
  <2>1. /\ ReceiveCommand(m) /\ Reply(m.id, "rejected")
        /\ LeaveNavigation /\ NoOverride
    BY <1>1 DEF Reject
  <2>2. Ran' = Ran
    BY <2>1, ReplyToReceived DEF LeaveNavigation
  <2>. QED
    BY <2>1, <2>2, AuthorityStutter
    DEF LeaveNavigation, NoOverride, handleVars, AuthorityState
<1>2. CASE Accept(m)
  <2>1. ReceiveCommand(m) /\ Valid(m) /\ Dispatch(m.id)
    BY <1>2 DEF Accept
  <2>2. m.id \notin Ran /\ Told[m.id] \cap Ends = {}
    BY <2>1, NeverRan
  <2>3. CASE Passive(m.id)
    <3>1. PICK s \in {"accepted", "rejected"} : Reply(m.id, s)
      BY <2>3 DEF Passive
    <3>2. UNCHANGED <<lastOverride, pending, relay, active, request>>
      BY <2>3 DEF Passive, LeaveNavigation, NoOverride, handleVars
    <3>3. Ran' = IF s = "accepted" THEN Ran \cup {m.id} ELSE Ran
      BY <2>1, <2>2, <3>1, <3>2, ReplyToReceived
    <3>4. CASE s = "accepted"
      BY <1>0, <2>2, <3>2, <3>3, <3>4, PassStep
    <3>5. CASE s = "rejected"
      BY <3>2, <3>3, <3>5, AuthorityStutter DEF AuthorityState
    <3>. QED
      BY <3>4, <3>5
  <2>4. CASE Overriding(m.id)
    <3>1. /\ Reply(m.id, "accepted") /\ request' = request
          /\ lastOverride' = m.id /\ relay' = FALSE
      BY <2>4 DEF Overriding, RequestNavCancel, Override
    <3>2. Ran' = Ran \cup {m.id}
      BY <2>1, <2>2, <3>1, ReplyToReceived
    <3>. QED
      BY <1>0, <2>2, <3>1, <3>2, TakeStep
  <2>5. CASE NavigationGoal(m.id, TRUE)
    <3>1. /\ request' = [request EXCEPT ![m.id] = At("sent")]
          /\ replies' = replies
          /\ lastOverride' = m.id /\ relay' = FALSE
      BY <2>5 DEF NavigationGoal, Override
    <3>2. /\ request'[m.id].stage = "sent"
          /\ \A j \in Id : j # m.id => request'[j] = request[j]
      BY <1>0, <3>1 DEF IInv, TypeOK, At
    <3>3. Told' = Told
      BY <3>1 DEF Told
    <3>4. Ran' = Ran \cup {m.id}
      BY <1>0, <3>2, <3>3 DEF Ran
    <3>. QED
      BY <1>0, <2>2, <3>1, <3>4, TakeStep
  <2>. QED
    BY <2>1, <2>3, <2>4, <2>5, DispatchKinds
<1>. QED
  BY <1>1, <1>2

\* No callback makes a command count as having run.
LEMMA GoalStepKeepsRan ==
  ASSUME IInv, Nav2Step \/ Callback PROVE Ran' = Ran
<1>. DEFINE Moved(id) ==
              /\ request[id].stage # "unsent" /\ request'[id].stage # "unsent"
              /\ \A j \in Id : j # id => request'[j] = request[j]
              /\ \A j \in Id : j # id => Told'[j] = Told[j]
<1>1. ASSUME NEW id \in Id, Moved(id) PROVE Ran' = Ran
  BY <1>1, RanUnchanged
<1>2. request \in [Id -> RequestState] /\ TypeOK
  BY DEF IInv, TypeOK
<1>3. ASSUME replies' = replies PROVE Told' = Told
  BY <1>3 DEF Told
<1>4. ASSUME NEW id \in Id, NEW s \in ReplyStatus, Reply(id, s)
      PROVE  \A j \in Id : j # id => Told'[j] = Told[j]
  BY <1>2, <1>4, ReplyFacts
<1>5. ASSUME NEW id \in Id, \/ \E o \in Outcomes : NavAnswers(id, o)
                            \/ \E r \in GoalResult : NavFinishes(id, r)
                            \/ ResultIgnored(id)
      PROVE  Moved(id)
  BY <1>2, <1>3, <1>5
  DEF NavAnswers, NavFinishes, ResultIgnored, At, Answered, Finished
<1>6. ASSUME NEW id \in Id, NEW o \in Outcomes, ResponseSuperseded(id, o)
      PROVE  Moved(id)
  <2>1. "completed" \in ReplyStatus
    BY DEF ReplyStatus
  <2>. QED
    BY <1>2, <1>4, <1>6, <2>1 DEF ResponseSuperseded, Answered
<1>7. ASSUME NEW id \in Id, NEW o \in Outcomes, ResponseRefused(id, o)
      PROVE  Moved(id)
  <2>1. {"rejected", "failed"} \subseteq ReplyStatus
    BY DEF ReplyStatus
  <2>. QED
    BY <1>2, <1>4, <1>7, <2>1 DEF ResponseRefused, Answered, At
<1>8. ASSUME NEW id \in Id, ResponseAccepted(id) PROVE Moved(id)
  <2>1. "accepted" \in ReplyStatus
    BY DEF ReplyStatus
  <2>. QED
    BY <1>2, <1>4, <1>8, <2>1 DEF ResponseAccepted, Answered, At
<1>9. ASSUME NEW id \in Id, NEW r \in GoalResult, ResultTaken(id, r)
      PROVE  Moved(id)
  <2>1. request[id].stage = "finished" /\ nav.goal = id /\ id # None
    BY <1>9, GatewayAssumption DEF ResultTaken, Finished, None, Id
  <2>2. activeCmd = id
    BY <2>1 DEF IInv, StagesAgree, ActiveIsCurrent
  <2>3. Reply(id, FinalReply(r)) /\ FinalReply(r) \in ReplyStatus
    BY <1>9, <2>1, <2>2 DEF ResultTaken, FinalReply, ReplyStatus
  <2>. QED
    BY <1>2, <1>4, <1>9, <2>1, <2>3 DEF ResultTaken, At
<1>10. ASSUME NEW v, OnNavCmdVel(v) PROVE Ran' = Ran
  BY <1>3, <1>10 DEF OnNavCmdVel, Ran
<1>. HIDE DEF Moved
<1>. QED
  BY <1>1, <1>5, <1>6, <1>7, <1>8, <1>9, <1>10
  DEF Nav2Step, Callback, OnNavGoalResponse, OnNavResult

LEMMA CallbackImplements ==
  ASSUME IInv, Callback PROVE [Authority!Next]_Authority!vars
<1>0. Ran' = Ran
  BY GoalStepKeepsRan
<1>1. ASSUME NEW id \in Id, NEW o \in Outcomes, ResponseSuperseded(id, o)
      PROVE  UNCHANGED AuthorityState
  BY <1>0, <1>1 DEF ResponseSuperseded, CallbackFrame, handleVars, AuthorityState
<1>2. ASSUME NEW id \in Id, NEW o \in Outcomes, ResponseRefused(id, o)
      PROVE  Authority!Refuse
  <2>1. pending = id /\ id # None /\ pending' = None
        /\ lastOverride' = lastOverride /\ active' = active
    BY <1>2, GatewayAssumption
    DEF ResponseRefused, CallbackFrame, None, Id
  <2>2. ~relay /\ ~relay'
    BY <1>2, <2>1 DEF IInv, PendingIsLatest, ResponseRefused
  <2>. QED
    BY <1>0, <2>1, <2>2 DEF Authority!Refuse, Holder
<1>3. ASSUME NEW id \in Id, ResponseAccepted(id) PROVE Authority!Grant
  <2>1. /\ pending = id /\ id # None /\ pending' = None /\ relay' = TRUE
        /\ lastOverride' = lastOverride /\ active' = id
    BY <1>3, GatewayAssumption
    DEF ResponseAccepted, CallbackFrame, None, Id
  <2>2. id = lastOverride
    BY <2>1 DEF IInv, PendingIsLatest
  <2>. QED
    BY <1>0, <2>1, <2>2 DEF Authority!Grant, Holder
<1>4. ASSUME NEW id \in Id, ResultIgnored(id)
      PROVE  UNCHANGED AuthorityState
  BY <1>0, <1>4 DEF ResultIgnored, CallbackFrame, handleVars, AuthorityState
<1>5. ASSUME NEW id \in Id, NEW r \in GoalResult, ResultTaken(id, r)
      PROVE  [Authority!Next]_Authority!vars
  <2>1. /\ relay' = FALSE /\ pending' = pending
        /\ lastOverride' = lastOverride
    BY <1>5 DEF ResultTaken, CallbackFrame
  <2>2. Holder' = 0
    BY <2>1 DEF Holder, None
  <2>3. CASE Holder = 0
    BY <1>0, <2>1, <2>2, <2>3 DEF Authority!vars
  <2>4. CASE Holder # 0
    BY <1>0, <2>1, <2>2, <2>4 DEF Authority!Finish, Authority!Next
  <2>. QED
    BY <2>3, <2>4
<1>6. ASSUME NEW v, OnNavCmdVel(v) PROVE UNCHANGED AuthorityState
  BY <1>0, <1>6 DEF OnNavCmdVel, handleVars, AuthorityState
<1>. QED
  BY <1>1, <1>2, <1>3, <1>4, <1>5, <1>6, AuthorityStutter
  DEF Callback, OnNavGoalResponse, OnNavResult, Authority!Next

\* The gateway implements the abstract motion authority, also when messages
\* are repeated: a command has its effect once, and a goal's velocities are
\* relayed only after the grant of the latest command.
THEOREM GatewayImplementsMotionAuthority == Spec => ImplementsMotionAuthority
<1>1. Init => Authority!Init
  <2>1. Init => Ran = {}
    BY DEF Init, Ran, Told, At
  <2>. QED
    BY <2>1 DEF Init, Authority!Init, Holder, None
<1>2. IInv /\ [Next]_vars => [Authority!Next]_Authority!vars
  <2>. SUFFICES ASSUME IInv, [Next]_vars
                PROVE  [Authority!Next]_Authority!vars
    OBVIOUS
  <2>1. CASE Nav2Step
    BY <2>1, GoalStepKeepsRan, AuthorityStutter
    DEF Nav2Step, NavAnswers, NavFinishes, handleVars, AuthorityState
  <2>2. CASE UNCHANGED vars
    BY <2>2, AuthorityStutter
    DEF vars, AuthorityState, Ran, Told
  <2>. QED
    BY <2>1, <2>2, CommandImplements, CallbackImplements DEF Next
<1>. QED
  BY <1>1, <1>2, Invariance, PTL
  DEF Spec, ImplementsMotionAuthority, Authority!Spec
=============================================================================
