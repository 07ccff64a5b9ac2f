--------------------------- MODULE CodersRunnerProofs ---------------------------
(****************************************************************************)
(* For any coders, names and messages, and any number of each: the coder    *)
(* registered first among those a message matches answers it, however many  *)
(* are registered later (AnswersInOrder), and no result is lost or doubled, *)
(* in whatever order they are acquired (PreservesAll).                      *)
(****************************************************************************)
EXTENDS CodersRunner, SequenceLemmas, SequenceTheorems, TLAPS

--------------------------------------------------------------------------------
(* The inductive invariant. *)

\* Results are numbered by the replies, but for the one the process ended with.
SerialsInRange ==
    alive => \A r \in Queued \union acquired : r.serial <= Len(replies)

RunnerInv == /\ TypeOK
             /\ SerialsInRange
             /\ FirstRegisteredAnswers
             /\ ResultsPreserved

--------------------------------------------------------------------------------
(* Lemmas about the registry. *)

\* What a message has to do with the registry: its coder is one of those registered,
\* and the first that it matches.
LEMMA ChosenIsFirst ==
    ASSUME TypeOK, NEW m \in Messages, Matching(m) # {}
    PROVE  /\ Min(Matching(m)) \in Matching(m)
           /\ \A i \in Matching(m) : Min(Matching(m)) <= i
           /\ Matching(m) \subseteq 1 .. Len(coder_queue_)
           /\ Chosen(m) \in Coders
<1>1. DOMAIN coder_queue_ = 1 .. Len(coder_queue_) /\ Len(coder_queue_) \in Nat
  BY LenProperties DEF TypeOK
<1>2. Matching(m) \subseteq 1 .. Len(coder_queue_)
  BY <1>1 DEF Matching
<1>3. Matching(m) \in SUBSET Nat
  BY <1>1, <1>2
<1>4. Min(Matching(m)) \in Matching(m) /\ \A i \in Matching(m) : Min(Matching(m)) <= i
  BY <1>3, FirstPlace
<1>5. Chosen(m) \in Coders
  BY <1>2, <1>4, ElementOfSeq DEF Chosen, TypeOK
<1> QED
  BY <1>2, <1>4, <1>5

\* A message matches the coders of the registry that have its name, if its direction is
\* one of the two.
LEMMA MatchingIsFor ==
    ASSUME NEW m
    PROVE  Matching(m) = {i \in DOMAIN coder_queue_ : IsFor(coder_queue_[i], m)}
BY DEF Matching, IsFor, CanProcess, MT_INPUT, MT_OUTPUT, MT_NONE

--------------------------------------------------------------------------------
(* The steps. *)

LEMMA InitRunner == Init => RunnerInv
<1> SUFFICES ASSUME Init PROVE RunnerInv
  OBVIOUS
<1>1. << >> \in Seq(Coders) /\ << >> \in Seq(Results) /\ Len(<< >>) = 0 /\ DOMAIN << >> = {}
  OBVIOUS
<1>2. << >> \in Seq([to : Messages, error : {0, E_INTERNAL_SERVER_ERROR, E_NO_CODERS_FOUND},
                     coder : Coders \union {Nobody}])
  OBVIOUS
<1>3. TypeOK
  BY <1>1, <1>2 DEF Init, TypeOK
<1>4. SerialsInRange /\ FirstRegisteredAnswers
  BY <1>1 DEF Init, SerialsInRange, FirstRegisteredAnswers, Queued
<1>5. ResultsPreserved
  BY <1>1 DEF Init, ResultsPreserved, Serials, Queued
<1> QED
  BY <1>3, <1>4, <1>5 DEF RunnerInv

\* What the replies say of their messages, by their numbers.
LEMMA RepliesTyped ==
    ASSUME TypeOK
    PROVE  /\ Len(replies) \in Nat
           /\ DOMAIN replies = 1 .. Len(replies)
           /\ \A n \in 1 .. Len(replies) :
                 /\ replies[n].to \in Messages
                 /\ replies[n].error \in {0, E_INTERNAL_SERVER_ERROR, E_NO_CODERS_FOUND}
<1> DEFINE Replies == [to : Messages, error : {0, E_INTERNAL_SERVER_ERROR, E_NO_CODERS_FOUND},
                       coder : Coders \union {Nobody}]
<1>1. replies \in Seq(Replies)
  BY DEF TypeOK
<1>2. \A r \in Replies : /\ r.to \in Messages
                         /\ r.error \in {0, E_INTERNAL_SERVER_ERROR, E_NO_CODERS_FOUND}
  OBVIOUS
<1> HIDE DEF Replies
<1> QED
  BY <1>1, <1>2, LenProperties, ElementOfSeq

\* What FirstRegisteredAnswers says of a reply to m, if q is the registry, and of those
\* before it.
Answered(r, q) ==
    /\ r.error = 0 =>
          /\ r.to.input = "string"
          /\ \E i \in DOMAIN q : /\ q[i] = r.coder /\ IsFor(r.coder, r.to)
                                 /\ \A j \in 1 .. i - 1 : ~IsFor(q[j], r.to)
    /\ r.error = E_INTERNAL_SERVER_ERROR =>
          /\ r.to.input # "string"
          /\ \E i \in DOMAIN q : IsFor(q[i], r.to)

RefusedBefore(n) ==
    replies[n].error = E_NO_CODERS_FOUND =>
        \A k \in 1 .. n - 1 : Alike(replies[k].to, replies[n].to) => replies[k].error = replies[n].error

LEMMA RepliesAnswered ==
    FirstRegisteredAnswers <=>
        \A n \in DOMAIN replies : Answered(replies[n], coder_queue_) /\ RefusedBefore(n)
BY DEF FirstRegisteredAnswers, Answered, RefusedBefore

\* A step that leaves the registry and the replies, or adds a coder to the registry,
\* takes nothing back of what was said of the replies.
LEMMA RegistryStep ==
    ASSUME RunnerInv, UNCHANGED <<replies>>,
           \/ UNCHANGED coder_queue_
           \/ \E c \in Coders : coder_queue_' = Append(coder_queue_, c)
    PROVE  FirstRegisteredAnswers'
<1> DEFINE q == coder_queue_
           s == coder_queue_'
<1>1. DOMAIN q = 1 .. Len(q) /\ Len(q) \in Nat /\ \A i \in DOMAIN q : i \in DOMAIN s /\ s[i] = q[i]
  BY LenProperties, AppendProperties DEF RunnerInv, TypeOK
<1> HIDE DEF q, s
<1>2. ASSUME NEW r, Answered(r, q) PROVE Answered(r, s)
  <2>1. ASSUME r.error = 0
        PROVE  \E i \in DOMAIN s : /\ s[i] = r.coder /\ IsFor(r.coder, r.to)
                                   /\ \A j \in 1 .. i - 1 : ~IsFor(s[j], r.to)
    <3>1. PICK i \in DOMAIN q : /\ q[i] = r.coder /\ IsFor(r.coder, r.to)
                                /\ \A j \in 1 .. i - 1 : ~IsFor(q[j], r.to)
      BY <1>2, <2>1 DEF Answered
    <3>2. i \in DOMAIN s /\ s[i] = q[i] /\ \A j \in 1 .. i - 1 : j \in DOMAIN q /\ s[j] = q[j]
      BY <1>1
    <3> QED
      BY <3>1, <3>2
  <2>2. (\E i \in DOMAIN q : IsFor(q[i], r.to)) => \E i \in DOMAIN s : IsFor(s[i], r.to)
    BY <1>1
  <2> QED
    BY <1>2, <2>1, <2>2 DEF Answered
<1>3. \A n \in DOMAIN replies : Answered(replies[n], s) /\ RefusedBefore(n)
  BY <1>2, RepliesAnswered DEF RunnerInv, q
<1> QED
  BY <1>3 DEF FirstRegisteredAnswers, Answered, RefusedBefore, IsFor, Alike, s

\* A reply that is said the right thing of is sent.
LEMMA ReplyStep ==
    ASSUME RunnerInv, UNCHANGED coder_queue_, NEW r,
           Len(replies') = Len(replies) + 1, DOMAIN replies' = 1 .. Len(replies) + 1,
           \A k \in 1 .. Len(replies) : replies'[k] = replies[k],
           replies'[Len(replies) + 1] = r,
           Answered(r, coder_queue_),
           r.error = E_NO_CODERS_FOUND => Matching(r.to) = {}
    PROVE  FirstRegisteredAnswers'
<1> DEFINE n == Len(replies)
<1>1. n \in Nat /\ DOMAIN replies = 1 .. n
  BY RepliesTyped DEF RunnerInv
<1>2. \A k \in 1 .. n : Answered(replies[k], coder_queue_) /\ RefusedBefore(k)
  BY <1>1, RepliesAnswered DEF RunnerInv
<1>3. ASSUME r.error = E_NO_CODERS_FOUND, NEW k \in 1 .. n, Alike(replies[k].to, r.to)
      PROVE  replies[k].error = r.error
  <2>1. replies[k].error \in {0, E_INTERNAL_SERVER_ERROR, E_NO_CODERS_FOUND}
    BY <1>1, RepliesTyped DEF RunnerInv
  <2>2. \A i \in DOMAIN coder_queue_ : ~IsFor(coder_queue_[i], r.to)
    BY <1>3, MatchingIsFor
  <2>3. \A c : IsFor(c, replies[k].to) <=> IsFor(c, r.to)
    BY <1>3 DEF Alike, IsFor
  <2>4. replies[k].error # 0 /\ replies[k].error # E_INTERNAL_SERVER_ERROR
    BY <1>2, <2>2, <2>3 DEF Answered
  <2> QED
    BY <1>3, <2>1, <2>4
<1>4. ASSUME NEW k \in 1 .. n + 1
      PROVE  /\ Answered(replies'[k], coder_queue_)
             /\ replies'[k].error = E_NO_CODERS_FOUND =>
                   \A i \in 1 .. k - 1 : Alike(replies'[i].to, replies'[k].to)
                                            => replies'[i].error = replies'[k].error
  <2>1. CASE k \in 1 .. n
    <3>1. \A i \in 1 .. k - 1 : i \in 1 .. n /\ replies'[i] = replies[i]
      BY <1>1
    <3> QED
      BY <1>2, <2>1, <3>1 DEF RefusedBefore
  <2>2. CASE k = n + 1
    <3>1. \A i \in 1 .. k - 1 : i \in 1 .. n /\ replies'[i] = replies[i]
      BY <1>1, <2>2
    <3>2. replies'[k] = r
      BY <2>2
    <3> QED
      BY <1>3, <3>1, <3>2
  <2> QED
    BY <1>1, <2>1, <2>2
<1> QED
  BY <1>4 DEF FirstRegisteredAnswers, Answered, IsFor, Alike

\* Whatever registers a coder.
LEMMA RegisterStep ==
    ASSUME RunnerInv, NEW c \in Coders, RegisterCoder(c)
    PROVE  RunnerInv'
<1> USE DEF RegisterCoder
<1>1. TypeOK'
  BY AppendProperties DEF RunnerInv, TypeOK
<1>2. FirstRegisteredAnswers'
  BY RegistryStep
<1>3. SerialsInRange' /\ ResultsPreserved'
  BY DEF RunnerInv, SerialsInRange, ResultsPreserved, Serials, Queued
<1> QED
  BY <1>1, <1>2, <1>3 DEF RunnerInv

\* A message is refused: it gets a reply, and no result is made.
LEMMA RefusalStep ==
    ASSUME RunnerInv, alive, NEW m \in Messages,
           NEW code \in {E_INTERNAL_SERVER_ERROR, E_NO_CODERS_FOUND},
           code = E_INTERNAL_SERVER_ERROR => Matching(m) # {} /\ Throws(m),
           code = E_NO_CODERS_FOUND => Matching(m) = {},
           replies' = Append(replies, ErrorReply(m, code)),
           UNCHANGED <<coder_queue_, queue_, acquired, alive>>
    PROVE  RunnerInv'
<1> DEFINE n == Len(replies)
           Replies == [to : Messages, error : {0, E_INTERNAL_SERVER_ERROR, E_NO_CODERS_FOUND},
                       coder : Coders \union {Nobody}]
<1> USE DEF RunnerInv
<1>1. /\ ErrorReply(m, code) \in Replies
      /\ ErrorReply(m, code).error # 0
      /\ ErrorReply(m, code).error = code
      /\ ErrorReply(m, code).to = m
  BY DEF ErrorReply, E_INTERNAL_SERVER_ERROR, E_NO_CODERS_FOUND
<1>2. replies \in Seq(Replies)
  BY DEF TypeOK
<1>3. /\ n \in Nat /\ DOMAIN replies = 1 .. n /\ DOMAIN replies' = 1 .. n + 1
      /\ Len(replies') = n + 1
      /\ \A k \in 1 .. n : replies'[k] = replies[k]
      /\ replies'[n + 1] = ErrorReply(m, code)
      /\ replies' \in Seq(Replies)
  BY <1>1, <1>2, LenProperties, AppendProperties
<1> HIDE DEF n
<1>4. TypeOK'
  BY <1>3 DEF TypeOK
<1>6. FirstRegisteredAnswers'
  <2> DEFINE r == ErrorReply(m, code)
  <2>1. Answered(r, coder_queue_)
    BY <1>1, MatchingIsFor DEF Answered, Throws
  <2>2. r.error = E_NO_CODERS_FOUND => Matching(r.to) = {}
    BY <1>1
  <2> HIDE DEF r
  <2>3. /\ Len(replies') = Len(replies) + 1 /\ DOMAIN replies' = 1 .. Len(replies) + 1
        /\ \A k \in 1 .. Len(replies) : replies'[k] = replies[k]
        /\ replies'[Len(replies) + 1] = r
    BY <1>3 DEF n, r
  <2> QED
    BY <2>1, <2>2, <2>3, ReplyStep
<1>7. \A r \in Queued \union acquired : r.serial <= n /\ r.serial \in Nat
  <2>1. \A r \in Queued \union acquired : r.serial <= n
    BY DEF SerialsInRange, n
  <2>2. \A r \in Results : r.serial \in Nat
    BY MaxMessagesAssumption DEF Results, Result
  <2>3. Queued \union acquired \subseteq Results
    BY DEF TypeOK, Queued
  <2> QED
    BY <2>1, <2>2, <2>3
<1>8. SerialsInRange'
  <2>1. (Queued \union acquired)' = Queued \union acquired
    BY DEF Queued
  <2>2. \A r \in Queued \union acquired : r.serial <= n + 1
    BY <1>3, <1>7
  <2> QED
    BY <1>3, <2>1, <2>2 DEF SerialsInRange
<1>9. ResultsPreserved'
  <2>1. {k \in DOMAIN replies' : replies'[k].error = 0} = {k \in DOMAIN replies : replies[k].error = 0}
    BY <1>1, <1>3
  <2>2. \A k \in {i \in DOMAIN replies : replies[i].error = 0} : replies'[k] = replies[k]
    BY <1>3
  <2>3. {Result(replies'[k].coder, k) : k \in {i \in DOMAIN replies' : replies'[i].error = 0}}
          = {Result(replies[k].coder, k) : k \in {i \in DOMAIN replies : replies[i].error = 0}}
    BY <2>1, <2>2, Zenon
  <2>4. {r \in Queued \union acquired : r.serial <= n + 1} = {r \in Queued \union acquired : r.serial <= n}
    BY <1>3, <1>7
  <2>5. Len(replies') = n + 1 /\ Len(replies) = n
    BY <1>3 DEF n
  <2>6. /\ \A i, j \in DOMAIN queue_' : i < j => queue_'[i].serial < queue_'[j].serial
        /\ (Serials(Queued) \intersect Serials(acquired))' = {}
    BY DEF ResultsPreserved, Serials, Queued
  <2>7. {r \in Queued \union acquired : r.serial <= Len(replies)}'
          = {r \in Queued \union acquired : r.serial <= Len(replies)}
    BY <2>4, <2>5 DEF Queued
  <2>8. {Result(replies[k].coder, k) : k \in {i \in DOMAIN replies : replies[i].error = 0}}'
          = {r \in Queued \union acquired : r.serial <= Len(replies)}'
    BY <2>3, <2>7 DEF ResultsPreserved, Result
  <2> QED
    BY <2>6, <2>8 DEF ResultsPreserved
<1> QED
  BY <1>4, <1>6, <1>8, <1>9

\* What every result of the model is, and that those of a live process are numbered
\* by the replies sent.
LEMMA ResultsTyped ==
    ASSUME RunnerInv
    PROVE  /\ \A r \in Queued \union acquired : r \in Results /\ r.serial \in Nat
           /\ Len(queue_) \in Nat
           /\ DOMAIN queue_ = 1 .. Len(queue_)
           /\ \A i \in 1 .. Len(queue_) : queue_[i] \in Queued
           /\ alive => \A r \in Queued \union acquired : r.serial <= Len(replies)
<1>1. queue_ \in Seq(Results) /\ acquired \subseteq Results
  BY DEF RunnerInv, TypeOK
<1>2. \A r \in Results : r.serial \in Nat
  BY MaxMessagesAssumption DEF Results, Result
<1>3. /\ Len(queue_) \in Nat
      /\ DOMAIN queue_ = 1 .. Len(queue_)
      /\ \A i \in 1 .. Len(queue_) : queue_[i] \in Results
  BY <1>1, LenProperties, ElementOfSeq
<1>4. Queued \subseteq Results /\ \A i \in 1 .. Len(queue_) : queue_[i] \in Queued
  BY <1>3 DEF Queued
<1> QED
  BY <1>1, <1>2, <1>3, <1>4 DEF RunnerInv, SerialsInRange

\* A result is pushed: it is the last of the queue, and its number the highest.
LEMMA ResultPushed ==
    ASSUME RunnerInv, alive, Len(replies) < MaxMessages, NEW c \in Coders,
           queue_' = Append(queue_, Result(c, Serial)), UNCHANGED acquired
    PROVE  /\ queue_' \in Seq(Results)
           /\ Queued' = Queued \union {Result(c, Serial)}
           /\ \A i, j \in DOMAIN queue_' : i < j => queue_'[i].serial < queue_'[j].serial
           /\ (Serials(Queued) \intersect Serials(acquired))' = {}
<1> DEFINE n == Len(replies)
           q == Len(queue_)
           new == Result(c, Serial)
<1>1. n \in Nat
  BY RepliesTyped DEF RunnerInv
<1>2. new \in Results /\ new.serial = n + 1
  BY <1>1, MaxMessagesAssumption DEF Results, Result, Serial
<1>3. queue_ \in Seq(Results)
  BY DEF RunnerInv, TypeOK
<1> HIDE DEF new
<1>4. /\ q \in Nat /\ Len(queue_') = q + 1 /\ DOMAIN queue_ = 1 .. q /\ DOMAIN queue_' = 1 .. q + 1
      /\ \A i \in 1 .. q : queue_'[i] = queue_[i]
      /\ queue_'[q + 1] = new
      /\ queue_' \in Seq(Results)
  <2>1. queue_' = Append(queue_, new)
    BY DEF new
  <2> QED
    BY <1>2, <1>3, <2>1, LenProperties, AppendProperties
<1>5. \A r \in Queued \union acquired : r.serial \in Nat /\ r.serial <= n
  BY ResultsTyped
<1>6. \A i \in 1 .. q : queue_[i].serial \in Nat /\ queue_[i].serial <= n
  BY <1>5, ResultsTyped
<1>7. \A i, j \in 1 .. q : i < j => queue_[i].serial < queue_[j].serial
  BY <1>4 DEF RunnerInv, ResultsPreserved
<1> HIDE DEF n, q
<1>8. Queued' = Queued \union {new}
  <2>1. Queued' = {queue_'[i] : i \in 1 .. q + 1} /\ Queued = {queue_[i] : i \in 1 .. q}
    BY <1>4 DEF Queued
  <2>2. \A i \in 1 .. q + 1 : i \in 1 .. q \/ i = q + 1
    BY <1>4
  <2>3. \A i \in 1 .. q : i \in 1 .. q + 1
    BY <1>4
  <2>4. q + 1 \in 1 .. q + 1
    BY <1>4
  <2>5. Queued' \subseteq Queued \union {new}
    BY <1>4, <2>1, <2>2
  <2>6. Queued \subseteq Queued'
    BY <1>4, <2>1, <2>3
  <2>7. new \in Queued'
    BY <1>4, <2>1, <2>4
  <2> QED
    BY <2>5, <2>6, <2>7
<1>9. ASSUME NEW i \in 1 .. q + 1, NEW j \in 1 .. q + 1, i < j
      PROVE  queue_'[i].serial < queue_'[j].serial
  <2>1. i \in 1 .. q
    BY <1>4, <1>9
  <2>2. CASE j \in 1 .. q
    BY <1>4, <1>7, <1>9, <2>1, <2>2
  <2>3. CASE j = q + 1
    BY <1>1, <1>2, <1>4, <1>6, <2>1, <2>3
  <2> QED
    BY <1>4, <2>2, <2>3
<1>10. (Serials(Queued) \intersect Serials(acquired))' = {}
  <2>1. Serials(Queued) \intersect Serials(acquired) = {}
    BY DEF RunnerInv, ResultsPreserved
  <2>2. n + 1 \notin Serials(acquired)
    BY <1>1, <1>5 DEF Serials
  <2>3. Serials(Queued)' = Serials(Queued) \union {n + 1}
    BY <1>2, <1>8 DEF Serials
  <2>4. Serials(acquired)' = Serials(acquired)
    BY DEF Serials
  <2> QED
    BY <2>1, <2>2, <2>3, <2>4
<1> QED
  BY <1>4, <1>8, <1>9, <1>10 DEF new

\* The process dies with a result nobody is told of.
LEMMA NoMessageStep ==
    ASSUME RunnerInv, alive, Len(replies) < MaxMessages, NEW m \in Messages,
           CoderGivesNoMessage(m), UNCHANGED <<coder_queue_, acquired>>
    PROVE  RunnerInv'
<1> DEFINE n == Len(replies)
<1>1. Chosen(m) \in Coders
  BY ChosenIsFirst DEF RunnerInv, CoderGivesNoMessage
<1>2. /\ queue_' \in Seq(Results)
      /\ Queued' = Queued \union {Result(Chosen(m), Serial)}
      /\ \A i, j \in DOMAIN queue_' : i < j => queue_'[i].serial < queue_'[j].serial
      /\ (Serials(Queued) \intersect Serials(acquired))' = {}
  BY <1>1, ResultPushed DEF CoderGivesNoMessage
<1>3. TypeOK' /\ SerialsInRange'
  BY <1>2 DEF RunnerInv, TypeOK, SerialsInRange, CoderGivesNoMessage
<1>4. FirstRegisteredAnswers'
  BY RegistryStep DEF CoderGivesNoMessage
<1>5. {r \in Queued \union acquired : r.serial <= Len(replies)}'
        = {r \in Queued \union acquired : r.serial <= Len(replies)}
  <2>1. n \in Nat /\ Result(Chosen(m), Serial).serial = n + 1
    BY RepliesTyped DEF RunnerInv, Result, Serial
  <2>2. ~ (n + 1 <= n)
    BY <2>1
  <2> QED
    BY <1>2, <2>1, <2>2 DEF CoderGivesNoMessage
<1>6. ResultsPreserved'
  <2>1. {Result(replies[k].coder, k) : k \in {i \in DOMAIN replies : replies[i].error = 0}}'
          = {Result(replies[k].coder, k) : k \in {i \in DOMAIN replies : replies[i].error = 0}}
    BY DEF CoderGivesNoMessage, Result
  <2> QED
    BY <1>2, <1>5, <2>1 DEF RunnerInv, ResultsPreserved
<1> QED
  BY <1>3, <1>4, <1>6 DEF RunnerInv

\* A coder takes the message: its result is pushed and its reply sent in one step.
LEMMA SuccessStep ==
    ASSUME RunnerInv, alive, Len(replies) < MaxMessages, NEW m \in Messages,
           CoderSucceeds(m), UNCHANGED <<coder_queue_, acquired>>
    PROVE  RunnerInv'
<1> DEFINE n == Len(replies)
           c == Chosen(m)
           Replies == [to : Messages, error : {0, E_INTERNAL_SERVER_ERROR, E_NO_CODERS_FOUND},
                       coder : Coders \union {Nobody}]
<1>1. c \in Coders /\ Matching(m) # {} /\ ~Throws(m)
  BY ChosenIsFirst DEF RunnerInv, CoderSucceeds
<1>2. /\ queue_' \in Seq(Results)
      /\ Queued' = Queued \union {Result(c, Serial)}
      /\ \A i, j \in DOMAIN queue_' : i < j => queue_'[i].serial < queue_'[j].serial
      /\ (Serials(Queued) \intersect Serials(acquired))' = {}
  BY <1>1, ResultPushed DEF CoderSucceeds
<1>3. /\ ResultReply(m) \in Replies
      /\ ResultReply(m).error = 0 /\ ResultReply(m).error # E_INTERNAL_SERVER_ERROR
      /\ ResultReply(m).to = m /\ ResultReply(m).coder = c
  BY <1>1 DEF ResultReply, E_INTERNAL_SERVER_ERROR
<1>4. replies \in Seq(Replies) /\ replies' = Append(replies, ResultReply(m))
  BY DEF RunnerInv, TypeOK, CoderSucceeds
<1> HIDE DEF c, Replies
<1>5. /\ n \in Nat /\ DOMAIN replies = 1 .. n /\ DOMAIN replies' = 1 .. n + 1
      /\ Len(replies') = n + 1
      /\ \A k \in 1 .. n : replies'[k] = replies[k]
      /\ replies'[n + 1] = ResultReply(m)
      /\ replies' \in Seq(Replies)
  BY <1>3, <1>4, LenProperties, AppendProperties
<1>6. /\ \A r \in Queued \union acquired : r.serial \in Nat /\ r.serial <= n
      /\ Result(c, Serial).serial = n + 1 /\ Result(c, Serial) = Result(c, n + 1)
  BY ResultsTyped DEF Result, Serial
<1> HIDE DEF n
<1>7. TypeOK'
  BY <1>2, <1>5 DEF RunnerInv, TypeOK, CoderSucceeds, Replies
<1>8. SerialsInRange'
  <2>1. \A r \in Queued \union {Result(c, Serial)} \union acquired : r.serial <= n + 1
    BY <1>5, <1>6
  <2> QED
    BY <1>2, <1>5, <2>1 DEF SerialsInRange
<1>11. FirstRegisteredAnswers'
  <2> DEFINE r == ResultReply(m)
             k == Min(Matching(m))
  <2>1. k \in Matching(m) /\ (\A i \in Matching(m) : k <= i) /\ Matching(m) \subseteq 1 .. Len(coder_queue_)
        /\ coder_queue_[k] = c
    BY <1>1, ChosenIsFirst DEF RunnerInv, c, Chosen
  <2> HIDE DEF k
  <2>2. Matching(m) = {i \in DOMAIN coder_queue_ : IsFor(coder_queue_[i], m)}
    BY MatchingIsFor
  <2>3. Len(coder_queue_) \in Nat /\ DOMAIN coder_queue_ = 1 .. Len(coder_queue_)
    BY LenProperties DEF RunnerInv, TypeOK
  <2>4. \A j \in 1 .. k - 1 : ~IsFor(coder_queue_[j], m)
    <3> SUFFICES ASSUME NEW j \in 1 .. k - 1 PROVE j \notin Matching(m) /\ j \in DOMAIN coder_queue_
      BY <2>2
    <3> QED
      BY <2>1, <2>3
  <2>5. k \in DOMAIN coder_queue_ /\ IsFor(c, m)
    BY <2>1, <2>2
  <2>6. Answered(r, coder_queue_)
    BY <1>1, <1>3, <2>1, <2>4, <2>5 DEF Answered, Throws
  <2>7. r.error # E_NO_CODERS_FOUND
    BY <1>3 DEF E_NO_CODERS_FOUND
  <2> HIDE DEF r
  <2>8. /\ Len(replies') = Len(replies) + 1 /\ DOMAIN replies' = 1 .. Len(replies) + 1
        /\ \A i \in 1 .. Len(replies) : replies'[i] = replies[i]
        /\ replies'[Len(replies) + 1] = r
    BY <1>5 DEF n, r
  <2>9. UNCHANGED coder_queue_
    OBVIOUS
  <2> QED
    BY <2>6, <2>7, <2>8, <2>9, ReplyStep
<1>12. ResultsPreserved'
  <2> DEFINE Ok  == {k \in DOMAIN replies : replies[k].error = 0}
             Given == {Result(replies[k].coder, k) : k \in Ok}
  <2>1. Given = {r \in Queued \union acquired : r.serial <= n}
    BY DEF RunnerInv, ResultsPreserved, n
  <2>2. Given = Queued \union acquired
    BY <1>6, <2>1
  <2>3. {k \in DOMAIN replies' : replies'[k].error = 0} = Ok \union {n + 1}
    BY <1>3, <1>5
  <2>4. (\A k \in Ok : replies'[k].coder = replies[k].coder) /\ replies'[n + 1].coder = c
    BY <1>3, <1>5
  <2> HIDE DEF Ok
  <2>5. {Result(replies'[k].coder, k) : k \in Ok \union {n + 1}} = Given \union {Result(c, n + 1)}
    BY <2>4, Zenon DEF Given
  <2>6. {r \in Queued' \union acquired : r.serial <= n + 1} = Queued \union acquired \union {Result(c, n + 1)}
    BY <1>2, <1>5, <1>6
  <2>7. {Result(replies[k].coder, k) : k \in {i \in DOMAIN replies : replies[i].error = 0}}'
          = {r \in Queued \union acquired : r.serial <= Len(replies)}'
    <3>1. {Result(replies'[k].coder, k) : k \in {i \in DOMAIN replies' : replies'[i].error = 0}}
            = {r \in Queued' \union acquired : r.serial <= n + 1}
      BY <2>2, <2>3, <2>5, <2>6
    <3> QED
      BY <1>5, <3>1 DEF Result
  <2> QED
    BY <1>2, <2>7 DEF ResultsPreserved
<1> QED
  BY <1>7, <1>8, <1>11, <1>12 DEF RunnerInv

\* A result is moved from the queue to its caller, from wherever in the queue it is.
LEMMA AcquireStep ==
    ASSUME RunnerInv, NEW i \in DOMAIN queue_, AcquireResult(i)
    PROVE  RunnerInv'
<1> DEFINE q == Len(queue_)
<1>1. q \in Nat /\ DOMAIN queue_ = 1 .. q /\ i \in 1 .. q
  BY ResultsTyped
<1>2. queue_ \in Seq(Results) /\ queue_[i] \in Results
  BY <1>1, ResultsTyped DEF RunnerInv, TypeOK
<1>3. queue_' = SubSeq(queue_, 1, i - 1) \o SubSeq(queue_, i + 1, q)
  BY DEF AcquireResult
<1>4. /\ queue_' \in Seq(Results)
      /\ Len(queue_') = q - 1
      /\ \A j \in 1 .. q - 1 : queue_'[j] = IF j < i THEN queue_[j] ELSE queue_[j + 1]
  BY <1>1, <1>2, <1>3, WithoutOne
<1>5. DOMAIN queue_' = 1 .. q - 1
  BY <1>4, LenProperties
<1>6. \A j \in 1 .. q : queue_[j].serial \in Nat
  BY ResultsTyped
<1>7. \A j, k \in 1 .. q : j < k => queue_[j].serial < queue_[k].serial
  BY <1>1 DEF RunnerInv, ResultsPreserved
<1> HIDE DEF q
<1>8. \A j, k \in 1 .. q : j # k => queue_[j].serial # queue_[k].serial
  BY <1>1, <1>6, <1>7
<1>9. Queued' = {queue_[j] : j \in (1 .. q) \ {i}}
  <2>1. Queued' = {queue_'[j] : j \in 1 .. q - 1}
    BY <1>5 DEF Queued
  <2>2. ASSUME NEW j \in 1 .. q - 1 PROVE \E k \in (1 .. q) \ {i} : queue_'[j] = queue_[k]
    <3>1. CASE j < i
      BY <1>1, <1>4, <3>1
    <3>2. CASE ~ (j < i)
      <4>1. j + 1 \in (1 .. q) \ {i}
        BY <1>1, <3>2
      <4> QED
        BY <1>4, <3>2, <4>1
    <3> QED
      BY <3>1, <3>2
  <2>3. ASSUME NEW k \in (1 .. q) \ {i} PROVE \E j \in 1 .. q - 1 : queue_'[j] = queue_[k]
    <3>1. CASE k < i
      <4>1. k \in 1 .. q - 1
        BY <1>1, <3>1
      <4> QED
        BY <1>4, <3>1, <4>1
    <3>2. CASE ~ (k < i)
      <4>1. k - 1 \in 1 .. q - 1 /\ ~ (k - 1 < i) /\ (k - 1) + 1 = k
        BY <1>1, <3>2
      <4> QED
        BY <1>4, <4>1
    <3> QED
      BY <3>1, <3>2
  <2> QED
    BY <2>1, <2>2, <2>3
<1>10. Queued = Queued' \union {queue_[i]} /\ acquired' = acquired \union {queue_[i]}
  <2>1. Queued = {queue_[j] : j \in 1 .. q}
    BY <1>1 DEF Queued
  <2> QED
    BY <1>1, <1>9, <2>1 DEF AcquireResult
<1>11. (Queued \union acquired)' = Queued \union acquired
  BY <1>10
<1>12. TypeOK'
  BY <1>2, <1>4 DEF RunnerInv, TypeOK, AcquireResult
<1>13. SerialsInRange'
  BY <1>11 DEF RunnerInv, SerialsInRange, AcquireResult
<1>14. FirstRegisteredAnswers'
  BY RegistryStep DEF AcquireResult
<1>15. ResultsPreserved'
  <2>1. ASSUME NEW j \in 1 .. q - 1, NEW k \in 1 .. q - 1, j < k
        PROVE  queue_'[j].serial < queue_'[k].serial
    <3>1. j \in 1 .. q /\ j + 1 \in 1 .. q /\ k \in 1 .. q /\ k + 1 \in 1 .. q
      BY <1>1
    <3>2. CASE j < i /\ k < i
      BY <1>4, <1>7, <2>1, <3>1, <3>2
    <3>3. CASE j < i /\ ~ (k < i)
      BY <1>4, <1>7, <2>1, <3>1, <3>3
    <3>4. CASE ~ (j < i)
      <4>1. ~ (k < i) /\ j + 1 < k + 1
        BY <1>1, <2>1, <3>4
      <4> QED
        BY <1>4, <1>7, <3>1, <3>4, <4>1
    <3> QED
      BY <3>2, <3>3, <3>4
  <2>2. Serials(Queued)' \intersect Serials(acquired)' = {}
    <3>1. Serials(Queued) \intersect Serials(acquired) = {}
      BY DEF RunnerInv, ResultsPreserved
    <3>2. queue_[i].serial \notin Serials(Queued)'
      BY <1>1, <1>8, <1>9 DEF Serials
    <3>3. Serials(acquired)' = Serials(acquired) \union {queue_[i].serial}
      BY <1>10 DEF Serials
    <3>4. Serials(Queued)' \subseteq Serials(Queued)
      BY <1>10 DEF Serials
    <3> QED
      BY <3>1, <3>2, <3>3, <3>4
  <2>3. {Result(replies[k].coder, k) : k \in {j \in DOMAIN replies : replies[j].error = 0}}'
          = {r \in Queued \union acquired : r.serial <= Len(replies)}'
    <3>1. {Result(replies[k].coder, k) : k \in {j \in DOMAIN replies : replies[j].error = 0}}
            = {r \in Queued \union acquired : r.serial <= Len(replies)}
      BY DEF RunnerInv, ResultsPreserved
    <3>2. replies' = replies
      BY DEF AcquireResult
    <3>3. {r \in Queued' \union acquired' : r.serial <= Len(replies)}
            = {r \in Queued \union acquired : r.serial <= Len(replies)}
      BY <1>11
    <3> QED
      BY <3>1, <3>2, <3>3 DEF Result
  <2> QED
    BY <1>5, <2>1, <2>2, <2>3 DEF ResultsPreserved
<1> QED
  BY <1>12, <1>13, <1>14, <1>15 DEF RunnerInv

\* A message ends in one of four ways, each of which keeps the invariant.
LEMMA MessageStep ==
    ASSUME RunnerInv, NEW m \in Messages, HandleReceiveMessage(m)
    PROVE  RunnerInv'
<1>1. /\ alive /\ Len(replies) < MaxMessages
      /\ UNCHANGED <<coder_queue_, acquired>>
  BY DEF HandleReceiveMessage
<1>2. CASE NoCoderFound(m)
  <2>1. E_NO_CODERS_FOUND # E_INTERNAL_SERVER_ERROR
    BY DEF E_NO_CODERS_FOUND, E_INTERNAL_SERVER_ERROR
  <2> QED
    BY <1>1, <1>2, <2>1, RefusalStep DEF NoCoderFound
<1>3. CASE CoderThrows(m)
  <2>1. E_NO_CODERS_FOUND # E_INTERNAL_SERVER_ERROR
    BY DEF E_NO_CODERS_FOUND, E_INTERNAL_SERVER_ERROR
  <2> QED
    BY <1>1, <1>3, <2>1, RefusalStep DEF CoderThrows
<1>4. CASE CoderSucceeds(m)
  BY <1>1, <1>4, SuccessStep
<1>5. CASE CoderGivesNoMessage(m)
  BY <1>1, <1>5, NoMessageStep
<1> QED
  BY <1>2, <1>3, <1>4, <1>5 DEF HandleReceiveMessage

--------------------------------------------------------------------------------
(* The theorems. *)

\* Registrations, messages and acquisitions, in any order, keep the invariant
\* (CodersRunner.cc, NetCodersRunner.cc).
THEOREM RunnerInvariant == Spec => []RunnerInv
<1>1. Init => RunnerInv
  BY InitRunner
<1>2. RunnerInv /\ [Next]_vars => RunnerInv'
  <2> SUFFICES ASSUME RunnerInv, [Next]_vars PROVE RunnerInv'
    OBVIOUS
  <2>1. CASE \E c \in Coders : RegisterCoder(c)
    BY <2>1, RegisterStep
  <2>2. CASE \E m \in Messages : HandleReceiveMessage(m)
    BY <2>2, MessageStep
  <2>3. CASE \E i \in DOMAIN queue_ : AcquireResult(i)
    BY <2>3, AcquireStep
  <2>4. CASE UNCHANGED vars
    <3>1. UNCHANGED <<coder_queue_, queue_, acquired, replies, alive>>
      BY <2>4 DEF vars
    <3>2. FirstRegisteredAnswers'
      BY <3>1, RegistryStep
    <3>3. TypeOK'
      BY <3>1 DEF RunnerInv, TypeOK
    <3>4. SerialsInRange' /\ ResultsPreserved'
      BY <3>1 DEF RunnerInv, SerialsInRange, ResultsPreserved, Serials, Queued
    <3> QED
      BY <3>2, <3>3, <3>4 DEF RunnerInv
  <2> QED
    BY <2>1, <2>2, <2>3, <2>4 DEF Next
<1> QED
  BY <1>1, <1>2, PTL DEF Spec

\* The registry, the queue and the replies hold what their types say.
THEOREM RunnerTypes == Spec => []TypeOK
<1>1. RunnerInv => TypeOK
  BY DEF RunnerInv
<1> QED
  BY <1>1, RunnerInvariant, PTL

\* The coder that answered a message stays the first of those that have its name, a
\* coder's exception is answered as an internal error, and no message is refused for want
\* of a coder after one like it found one (CodersRunner.cc:14-34).
THEOREM AnswersInOrder == Spec => []FirstRegisteredAnswers
<1>1. RunnerInv => FirstRegisteredAnswers
  BY DEF RunnerInv
<1> QED
  BY <1>1, RunnerInvariant, PTL

\* PRESERVE_ALL: each result told to a peer is in the queue or with its caller, never
\* both, and the queue keeps the order of the results (CodersRunner.cc:20-31,
\* 58-68).
THEOREM PreservesAll == Spec => []ResultsPreserved
<1>1. RunnerInv => ResultsPreserved
  BY DEF RunnerInv
<1> QED
  BY <1>1, RunnerInvariant, PTL

================================================================================
