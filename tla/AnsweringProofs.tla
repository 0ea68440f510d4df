-------------------------- MODULE AnsweringProofs ---------------------------
(***************************************************************************)
(* Proofs about what questions are answered from, for any number of         *)
(* threads, makings and questions: the model that is kept (KeptModel), the  *)
(* copies of metrics (MetricCopies) and the check of the answers            *)
(* (AnswersCheck).                                                          *)
(*                                                                          *)
(* Each has an inductive invariant of its own: ModelIsSound, CopyIsSound    *)
(* and AnswersAreSound.                                                     *)
(***************************************************************************)
EXTENDS KeptModel, MetricCopies, AnswersCheck, WellFoundedInduction, TLAPS

\* A set of numbers that is not empty has a least one.
LEMMA LeastNumber ==
    ASSUME NEW T \in SUBSET Nat, T # {}
    PROVE  \E x \in T : \A y \in T : x <= y
<1> DEFINE R == OpToRel(<, Nat)
<1>1. \A x, y \in Nat : x < y => <<x, y>> \in R
    BY DEF OpToRel
<1>2. IsWellFoundedOn(R, Nat)
    BY NatLessThanWellFounded
<1> HIDE DEF R
<1>3. PICK x \in T : \A y \in T : ~(<<y, x>> \in R)
    BY <1>2, WFMin
<1>4. \A y \in T : ~(y < x)
    BY <1>1, <1>3
<1> QED BY <1>4

-----------------------------------------------------------------------------
(***************************************************************************)
(* KeptModel: what a question has read bounds what it is answered with      *)
(***************************************************************************)

\* Versions and discovery's masking only grow, and a question knows the decisions that were in
\* force, and with what masking the versions were learned.
SawIsPast(a) ==
    /\ saw[a].version <= current.version
    /\ saw[a].masked <= current.masked
    /\ current.decided \in saw[a].decided
    /\ learned \in saw[a].learned

\* The stamp was read while the question was asked, the model after its stamp; discovery's file is
\* found not to be read only as it answers.
StampIsOfQuestion(a) ==
    LET s == asking[a].stamp
        m == asking[a].made
        at == asking[a].at
    IN  /\ at \in {"decisions", "lookup", "row", "overrides", "masking"} =>
              s \in Made /\ saw[a].version <= s.version /\ s.version <= current.version
        /\ at \in {"lookup", "row", "overrides", "masking"} => s.decided \in saw[a].decided
        /\ at \in {"row", "overrides", "masking"} => saw[a].masked <= s.masked /\ s.masked <= current.masked
        /\ at \in {"overrides", "masking"} =>
              m \in Made /\ s.version <= m.version /\ m.masked \in saw[a].learned
        /\ at = "masking" => m.decided \in saw[a].decided
        /\ at # "answered" => asking[a].unread = FALSE

AnsweredSoundly(a) ==
    LET made == asking[a].made
    IN  /\ made.version >= saw[a].version
        /\ made.decided \in saw[a].decided \/ asking[a].torn
        /\ asking[a].unread = FALSE => made.masked >= saw[a].masked
        /\ asking[a].unread = TRUE => made.masked \in saw[a].learned

\* What is kept is no older than its stamp.
KeptIsNoOlder ==
    answering # NoModel =>
        /\ answering.made.version >= answering.stamp.version
        /\ answering.made.masked >= answering.stamp.masked

ModelIsSound ==
    /\ ModelTypes
    /\ KeptIsNoOlder
    /\ \A a \in Asker : asking[a].at # "idle" => SawIsPast(a) /\ StampIsOfQuestion(a)
    /\ \A a \in Asker : asking[a].at = "answered" => AnsweredSoundly(a)

\* No question has been asked at first, and nothing is kept.
LEMMA ModelStartsSound == ModelInit => ModelIsSound
<1> SUFFICES ASSUME ModelInit PROVE ModelIsSound
    OBVIOUS
<1>1. ModelTypes
    BY KeptModelConstants DEF ModelInit, ModelTypes, Made, Away, AskerState, Nothing, Saw
<1> QED BY <1>1 DEF ModelInit, ModelIsSound, KeptIsNoOlder, Away

\* What a step of one thread leaves of the others.
LEMMA OthersStaySound ==
    ASSUME ModelIsSound, NEW a \in Asker, NEW now \in AskerState, NEW past \in Saw,
           current' = current, learned' = learned, updates' = updates,
           asking' = [asking EXCEPT ![a] = now],
           saw' = [saw EXCEPT ![a] = past]
    PROVE  \A b \in Asker \ {a} :
              /\ asking'[b].at # "idle" => SawIsPast(b)' /\ StampIsOfQuestion(b)'
              /\ asking'[b].at = "answered" => AnsweredSoundly(b)'
<1> SUFFICES ASSUME NEW b \in Asker \ {a}
             PROVE  /\ asking'[b].at # "idle" => SawIsPast(b)' /\ StampIsOfQuestion(b)'
                    /\ asking'[b].at = "answered" => AnsweredSoundly(b)'
    OBVIOUS
<1>1. asking'[b] = asking[b] /\ saw'[b] = saw[b]
    BY DEF ModelIsSound, ModelTypes
<1> QED BY <1>1 DEF ModelIsSound, SawIsPast, StampIsOfQuestion, AnsweredSoundly

\* A step of one thread is sound when what it has in hand afterwards is.
LEMMA OneMovesSoundly ==
    ASSUME ModelIsSound, NEW a \in Asker, NEW now \in AskerState, NEW past \in Saw,
           current' = current, learned' = learned, updates' = updates,
           answering' \in [stamp : Made, made : Made] \cup {NoModel}, KeptIsNoOlder',
           asking' = [asking EXCEPT ![a] = now],
           saw' = [saw EXCEPT ![a] = past],
           asking'[a].at # "idle" => SawIsPast(a)' /\ StampIsOfQuestion(a)',
           asking'[a].at = "answered" => AnsweredSoundly(a)'
    PROVE  ModelIsSound'
<1>1. ModelTypes'
    BY DEF ModelIsSound, ModelTypes
<1>2. \A b \in Asker \ {a} :
        /\ asking'[b].at # "idle" => SawIsPast(b)' /\ StampIsOfQuestion(b)'
        /\ asking'[b].at = "answered" => AnsweredSoundly(b)'
    BY OthersStaySound
<1> QED BY <1>1, <1>2 DEF ModelIsSound

\* A question begins by noting the model as it is.
LEMMA AskKeepsSound ==
    ASSUME ModelIsSound, NEW a \in Asker, Ask(a)
    PROVE  ModelIsSound'
<1>1. current \in Made /\ current.version \in Nat /\ current.masked \in Nat /\ current.decided \in Decisions
    BY DEF ModelIsSound, ModelTypes, Made
<1>2. PICK now \in AskerState : now = [Away EXCEPT !.at = "decisions", !.stamp = current]
    BY <1>1 DEF Away, AskerState
<1>3. PICK past \in Saw : past = [version |-> current.version, masked |-> current.masked,
                                 decided |-> {current.decided}, learned |-> {learned}]
    BY <1>1 DEF Saw, ModelIsSound, ModelTypes
<1>4. /\ asking' = [asking EXCEPT ![a] = now] /\ saw' = [saw EXCEPT ![a] = past]
      /\ current' = current /\ learned' = learned /\ answering' = answering /\ updates' = updates
    BY <1>2, <1>3 DEF Ask
<1>5. asking'[a] = now /\ saw'[a] = past
    BY <1>4 DEF ModelIsSound, ModelTypes
<1>6. now.at = "decisions" /\ now.stamp = current /\ now.unread = FALSE
    BY <1>2 DEF Away
<1>7. SawIsPast(a)' /\ StampIsOfQuestion(a)'
    BY <1>1, <1>3, <1>4, <1>5, <1>6 DEF SawIsPast, StampIsOfQuestion
<1>8. answering' \in [stamp : Made, made : Made] \cup {NoModel} /\ KeptIsNoOlder'
    BY <1>4 DEF ModelIsSound, ModelTypes, KeptIsNoOlder
<1> QED BY <1>4, <1>5, <1>6, <1>7, <1>8, OneMovesSoundly

\* The decisions of its stamp are those in force.
LEMMA StampDecisionsKeepsSound ==
    ASSUME ModelIsSound, NEW a \in Asker, StampDecisions(a)
    PROVE  ModelIsSound'
<1>1. current \in Made /\ asking[a] \in AskerState /\ asking[a].at = "decisions" /\ saw[a] \in Saw
    BY DEF ModelIsSound, ModelTypes, StampDecisions, Reads
<1>2. SawIsPast(a) /\ StampIsOfQuestion(a) /\ asking[a].stamp \in Made
    BY <1>1 DEF ModelIsSound, StampIsOfQuestion
<1>3. PICK now \in AskerState : now = [Has(a) EXCEPT !.at = "lookup", !.stamp.decided = current.decided]
    BY <1>1, <1>2 DEF Has, AskerState, Made
<1>4. PICK past \in Saw : past = saw[a]
    BY <1>1
<1>5. /\ asking' = [asking EXCEPT ![a] = now] /\ saw' = [saw EXCEPT ![a] = past]
      /\ current' = current /\ learned' = learned /\ answering' = answering /\ updates' = updates
    BY <1>3, <1>4 DEF StampDecisions, Reads, ModelIsSound, ModelTypes
<1>6. asking'[a] = now /\ saw'[a] = past
    BY <1>5 DEF ModelIsSound, ModelTypes
<1>7. /\ now.at = "lookup" /\ now.stamp \in Made
      /\ now.stamp.version = asking[a].stamp.version /\ now.stamp.decided = current.decided
      /\ now.unread = asking[a].unread
    BY <1>1, <1>2, <1>3 DEF Has, AskerState, Made
<1>8. SawIsPast(a)' /\ StampIsOfQuestion(a)'
    BY <1>1, <1>2, <1>4, <1>5, <1>6, <1>7 DEF SawIsPast, StampIsOfQuestion
<1>9. answering' \in [stamp : Made, made : Made] \cup {NoModel} /\ KeptIsNoOlder'
    BY <1>5 DEF ModelIsSound, ModelTypes, KeptIsNoOlder
<1> QED BY <1>5, <1>6, <1>7, <1>8, <1>9, OneMovesSoundly

\* The model kept under the stamp is no older than it, and of its decisions unless torn.
LEMMA LookUpKeepsSound ==
    ASSUME ModelIsSound, NEW a \in Asker, LookUpKept(a)
    PROVE  ModelIsSound'
<1>1. current \in Made /\ asking[a] \in AskerState /\ asking[a].at = "lookup" /\ saw[a] \in Saw
    BY DEF ModelIsSound, ModelTypes, LookUpKept, Takes, Reads
<1>2. SawIsPast(a) /\ StampIsOfQuestion(a) /\ asking[a].stamp \in Made
    BY <1>1 DEF ModelIsSound, StampIsOfQuestion
<1>3. PICK stamp \in Made : stamp = [Has(a).stamp EXCEPT !.masked = current.masked]
    BY <1>1, <1>2 DEF Has, Made
<1>4. /\ stamp.version = asking[a].stamp.version /\ stamp.decided = asking[a].stamp.decided
      /\ stamp.masked = current.masked
    BY <1>2, <1>3 DEF Has, Made
<1>5. PICK past \in Saw : past = saw[a]
    BY <1>1
<1>6. answering' = answering /\ answering' \in [stamp : Made, made : Made] \cup {NoModel} /\ KeptIsNoOlder'
    BY DEF LookUpKept, ModelIsSound, ModelTypes, KeptIsNoOlder
<1>7. saw' = [saw EXCEPT ![a] = past] /\ current' = current /\ learned' = learned /\ updates' = updates
    BY <1>5 DEF LookUpKept, Takes, Reads, ModelIsSound, ModelTypes
<1>8. CASE answering # NoModel /\ answering.stamp = stamp
  <2>1. answering.made \in Made /\ answering.stamp \in Made
      BY <1>8 DEF ModelIsSound, ModelTypes
  <2>2. PICK now \in AskerState :
            now = [at |-> "answered", stamp |-> stamp, made |-> answering.made,
                   torn |-> answering.made.decided # answering.stamp.decided, unread |-> FALSE]
    <3> DEFINE now == [at |-> "answered", stamp |-> stamp, made |-> answering.made,
                       torn |-> answering.made.decided # answering.stamp.decided, unread |-> FALSE]
    <3>1. (answering.made.decided # answering.stamp.decided) \in BOOLEAN
        OBVIOUS
    <3>2. now \in AskerState
        BY <2>1, <3>1, Zenon DEF AskerState
    <3> QED BY <3>2
  <2>3. asking' = [asking EXCEPT ![a] = now]
      BY <1>3, <1>8, <2>2 DEF LookUpKept, Takes, Reads
  <2>4. asking'[a] = now /\ saw'[a] = past
      BY <1>7, <2>3 DEF ModelIsSound, ModelTypes
  <2>5. /\ now.at = "answered" /\ now.made = answering.made /\ now.unread = FALSE
        /\ now.torn <=> answering.made.decided # stamp.decided
      BY <1>8, <2>2
  <2>6. /\ answering.made.version >= stamp.version /\ answering.made.masked >= stamp.masked
        /\ answering.made.version \in Nat /\ answering.made.masked \in Nat
        /\ stamp.version \in Nat /\ stamp.masked \in Nat
      BY <1>8, <2>1 DEF ModelIsSound, KeptIsNoOlder, Made
  <2>7. /\ saw[a].version <= stamp.version /\ saw[a].masked <= stamp.masked /\ stamp.decided \in saw[a].decided
        /\ saw[a].version \in Nat /\ saw[a].masked \in Nat
      BY <1>1, <1>2, <1>4 DEF SawIsPast, StampIsOfQuestion, Saw
  <2>8. AnsweredSoundly(a)'
      BY <1>5, <2>4, <2>5, <2>6, <2>7 DEF AnsweredSoundly
  <2>9. SawIsPast(a)' /\ StampIsOfQuestion(a)'
      BY <1>2, <1>5, <1>7, <2>4, <2>5 DEF SawIsPast, StampIsOfQuestion
  <2> QED BY <1>6, <1>7, <2>3, <2>8, <2>9, OneMovesSoundly
<1>9. CASE ~(answering # NoModel /\ answering.stamp = stamp)
  <2>1. PICK now \in AskerState : now = [Has(a) EXCEPT !.at = "row", !.stamp = stamp]
      BY <1>1 DEF Has, AskerState
  <2>2. asking' = [asking EXCEPT ![a] = now]
      BY <1>3, <1>9, <2>1 DEF LookUpKept, Takes, Reads
  <2>3. asking'[a] = now /\ saw'[a] = past
      BY <1>7, <2>2 DEF ModelIsSound, ModelTypes
  <2>4. now.at = "row" /\ now.stamp = stamp /\ now.unread = asking[a].unread
      BY <1>1, <2>1 DEF Has, AskerState
  <2>5. SawIsPast(a)' /\ StampIsOfQuestion(a)'
      BY <1>1, <1>2, <1>4, <1>5, <1>7, <2>3, <2>4 DEF SawIsPast, StampIsOfQuestion, Made
  <2> QED BY <1>6, <1>7, <2>2, <2>3, <2>4, <2>5, OneMovesSoundly
<1> QED BY <1>8, <1>9

\* The version it loads is no older than its stamp's.
LEMMA LoadRowKeepsSound ==
    ASSUME ModelIsSound, NEW a \in Asker, LoadRow(a)
    PROVE  ModelIsSound'
<1>1. current \in Made /\ asking[a] \in AskerState /\ asking[a].at = "row" /\ saw[a] \in Saw
    BY DEF ModelIsSound, ModelTypes, LoadRow, Reads
<1>2. SawIsPast(a) /\ StampIsOfQuestion(a) /\ asking[a].stamp \in Made
    BY <1>1 DEF ModelIsSound, StampIsOfQuestion
<1>0. PICK made \in Made : made = [current EXCEPT !.masked = learned]
    BY <1>1 DEF ModelIsSound, ModelTypes, Made
<1>3. PICK now \in AskerState : now = [Has(a) EXCEPT !.at = "overrides", !.made = made]
    BY <1>1, <1>2 DEF Has, AskerState
<1>4. PICK past \in Saw : past = saw[a]
    BY <1>1
<1>5. /\ asking' = [asking EXCEPT ![a] = now] /\ saw' = [saw EXCEPT ![a] = past]
      /\ current' = current /\ learned' = learned /\ answering' = answering /\ updates' = updates
    BY <1>0, <1>3, <1>4 DEF LoadRow, Reads, ModelIsSound, ModelTypes
<1>6. asking'[a] = now /\ saw'[a] = past
    BY <1>5 DEF ModelIsSound, ModelTypes
<1>7. /\ now.at = "overrides" /\ now.stamp = asking[a].stamp /\ now.made = made
      /\ now.unread = asking[a].unread /\ made.version = current.version /\ made.masked = learned
    BY <1>0, <1>1, <1>2, <1>3 DEF Has, AskerState, Made
<1>8. SawIsPast(a)' /\ StampIsOfQuestion(a)'
    BY <1>1, <1>2, <1>4, <1>5, <1>6, <1>7 DEF SawIsPast, StampIsOfQuestion, Made
<1>9. answering' \in [stamp : Made, made : Made] \cup {NoModel} /\ KeptIsNoOlder'
    BY <1>5 DEF ModelIsSound, ModelTypes, KeptIsNoOlder
<1> QED BY <1>5, <1>6, <1>7, <1>8, <1>9, OneMovesSoundly

\* The decisions it loads are those in force.
LEMMA LoadDecisionsKeepsSound ==
    ASSUME ModelIsSound, NEW a \in Asker, LoadDecisions(a)
    PROVE  ModelIsSound'
<1>1. current \in Made /\ asking[a] \in AskerState /\ asking[a].at = "overrides" /\ saw[a] \in Saw
    BY DEF ModelIsSound, ModelTypes, LoadDecisions, Reads
<1>2. SawIsPast(a) /\ StampIsOfQuestion(a) /\ asking[a].stamp \in Made /\ asking[a].made \in Made
    BY <1>1 DEF ModelIsSound, StampIsOfQuestion
<1>3. PICK now \in AskerState : now = [Has(a) EXCEPT !.at = "masking", !.made.decided = current.decided]
    BY <1>1, <1>2 DEF Has, AskerState, Made
<1>4. PICK past \in Saw : past = saw[a]
    BY <1>1
<1>5. /\ asking' = [asking EXCEPT ![a] = now] /\ saw' = [saw EXCEPT ![a] = past]
      /\ current' = current /\ learned' = learned /\ answering' = answering /\ updates' = updates
    BY <1>3, <1>4 DEF LoadDecisions, Reads, ModelIsSound, ModelTypes
<1>6. asking'[a] = now /\ saw'[a] = past
    BY <1>5 DEF ModelIsSound, ModelTypes
<1>7. /\ now.at = "masking" /\ now.stamp = asking[a].stamp /\ now.made \in Made
      /\ now.made.version = asking[a].made.version /\ now.made.decided = current.decided
      /\ now.made.masked = asking[a].made.masked /\ now.unread = asking[a].unread
    BY <1>1, <1>2, <1>3 DEF Has, AskerState, Made
<1>8. SawIsPast(a)' /\ StampIsOfQuestion(a)'
    BY <1>1, <1>2, <1>4, <1>5, <1>6, <1>7 DEF SawIsPast, StampIsOfQuestion, Made
<1>9. answering' \in [stamp : Made, made : Made] \cup {NoModel} /\ KeptIsNoOlder'
    BY <1>5 DEF ModelIsSound, ModelTypes, KeptIsNoOlder
<1> QED BY <1>5, <1>6, <1>7, <1>8, <1>9, OneMovesSoundly

\* The model is kept under a stamp read before it.
LEMMA KeepKeepsSound ==
    ASSUME ModelIsSound, NEW a \in Asker, Keep(a)
    PROVE  ModelIsSound'
<1>1. current \in Made /\ asking[a] \in AskerState /\ asking[a].at = "masking" /\ saw[a] \in Saw
    BY DEF ModelIsSound, ModelTypes, Keep, Reads
<1>2. SawIsPast(a) /\ StampIsOfQuestion(a) /\ asking[a].stamp \in Made /\ asking[a].made \in Made
    BY <1>1 DEF ModelIsSound, StampIsOfQuestion
<1>3. PICK made \in Made : made = [Has(a).made EXCEPT !.masked = current.masked]
    BY <1>1, <1>2 DEF Has, Made
<1>4. /\ made.version = asking[a].made.version /\ made.decided = asking[a].made.decided
      /\ made.masked = current.masked
    BY <1>2, <1>3 DEF Has, Made
<1>5. PICK now \in AskerState : now = [Has(a) EXCEPT !.at = "answered", !.made = made]
    BY <1>1 DEF Has, AskerState
<1>6. PICK past \in Saw : past = saw[a]
    BY <1>1
<1>7. /\ asking' = [asking EXCEPT ![a] = now] /\ saw' = [saw EXCEPT ![a] = past]
      /\ current' = current /\ learned' = learned /\ updates' = updates
      /\ answering' = [stamp |-> asking[a].stamp, made |-> made]
    BY <1>3, <1>5, <1>6 DEF Keep, Reads, Has, ModelIsSound, ModelTypes
<1>8. asking'[a] = now /\ saw'[a] = past
    BY <1>7 DEF ModelIsSound, ModelTypes
<1>9. now.at = "answered" /\ now.made = made /\ now.unread = FALSE
    BY <1>1, <1>2, <1>5 DEF Has, AskerState, StampIsOfQuestion
<1>10. /\ made.version >= asking[a].stamp.version /\ made.masked >= asking[a].stamp.masked
       /\ made.version >= saw[a].version /\ made.masked >= saw[a].masked
       /\ made.decided \in saw[a].decided
    BY <1>1, <1>2, <1>4 DEF StampIsOfQuestion, SawIsPast, Made, Saw
<1>11. AnsweredSoundly(a)'
    BY <1>6, <1>8, <1>9, <1>10 DEF AnsweredSoundly
<1>12. SawIsPast(a)' /\ StampIsOfQuestion(a)'
    BY <1>2, <1>6, <1>7, <1>8, <1>9 DEF SawIsPast, StampIsOfQuestion
<1>13. answering' \in [stamp : Made, made : Made] \cup {NoModel} /\ KeptIsNoOlder'
    BY <1>2, <1>7, <1>10 DEF KeptIsNoOlder
<1> QED BY <1>7, <1>11, <1>12, <1>13, OneMovesSoundly

\* Discovery's file not read, the model is masked as a version of the question's time was learned.
LEMMA MaskingFailsKeepsSound ==
    ASSUME ModelIsSound, NEW a \in Asker, MaskingFails(a)
    PROVE  ModelIsSound'
<1>1. current \in Made /\ asking[a] \in AskerState /\ asking[a].at = "masking" /\ saw[a] \in Saw
    BY DEF ModelIsSound, ModelTypes, MaskingFails, Reads
<1>2. SawIsPast(a) /\ StampIsOfQuestion(a) /\ asking[a].stamp \in Made /\ asking[a].made \in Made
    BY <1>1 DEF ModelIsSound, StampIsOfQuestion
<1>3. PICK now \in AskerState : now = [Has(a) EXCEPT !.at = "answered", !.unread = TRUE]
    BY <1>1 DEF Has, AskerState
<1>4. PICK past \in Saw : past = saw[a]
    BY <1>1
<1>5. /\ asking' = [asking EXCEPT ![a] = now] /\ saw' = [saw EXCEPT ![a] = past]
      /\ current' = current /\ learned' = learned /\ answering' = answering /\ updates' = updates
    BY <1>3, <1>4 DEF MaskingFails, Reads, ModelIsSound, ModelTypes
<1>6. asking'[a] = now /\ saw'[a] = past
    BY <1>5 DEF ModelIsSound, ModelTypes
<1>7. now.at = "answered" /\ now.made = asking[a].made /\ now.unread = TRUE
    BY <1>1, <1>3 DEF Has, AskerState
<1>8. /\ asking[a].made.version >= saw[a].version
      /\ asking[a].made.decided \in saw[a].decided
      /\ asking[a].made.masked \in saw[a].learned
    BY <1>1, <1>2 DEF StampIsOfQuestion, SawIsPast, Made, Saw
<1>9. AnsweredSoundly(a)'
    BY <1>4, <1>6, <1>7, <1>8 DEF AnsweredSoundly
<1>10. SawIsPast(a)' /\ StampIsOfQuestion(a)'
    BY <1>2, <1>4, <1>5, <1>6, <1>7 DEF SawIsPast, StampIsOfQuestion
<1>11. answering' \in [stamp : Made, made : Made] \cup {NoModel} /\ KeptIsNoOlder'
    BY <1>5 DEF ModelIsSound, ModelTypes, KeptIsNoOlder
<1> QED BY <1>5, <1>9, <1>10, <1>11, OneMovesSoundly

\* A question that ends asks for nothing more.
LEMMA EndsKeepsSound ==
    ASSUME ModelIsSound, NEW a \in Asker, Ends(a)
    PROVE  ModelIsSound'
<1>1. PICK now \in AskerState : now = Away
    BY DEF Away, AskerState
<1>2. PICK past \in Saw : past = Nothing
    BY DEF Nothing, Saw
<1>3. /\ asking' = [asking EXCEPT ![a] = now] /\ saw' = [saw EXCEPT ![a] = past]
      /\ current' = current /\ learned' = learned /\ answering' = answering /\ updates' = updates
    BY <1>1, <1>2 DEF Ends
<1>4. asking'[a].at = "idle"
    BY <1>1, <1>3 DEF ModelIsSound, ModelTypes, Away
<1>5. answering' \in [stamp : Made, made : Made] \cup {NoModel} /\ KeptIsNoOlder'
    BY <1>3 DEF ModelIsSound, ModelTypes, KeptIsNoOlder
<1> QED BY <1>3, <1>4, <1>5, OneMovesSoundly

\* Whatever changes the model leaves what was read, which may then be older than what there is.
LEMMA UpdateKeepsSound ==
    ASSUME ModelIsSound, NEW now \in Made, NEW masking \in Nat, Update(now, masking),
           now.version >= current.version, now.masked >= current.masked
    PROVE  ModelIsSound'
<1>1. asking' = asking /\ answering' = answering /\ current' = now /\ learned' = masking
    BY DEF Update
<1>2. current \in Made /\ \A a \in Asker : asking[a] \in AskerState /\ saw[a] \in Saw
    BY DEF ModelIsSound, ModelTypes
<1>3. \A a \in Asker : /\ saw'[a].version = saw[a].version /\ saw'[a].masked = saw[a].masked
                       /\ saw[a].decided \subseteq saw'[a].decided /\ saw[a].learned \subseteq saw'[a].learned
                       /\ asking[a].at # "idle" =>
                             now.decided \in saw'[a].decided /\ masking \in saw'[a].learned
                       /\ saw'[a] \in Saw
  <2> SUFFICES ASSUME NEW a \in Asker
               PROVE  /\ saw'[a].version = saw[a].version /\ saw'[a].masked = saw[a].masked
                      /\ saw[a].decided \subseteq saw'[a].decided /\ saw[a].learned \subseteq saw'[a].learned
                      /\ asking[a].at # "idle" =>
                            now.decided \in saw'[a].decided /\ masking \in saw'[a].learned
                      /\ saw'[a] \in Saw
      OBVIOUS
  <2>1. saw'[a] = IF asking[a].at = "idle" THEN saw[a]
                  ELSE [saw[a] EXCEPT !.decided = @ \cup {now.decided}, !.learned = @ \cup {masking}]
      BY DEF Update
  <2>2. saw[a] \in Saw /\ now.decided \in Decisions
      BY <1>2 DEF Made
  <2>3. CASE asking[a].at = "idle"
      BY <2>1, <2>2, <2>3
  <2>4. CASE asking[a].at # "idle"
    <3>1. saw'[a] = [saw[a] EXCEPT !.decided = saw[a].decided \cup {now.decided},
                                   !.learned = saw[a].learned \cup {masking}]
        BY <2>1, <2>4
    <3> QED BY <2>2, <2>4, <3>1 DEF Saw
  <2> QED BY <2>3, <2>4
<1>4. ModelTypes'
  <2>0. updates < MaxUpdates /\ updates' = updates + 1
      BY DEF Update
  <2>1. updates' \in 0 .. MaxUpdates
      BY <2>0, KeptModelConstants DEF ModelIsSound, ModelTypes
  <2>2. saw' \in [Asker -> Saw]
      BY <1>3 DEF Update
  <2> QED BY <1>1, <2>1, <2>2 DEF ModelIsSound, ModelTypes
<1>5. ASSUME NEW a \in Asker, asking[a].at # "idle"
      PROVE  SawIsPast(a)' /\ StampIsOfQuestion(a)'
  <2>1. SawIsPast(a) /\ StampIsOfQuestion(a)
      BY <1>5 DEF ModelIsSound
  <2>2. SawIsPast(a)'
      BY <1>1, <1>2, <1>3, <1>5, <2>1 DEF SawIsPast, Saw, Made
  <2>3. StampIsOfQuestion(a)'
      BY <1>1, <1>2, <1>3, <2>1 DEF StampIsOfQuestion, Saw, Made
  <2> QED BY <2>2, <2>3
<1>6. ASSUME NEW a \in Asker, asking[a].at = "answered"
      PROVE  AnsweredSoundly(a)'
  <2>1. AnsweredSoundly(a)
      BY <1>6 DEF ModelIsSound
  <2> QED BY <1>1, <1>3, <2>1 DEF AnsweredSoundly
<1>7. KeptIsNoOlder'
    BY <1>1 DEF ModelIsSound, KeptIsNoOlder
<1> QED BY <1>1, <1>4, <1>5, <1>6, <1>7 DEF ModelIsSound

\* What is forgotten answers nothing.
LEMMA ForgetModelKeepsSound ==
    ASSUME ModelIsSound, ForgetModel
    PROVE  ModelIsSound'
<1>1. ModelTypes'
    BY DEF ForgetModel, ModelIsSound, ModelTypes, Away, AskerState, Nothing, Saw
<1>2. \A a \in Asker : asking'[a].at = "idle"
    BY DEF ForgetModel, Away
<1>3. KeptIsNoOlder'
    BY DEF ForgetModel, KeptIsNoOlder
<1> QED BY <1>1, <1>2, <1>3 DEF ModelIsSound

\* Every step keeps it.
LEMMA ModelKeepsSound == ModelIsSound /\ [ModelNext]_modelVars => ModelIsSound'
<1> SUFFICES ASSUME ModelIsSound, [ModelNext]_modelVars PROVE ModelIsSound'
    OBVIOUS
<1>1. ASSUME NEW a \in Asker, AskerStep(a) PROVE ModelIsSound'
  <2>1. ASSUME EndQuestion(a) PROVE ModelIsSound'
      BY <2>1, EndsKeepsSound DEF EndQuestion
  <2> QED BY <1>1, <2>1, AskKeepsSound, StampDecisionsKeepsSound, LookUpKeepsSound, LoadRowKeepsSound,
             LoadDecisionsKeepsSound, KeepKeepsSound, MaskingFailsKeepsSound DEF AskerStep
<1>2. current \in Made /\ current.version \in Nat /\ current.masked \in Nat /\ learned \in Nat
    BY DEF ModelIsSound, ModelTypes, Made
<1>3. ASSUME Learned PROVE ModelIsSound'
  <2>0. [current EXCEPT !.version = @ + 1] \in Made
      BY <1>2 DEF Made
  <2>1. PICK now \in Made : now = [current EXCEPT !.version = @ + 1]
      BY <2>0
  <2>2. now.version >= current.version /\ now.masked >= current.masked
      BY <1>2, <2>1 DEF Made
  <2>3. PICK masking \in 1 .. current.masked : Update(now, masking)
      BY <1>3, <2>1 DEF Learned
  <2> QED BY <1>2, <2>2, <2>3, UpdateKeepsSound
<1>4. ASSUME Decide PROVE ModelIsSound'
  <2>1. PICK d \in Decisions : Update([current EXCEPT !.decided = d], learned)
      BY <1>4 DEF Decide
  <2>2. PICK now \in Made : now = [current EXCEPT !.decided = d]
      BY <1>2 DEF Made
  <2>3. now.version >= current.version /\ now.masked >= current.masked
      BY <1>2, <2>2 DEF Made
  <2> QED BY <1>2, <2>1, <2>2, <2>3, UpdateKeepsSound
<1>5. ASSUME Discovered PROVE ModelIsSound'
  <2>0. [current EXCEPT !.masked = @ + 1] \in Made
      BY <1>2 DEF Made
  <2>1. PICK now \in Made : now = [current EXCEPT !.masked = @ + 1]
      BY <2>0
  <2>2. now.version >= current.version /\ now.masked >= current.masked
      BY <1>2, <2>1 DEF Made
  <2> QED BY <1>2, <1>5, <2>1, <2>2, UpdateKeepsSound DEF Discovered
<1>6. CASE UNCHANGED modelVars
    BY <1>6 DEF modelVars, ModelIsSound, ModelTypes, KeptIsNoOlder, SawIsPast, StampIsOfQuestion, AnsweredSoundly
<1> QED BY <1>1, <1>3, <1>4, <1>5, <1>6, ForgetModelKeepsSound DEF ModelNext

\* The invariant, of every behaviour: what was read of the model bounds what is answered with.
THEOREM ModelStaysSound == ModelSpec => []ModelIsSound
<1> QED BY ModelStartsSound, ModelKeepsSound, PTL DEF ModelSpec

\* A question is answered with a version no older than when it was asked, with decisions in force
\* while it was, unless what is kept is torn, and with a masking no older than when it was asked, or,
\* discovery's file not read, with that of a version in force while it was
\* (core2/bootstrap/service.py:255, 298).
THEOREM ModelAnswersAsOfNow == ModelSpec => []AnsweredAsOfNow
<1>1. ModelIsSound => AnsweredAsOfNow
  <2> SUFFICES ASSUME ModelIsSound, NEW a \in Asker, asking[a].at = "answered"
               PROVE  /\ asking[a].made.version >= saw[a].version
                      /\ asking[a].made.decided \in saw[a].decided \/ asking[a].torn
                      /\ IF asking[a].unread THEN asking[a].made.masked \in saw[a].learned
                                             ELSE asking[a].made.masked >= saw[a].masked
      BY DEF AnsweredAsOfNow
  <2>1. AnsweredSoundly(a) /\ asking[a].unread \in BOOLEAN
      BY DEF ModelIsSound, ModelTypes, AskerState
  <2> QED BY <2>1, Zenon DEF AnsweredSoundly
<1> QED BY <1>1, ModelStaysSound, PTL


-----------------------------------------------------------------------------
(***************************************************************************)
(* MetricCopies: the inductive invariant                                    *)
(***************************************************************************)

Active(m) == AtWork(m) \/ InItsTail(m)

\* Until one was taken over, or the row freed under it, the row is claimed by the one making that
\* is at work.
ClaimedByOne ==
    noted.tookOver = FALSE /\ noted.freed = FALSE =>
        /\ \A m, n \in Making : AtWork(m) /\ AtWork(n) => m = n
        /\ \A m \in Making : row.kept = TRUE /\ AtWork(m) => row.status = "making" /\ row.runner = process

\* The row goes, then the files; what is written later is of a making that looks again.
RemovedInOrder ==
    /\ row.kept = TRUE <=> remover = "none"
    /\ row.kept = FALSE /\ remover = "done" /\ noted.cut = FALSE =>
          \A f \in files : maker[f].at \in {"before", "swap", "look"}

OneActive == noted.overlap = FALSE => \A m, n \in Making : Active(m) /\ Active(n) => m = n

ReadyHasBeenMade == row.status = "ready" => row.file # NoFile

Orderly == row.kept = TRUE /\ noted.overlap = FALSE /\ noted.cleared = FALSE

\* Nothing deletes the row's file, or that of the making under way.
FilesAreKept ==
    /\ row.file # NoFile => row.file \in files
    /\ \A m \in Making :
          /\ maker[m].at \in {"before", "swap", "look", "tidy"} => m \in files
          /\ maker[m].at = "swap" => maker[m].old = row.file
          /\ InItsTail(m) => row.file = m

\* An answer's file is the row's, or the one before it.
AnswerIsKept ==
    /\ answer.file # NoFile /\ answer.swaps = 0 => answer.file = row.file
    /\ answer.file # NoFile /\ answer.swaps = 1 =>
          /\ answer.file \in files
          /\ \A m \in Making : InItsTail(m) => maker[m].old = answer.file

CopyIsSound ==
    /\ CopyTypes
    /\ ClaimedByOne
    /\ RemovedInOrder
    /\ OneActive
    /\ ReadyHasBeenMade
    /\ Orderly => FilesAreKept /\ AnswerIsKept

\* No making has begun, and no file is there.
LEMMA CopyStartsSound == CopyInit => CopyIsSound
<1> SUFFICES ASSUME CopyInit PROVE CopyIsSound
    OBVIOUS
<1>1. CopyTypes
    BY CopyConstants
    DEF CopyInit, CopyTypes, RowState, MakerState, AnswerState, NoAnswer, NoFile, NoProcess, Process
<1>2. \A m \in Making : maker[m].at = "new"
    BY DEF CopyInit
<1>3. ClaimedByOne /\ RemovedInOrder /\ OneActive /\ ReadyHasBeenMade
    BY <1>2 DEF CopyInit, ClaimedByOne, RemovedInOrder, OneActive, ReadyHasBeenMade, AtWork, InItsTail, Active
<1>4. FilesAreKept /\ AnswerIsKept
    BY <1>2 DEF CopyInit, FilesAreKept, AnswerIsKept, NoAnswer, AtWork, InItsTail
<1> QED BY <1>1, <1>3, <1>4 DEF CopyIsSound

-----------------------------------------------------------------------------
(***************************************************************************)
(* The steps                                                                *)
(***************************************************************************)

\* A making that goes on moves alone.
LEMMA MakerGoes ==
    ASSUME CopyTypes, NEW m \in Making,
           NEW at \in {"new", "read", "write", "before", "swap", "look", "tidy", "done"}, GoTo(m, at)
    PROVE  /\ maker' \in [Making -> MakerState]
           /\ maker'[m].at = at /\ maker'[m].old = maker[m].old
           /\ \A n \in Making : n # m => maker'[n] = maker[n]
<1> QED BY DEF CopyTypes, MakerState, GoTo

\* So does one that ends.
LEMMA MakerEnds ==
    ASSUME CopyTypes, NEW m \in Making, End(m)
    PROVE  /\ maker' \in [Making -> MakerState]
           /\ maker'[m].at = "done"
           /\ \A n \in Making : n # m => maker'[n] = maker[n]
<1> QED BY DEF CopyTypes, MakerState, End

\* Time makes a making old enough to be taken over, and no more.
LEMMA TimePassesKeepsCopy == CopyIsSound /\ TimePasses => CopyIsSound'
<1> SUFFICES ASSUME CopyIsSound, TimePasses PROVE CopyIsSound'
    OBVIOUS
<1>1. UNCHANGED <<ours, files, maker, remover, process, answer, noted>>
    BY DEF TimePasses
<1>2. /\ row' \in RowState /\ row'.kept = row.kept /\ row'.status = row.status
      /\ row'.runner = row.runner /\ row'.file = row.file
  <2>1. row \in RowState
      BY DEF CopyIsSound, CopyTypes
  <2> QED BY <2>1 DEF TimePasses, RowState
<1>3. CopyTypes'
    BY <1>1, <1>2 DEF CopyIsSound, CopyTypes
<1>4. ClaimedByOne' /\ RemovedInOrder' /\ OneActive' /\ ReadyHasBeenMade'
    BY <1>1, <1>2 DEF CopyIsSound, ClaimedByOne, RemovedInOrder, OneActive, ReadyHasBeenMade, AtWork, InItsTail, Active
<1>5. Orderly' => FilesAreKept' /\ AnswerIsKept'
    BY <1>1, <1>2 DEF CopyIsSound, Orderly, FilesAreKept, AnswerIsKept, InItsTail
<1> QED BY <1>3, <1>4, <1>5 DEF CopyIsSound

\* The row is claimed when nothing makes the copy, or from one that takes too long: a takeover.
LEMMA ClaimKeepsCopy == CopyIsSound /\ Claim => CopyIsSound'
<1> SUFFICES ASSUME CopyIsSound, Claim PROVE CopyIsSound'
    OBVIOUS
<1>0. CopyTypes
    BY DEF CopyIsSound
<1>1. PICK m \in Making :
        /\ maker[m].at = "new"
        /\ row' = [row EXCEPT !.status = "making", !.runner = process, !.long = FALSE]
        /\ GoTo(m, "read")
        /\ noted' = [noted EXCEPT !.overlap = @ \/ \E n \in Making : AtWork(n) \/ InItsTail(n),
                                  !.tookOver = @ \/ (row.long /\ \E n \in Making : AtWork(n))]
  <2> DEFINE m == CHOOSE n \in Unclaimed : \A o \in Unclaimed : n <= o
  <2>1. Unclaimed \in SUBSET Nat /\ Unclaimed # {}
      BY CopyConstants DEF Claim, Unclaimed, Making
  <2>2. \E n \in Unclaimed : \A o \in Unclaimed : n <= o
      BY <2>1, LeastNumber
  <2>3. m \in Unclaimed
      BY <2>2
  <2> HIDE DEF m
  <2>4. m \in Making /\ maker[m].at = "new"
      BY <2>3 DEF Unclaimed
  <2> QED BY <2>4 DEF Claim, m
<1>2. row.kept /\ Free /\ UNCHANGED <<ours, files, remover, process, answer>>
    BY DEF Claim
<1>3. /\ row' \in RowState /\ row'.kept = row.kept /\ row'.status = "making"
      /\ row'.runner = process /\ row'.file = row.file
    BY <1>0, <1>1 DEF CopyTypes, RowState
<1>4. /\ maker' \in [Making -> MakerState] /\ maker'[m].at = "read"
      /\ \A n \in Making : n # m => maker'[n] = maker[n]
    BY <1>0, <1>1, MakerGoes
<1>5. noted' \in [tookOver : BOOLEAN, freed : BOOLEAN, overlap : BOOLEAN, cut : BOOLEAN, cleared : BOOLEAN]
    BY <1>0, <1>1 DEF CopyTypes
<1>6. /\ noted'.overlap = (noted.overlap \/ \E n \in Making : AtWork(n) \/ InItsTail(n))
      /\ noted'.tookOver = (noted.tookOver \/ (row.long /\ \E n \in Making : AtWork(n)))
      /\ noted'.cut = noted.cut /\ noted'.cleared = noted.cleared /\ noted'.freed = noted.freed
    BY <1>0, <1>1 DEF CopyTypes
<1>7. noted'.overlap = FALSE => noted.overlap = FALSE /\ \A n \in Making : ~Active(n)
    BY <1>0, <1>6, Zenon DEF Active, CopyTypes
<1>8. noted'.tookOver = FALSE => noted.tookOver = FALSE /\ (~row.long \/ \A n \in Making : ~AtWork(n))
    BY <1>0, <1>6, Zenon DEF CopyTypes
<1>9. CopyTypes'
    BY <1>0, <1>2, <1>3, <1>4, <1>5 DEF CopyTypes
<1>10. ClaimedByOne'
  <2> SUFFICES ASSUME noted'.tookOver = FALSE, noted.freed = FALSE, NEW n \in Making, n # m
               PROVE  ~AtWork(n)'
      BY <1>2, <1>3, <1>6 DEF ClaimedByOne
  <2>1. AtWork(n)' => AtWork(n)
      BY <1>4 DEF AtWork
  <2>2. ASSUME AtWork(n), ~row.long PROVE FALSE
      BY <1>2, <1>8, <2>2 DEF CopyIsSound, ClaimedByOne, Free, RemovedInOrder
  <2> QED BY <1>8, <2>1, <2>2
<1>11. OneActive'
    BY <1>4, <1>7 DEF OneActive, Active, AtWork, InItsTail
<1>12. RemovedInOrder' /\ ReadyHasBeenMade'
    BY <1>2, <1>3 DEF CopyIsSound, RemovedInOrder, ReadyHasBeenMade
<1>13. Orderly' => FilesAreKept' /\ AnswerIsKept'
  <2> SUFFICES ASSUME Orderly' PROVE FilesAreKept' /\ AnswerIsKept'
      OBVIOUS
  <2>1. Orderly
      BY <1>3, <1>6, <1>7 DEF Orderly
  <2>2. \A n \in Making : /\ maker'[n].at \notin {"before", "swap", "look", "tidy"} \/ maker'[n] = maker[n]
                          /\ ~InItsTail(n)'
      BY <1>4, <1>7 DEF Orderly, Active, InItsTail
  <2> QED BY <1>2, <1>3, <2>1, <2>2 DEF CopyIsSound, FilesAreKept, AnswerIsKept, InItsTail
<1> QED BY <1>9, <1>10, <1>11, <1>12, <1>13 DEF CopyIsSound

\* A making that fails, at work or in its tail, whoever holds the row then.
LEMMA FailKeepsCopy ==
    ASSUME CopyIsSound, NEW m \in Making, Fail(m)
    PROVE  CopyIsSound'
<1>0. CopyTypes
    BY DEF CopyIsSound
<1>1. Active(m) /\ CopyFailed /\ End(m) /\ UNCHANGED <<ours, files, remover, process, answer>>
    BY DEF Fail, Active
<1>2. /\ row' \in RowState /\ row'.kept = row.kept /\ row'.file = row.file
      /\ row'.status = "ready" => row.file # NoFile \/ row.status = "ready"
    BY <1>0, <1>1 DEF CopyTypes, RowState, CopyFailed
<1>3. /\ maker' \in [Making -> MakerState] /\ maker'[m].at = "done"
      /\ \A n \in Making : n # m => maker'[n] = maker[n]
    BY <1>0, <1>1, MakerEnds
<1>4. noted' \in [tookOver : BOOLEAN, freed : BOOLEAN, overlap : BOOLEAN, cut : BOOLEAN, cleared : BOOLEAN]
    BY <1>0 DEF CopyTypes, Fail
<1>5. /\ noted'.overlap = noted.overlap /\ noted'.tookOver = noted.tookOver /\ noted'.cleared = noted.cleared
      /\ noted'.cut = (noted.cut \/ (m \in files /\ remover = "done"))
      /\ noted'.freed = (noted.freed \/ (InItsTail(m) /\ row.status = "making"))
    BY <1>0 DEF CopyTypes, Fail
<1>6. noted'.cut = FALSE => noted.cut = FALSE /\ (m \notin files \/ remover # "done")
    BY <1>0, <1>5, Zenon DEF CopyTypes
<1>7. noted'.freed = FALSE => noted.freed = FALSE /\ (AtWork(m) \/ row.status # "making")
    BY <1>0, <1>1, <1>5, Zenon DEF CopyTypes, Active
<1>8. CopyTypes'
    BY <1>0, <1>1, <1>2, <1>3, <1>4 DEF CopyTypes
<1>9. \A n \in Making : (AtWork(n)' => n # m /\ AtWork(n)) /\ (InItsTail(n)' => n # m /\ InItsTail(n))
    BY <1>3 DEF AtWork, InItsTail
<1>10. ClaimedByOne'
  <2> SUFFICES ASSUME noted'.tookOver = FALSE, noted'.freed = FALSE
               PROVE  /\ \A n, o \in Making : AtWork(n)' /\ AtWork(o)' => n = o
                      /\ \A n \in Making : row'.kept = TRUE => ~AtWork(n)'
      BY DEF ClaimedByOne
  <2>1. /\ \A n, o \in Making : AtWork(n) /\ AtWork(o) => n = o
        /\ \A n \in Making : row.kept = TRUE /\ AtWork(n) => row.status = "making"
      BY <1>5, <1>7 DEF CopyIsSound, ClaimedByOne
  <2> QED BY <1>2, <1>7, <1>9, <2>1
<1>11. OneActive' /\ ReadyHasBeenMade'
    BY <1>2, <1>5, <1>9 DEF CopyIsSound, OneActive, ReadyHasBeenMade, Active
<1>12. RemovedInOrder'
    BY <1>0, <1>1, <1>2, <1>3, <1>6 DEF CopyIsSound, CopyTypes, RemovedInOrder
<1>13. Orderly' => FilesAreKept' /\ AnswerIsKept'
    BY <1>1, <1>2, <1>3, <1>5, <1>9 DEF CopyIsSound, Orderly, FilesAreKept, AnswerIsKept
<1> QED BY <1>8, <1>10, <1>11, <1>12, <1>13 DEF CopyIsSound

\* The rows are read, the file is written.
LEMMA WriteKeepsCopy ==
    ASSUME CopyIsSound, NEW m \in Making, ReadRows(m) \/ WriteFile(m)
    PROVE  CopyIsSound'
<1>0. CopyTypes
    BY DEF CopyIsSound
<1>1. UNCHANGED <<row, ours, remover, process, answer, noted>>
    BY DEF ReadRows, WriteFile
<1>2. PICK at \in {"write", "before"} :
        /\ GoTo(m, at)
        /\ at = "write" => files' = files
        /\ at = "before" => files' = files \cup {m}
    BY DEF ReadRows, WriteFile
<1>3. AtWork(m) /\ maker[m].at \in {"read", "write"}
    BY DEF ReadRows, WriteFile, AtWork
<1>4. /\ maker' \in [Making -> MakerState] /\ maker'[m].at = at
      /\ \A n \in Making : n # m => maker'[n] = maker[n]
    BY <1>0, <1>2, MakerGoes
<1>5. CopyTypes'
    BY <1>0, <1>1, <1>2, <1>4 DEF CopyTypes
<1>6. \A n \in Making : (AtWork(n)' <=> AtWork(n)) /\ (InItsTail(n)' => n # m /\ InItsTail(n))
    BY <1>2, <1>3, <1>4 DEF AtWork, InItsTail
<1>7. ClaimedByOne' /\ OneActive' /\ ReadyHasBeenMade'
    BY <1>1, <1>6 DEF CopyIsSound, ClaimedByOne, OneActive, ReadyHasBeenMade, Active
<1>8. RemovedInOrder'
    BY <1>0, <1>1, <1>2, <1>3, <1>4 DEF CopyIsSound, CopyTypes, RemovedInOrder
<1>9. Orderly' => FilesAreKept' /\ AnswerIsKept'
    BY <1>1, <1>2, <1>4, <1>6 DEF CopyIsSound, Orderly, FilesAreKept, AnswerIsKept
<1> QED BY <1>5, <1>7, <1>8, <1>9 DEF CopyIsSound

\* The old file a making notes is the row's.
LEMMA SeeOldKeepsCopy ==
    ASSUME CopyIsSound, NEW m \in Making, SeeOld(m)
    PROVE  CopyIsSound'
<1>0. CopyTypes
    BY DEF CopyIsSound
<1>1. UNCHANGED <<row, ours, files, remover, process, answer, noted>> /\ maker[m].at = "before"
    BY DEF SeeOld
<1>2. /\ maker' \in [Making -> MakerState] /\ maker'[m].at = "swap"
      /\ row.kept => maker'[m].old = row.file
      /\ \A n \in Making : n # m => maker'[n] = maker[n]
    BY <1>0 DEF SeeOld, CopyTypes, RowState, MakerState
<1>3. CopyTypes'
    BY <1>0, <1>1, <1>2 DEF CopyTypes
<1>4. \A n \in Making : (AtWork(n)' <=> AtWork(n)) /\ (InItsTail(n)' <=> n # m /\ InItsTail(n))
    BY <1>1, <1>2 DEF AtWork, InItsTail
<1>5. ClaimedByOne' /\ OneActive' /\ ReadyHasBeenMade'
    BY <1>1, <1>4 DEF CopyIsSound, ClaimedByOne, OneActive, ReadyHasBeenMade, Active
<1>6. RemovedInOrder'
    BY <1>0, <1>1, <1>2 DEF CopyIsSound, CopyTypes, RemovedInOrder
<1>7. Orderly' => FilesAreKept' /\ AnswerIsKept'
    BY <1>1, <1>2, <1>4 DEF CopyIsSound, Orderly, FilesAreKept, AnswerIsKept
<1> QED BY <1>3, <1>5, <1>6, <1>7 DEF CopyIsSound

\* The row turns from the old file to the new; an answer under way is one swap behind.
LEMMA SwapKeepsCopy ==
    ASSUME CopyIsSound, NEW m \in Making, Swap(m)
    PROVE  CopyIsSound'
<1>0. CopyTypes
    BY DEF CopyIsSound
<1>1. /\ UNCHANGED <<ours, files, remover, process, noted>> /\ maker[m].at = "swap" /\ GoTo(m, "look")
      /\ answer' = IF answer.file # NoFile /\ answer.swaps < 2 THEN [answer EXCEPT !.swaps = @ + 1] ELSE answer
    BY DEF Swap
<1>2. /\ row' \in RowState /\ row'.kept = row.kept
      /\ row.kept = TRUE => row'.file = m
      /\ row.kept = FALSE => row' = row
  <2>1. m # NoFile /\ m \in Making \cup {NoFile}
      BY CopyConstants DEF Making, NoFile
  <2> QED BY <1>0, <2>1 DEF CopyTypes, RowState, Swap
<1>3. /\ maker' \in [Making -> MakerState] /\ maker'[m].at = "look" /\ maker'[m].old = maker[m].old
      /\ \A n \in Making : n # m => maker'[n] = maker[n]
    BY <1>0, <1>1, MakerGoes
<1>4. /\ answer' \in AnswerState /\ answer'.file = answer.file
      /\ answer'.swaps = 0 => answer.file = NoFile
      /\ answer'.swaps = 1 /\ answer.file # NoFile => answer.swaps = 0
    BY <1>0, <1>1 DEF CopyTypes, AnswerState
<1>5. CopyTypes'
    BY <1>0, <1>1, <1>2, <1>3, <1>4 DEF CopyTypes
<1>6. /\ \A n \in Making : (AtWork(n)' <=> n # m /\ AtWork(n)) /\ (InItsTail(n)' <=> n = m \/ InItsTail(n))
      /\ AtWork(m)
    BY <1>1, <1>3 DEF AtWork, InItsTail
<1>7. ClaimedByOne'
    BY <1>1, <1>2, <1>6 DEF CopyIsSound, ClaimedByOne
<1>8. OneActive'
    BY <1>1, <1>6 DEF CopyIsSound, OneActive, Active
<1>9. ReadyHasBeenMade'
  <2>1. m # NoFile
      BY CopyConstants DEF Making, NoFile
  <2> QED BY <1>0, <1>2, <2>1 DEF CopyIsSound, ReadyHasBeenMade, CopyTypes, RowState
<1>10. RemovedInOrder'
    BY <1>0, <1>1, <1>2, <1>3 DEF CopyIsSound, CopyTypes, RemovedInOrder
<1>11. Orderly' => FilesAreKept' /\ AnswerIsKept'
  <2> SUFFICES ASSUME Orderly' PROVE FilesAreKept' /\ AnswerIsKept'
      OBVIOUS
  <2>1. Orderly /\ row'.file = m /\ FilesAreKept /\ AnswerIsKept
      BY <1>1, <1>2 DEF Orderly, CopyIsSound
  <2>2. \A n \in Making : Active(n) => n = m
      BY <1>6, <2>1 DEF CopyIsSound, OneActive, Active, Orderly
  <2>3. m \in files /\ maker[m].old = row.file
      BY <1>1, <2>1 DEF FilesAreKept
  <2>4. FilesAreKept'
      BY <1>1, <1>3, <1>6, <2>1, <2>2, <2>3 DEF FilesAreKept, Active, AtWork, InItsTail
  <2>5. AnswerIsKept'
      BY <1>1, <1>3, <1>4, <1>6, <2>1, <2>2, <2>3 DEF FilesAreKept, AnswerIsKept, Active
  <2> QED BY <2>4, <2>5
<1> QED BY <1>5, <1>7, <1>8, <1>9, <1>10, <1>11 DEF CopyIsSound

\* What a making does of its own files once its row is updated.
LEMMA TailKeepsCopy ==
    ASSUME CopyIsSound, NEW m \in Making, LookAgain(m) \/ Tidy(m)
    PROVE  CopyIsSound'
<1>0. CopyTypes
    BY DEF CopyIsSound
<1>1. UNCHANGED <<row, ours, remover, process, answer, noted>> /\ InItsTail(m)
    BY DEF LookAgain, Tidy, InItsTail
<1>2. \/ maker[m].at = "look" /\ row.kept = TRUE /\ GoTo(m, "tidy") /\ files' = files
      \/ maker[m].at = "look" /\ row.kept = FALSE /\ End(m) /\ files' = files \ {m}
      \/ maker[m].at = "tidy" /\ End(m) /\ files' = files \cap {m, maker[m].old}
    BY <1>0 DEF LookAgain, Tidy, CopyTypes, RowState
<1>3. /\ maker' \in [Making -> MakerState] /\ files' \subseteq files
      /\ maker'[m].at \in {"tidy", "done"}
      /\ maker'[m].at = "tidy" => maker'[m].old = maker[m].old /\ files' = files
      /\ \A n \in Making : n # m => maker'[n] = maker[n]
    BY <1>0, <1>2, MakerGoes, MakerEnds
<1>4. CopyTypes'
    BY <1>0, <1>1, <1>3 DEF CopyTypes
<1>5. /\ \A n \in Making : (AtWork(n)' <=> AtWork(n)) /\ (InItsTail(n)' => InItsTail(n))
      /\ ~AtWork(m)
    BY <1>1, <1>3 DEF AtWork, InItsTail
<1>6. ClaimedByOne' /\ OneActive' /\ ReadyHasBeenMade'
    BY <1>1, <1>5 DEF CopyIsSound, ClaimedByOne, OneActive, ReadyHasBeenMade, Active
<1>7. RemovedInOrder'
  <2>1. ASSUME row.kept = FALSE, remover = "done", noted.cut = FALSE PROVE m \notin files'
      BY <1>2, <2>1 DEF CopyIsSound, RemovedInOrder
  <2> QED BY <1>0, <1>1, <1>3, <2>1 DEF CopyIsSound, CopyTypes, RemovedInOrder
<1>8. Orderly' => FilesAreKept' /\ AnswerIsKept'
  <2> SUFFICES ASSUME Orderly' PROVE FilesAreKept' /\ AnswerIsKept'
      OBVIOUS
  <2>1. Orderly /\ FilesAreKept /\ AnswerIsKept
      BY <1>1 DEF Orderly, CopyIsSound
  <2>2. \A n \in Making : Active(n) => n = m
      BY <1>1, <2>1 DEF CopyIsSound, OneActive, Active, Orderly
  <2>3. row.file = m /\ m \in files
      BY <1>1, <2>1 DEF FilesAreKept, InItsTail
  <2>4. CASE maker'[m].at = "tidy"
      BY <1>1, <1>3, <1>5, <2>1, <2>3, <2>4 DEF FilesAreKept, AnswerIsKept
  <2>5. CASE maker'[m].at = "done"
    <3>1. maker[m].at = "tidy" /\ files' = files \cap {m, maker[m].old}
        BY <1>0, <1>2, <2>1, <2>5, MakerGoes DEF Orderly
    <3>2. \A n \in Making : maker'[n].at \notin {"before", "swap", "look", "tidy"} /\ ~InItsTail(n)'
        BY <1>3, <2>2, <2>5 DEF Active, AtWork, InItsTail
    <3> QED BY <1>1, <2>1, <2>3, <3>1, <3>2 DEF FilesAreKept, AnswerIsKept
  <2> QED BY <1>3, <2>4, <2>5
<1> QED BY <1>4, <1>6, <1>7, <1>8 DEF CopyIsSound

\* The workspace's database: another one, and the files deleted for it.
LEMMA DatabaseKeepsCopy == CopyIsSound /\ (ClearFiles \/ SwitchDatabase) => CopyIsSound'
<1> SUFFICES ASSUME CopyIsSound, ClearFiles \/ SwitchDatabase PROVE CopyIsSound'
    OBVIOUS
<1>0. CopyTypes
    BY DEF CopyIsSound
<1>1. UNCHANGED <<row, maker, remover, process, answer>> /\ ours' \in BOOLEAN
    BY <1>0 DEF ClearFiles, SwitchDatabase, CopyTypes
<1>2. CASE SwitchDatabase
    BY <1>0, <1>1, <1>2 DEF SwitchDatabase, CopyIsSound, CopyTypes, ClaimedByOne, RemovedInOrder, OneActive,
       ReadyHasBeenMade, Orderly, FilesAreKept, AnswerIsKept, Active, AtWork, InItsTail
<1>3. CASE ClearFiles
  <2>1. /\ files' = {} /\ row.kept = TRUE
        /\ noted' \in [tookOver : BOOLEAN, freed : BOOLEAN, overlap : BOOLEAN, cut : BOOLEAN, cleared : BOOLEAN]
        /\ noted'.overlap = noted.overlap /\ noted'.tookOver = noted.tookOver /\ noted'.cleared = TRUE
        /\ noted'.cut = noted.cut /\ noted'.freed = noted.freed
      BY <1>0, <1>3 DEF ClearFiles, CopyTypes, RowState
  <2>2. CopyTypes'
      BY <1>0, <1>1, <2>1 DEF CopyTypes
  <2> QED BY <1>1, <2>1, <2>2 DEF CopyIsSound, ClaimedByOne, RemovedInOrder, OneActive, ReadyHasBeenMade, Orderly,
             Active, AtWork, InItsTail
<1> QED BY <1>2, <1>3

\* The row goes before the files.
LEMMA RemoveKeepsCopy == CopyIsSound /\ (RemoveRow \/ RemoveFiles) => CopyIsSound'
<1> SUFFICES ASSUME CopyIsSound, RemoveRow \/ RemoveFiles PROVE CopyIsSound'
    OBVIOUS
<1>0. CopyTypes
    BY DEF CopyIsSound
<1>1. UNCHANGED <<ours, maker, process, answer, noted>>
    BY DEF RemoveRow, RemoveFiles
<1>2. CASE RemoveRow
  <2>1. /\ row' \in RowState /\ row'.kept = FALSE /\ row'.status = "new"
        /\ files' = files /\ remover' = "files"
      BY <1>0, <1>2 DEF RemoveRow, CopyTypes, RowState
  <2>2. CopyTypes'
      BY <1>0, <1>1, <2>1 DEF CopyTypes
  <2> QED BY <1>1, <2>1, <2>2 DEF CopyIsSound, ClaimedByOne, RemovedInOrder, OneActive, ReadyHasBeenMade, Orderly,
             Active, AtWork, InItsTail
<1>3. CASE RemoveFiles
  <2>1. row' = row /\ files' = {} /\ remover = "files" /\ remover' = "done"
      BY <1>3 DEF RemoveFiles
  <2>2. CopyTypes'
      BY <1>0, <1>1, <2>1 DEF CopyTypes
  <2>3. row.kept # TRUE
      BY <2>1 DEF CopyIsSound, RemovedInOrder
  <2> QED BY <1>1, <2>1, <2>2, <2>3 DEF CopyIsSound, ClaimedByOne, RemovedInOrder, OneActive, ReadyHasBeenMade,
             Orderly, Active, AtWork, InItsTail
<1> QED BY <1>2, <1>3

\* Whatever was under way ends; files of a copy taken out that are still there stay.
LEMMA RestartKeepsCopy == CopyIsSound /\ RestartService => CopyIsSound'
<1> SUFFICES ASSUME CopyIsSound, RestartService PROVE CopyIsSound'
    OBVIOUS
<1>0. CopyTypes
    BY DEF CopyIsSound
<1>1. /\ UNCHANGED <<row, ours, files>> /\ answer' = NoAnswer
      /\ remover' = IF remover = "files" THEN "done" ELSE remover
    BY DEF RestartService
<1>2. process' \in Process
    BY <1>0, CopyConstants DEF RestartService, CopyTypes, Process
<1>3. /\ maker' \in [Making -> MakerState]
      /\ \A m \in Making : maker'[m].at \in {"new", "done"}
    BY <1>0 DEF RestartService, CopyTypes, MakerState
<1>4. /\ noted' \in [tookOver : BOOLEAN, freed : BOOLEAN, overlap : BOOLEAN, cut : BOOLEAN, cleared : BOOLEAN]
      /\ noted'.cut = (noted.cut \/ (~row.kept /\ files # {}))
      /\ noted'.overlap = noted.overlap /\ noted'.cleared = noted.cleared
    BY <1>0 DEF RestartService, CopyTypes
<1>5. noted'.cut = FALSE => row.kept \/ files = {}
    BY <1>4, Zenon
<1>6. CopyTypes'
    BY <1>0, <1>1, <1>2, <1>3, <1>4 DEF CopyTypes, NoAnswer, AnswerState
<1>7. \A m \in Making : ~AtWork(m)' /\ ~InItsTail(m)'
    BY <1>3 DEF AtWork, InItsTail
<1>8. ClaimedByOne' /\ OneActive' /\ ReadyHasBeenMade'
    BY <1>1, <1>7 DEF CopyIsSound, ClaimedByOne, OneActive, ReadyHasBeenMade, Active
<1>9. RemovedInOrder'
    BY <1>1, <1>5 DEF CopyIsSound, RemovedInOrder
<1>10. Orderly' => FilesAreKept' /\ AnswerIsKept'
    BY <1>1, <1>3, <1>4, <1>7 DEF CopyIsSound, Orderly, FilesAreKept, AnswerIsKept, NoAnswer
<1> QED BY <1>6, <1>8, <1>9, <1>10 DEF CopyIsSound

\* An answer lists the row's file, which is there.
LEMMA AnswerKeepsCopy == CopyIsSound /\ (ListReady \/ EndAnswer) => CopyIsSound'
<1> SUFFICES ASSUME CopyIsSound, ListReady \/ EndAnswer PROVE CopyIsSound'
    OBVIOUS
<1>0. CopyTypes
    BY DEF CopyIsSound
<1>1. UNCHANGED <<row, ours, files, maker, remover, process, noted>>
    BY DEF ListReady, EndAnswer
<1>2. /\ answer' \in AnswerState /\ answer'.swaps = 0
      /\ answer'.file = NoFile \/ answer'.file = row.file
    BY <1>0 DEF ListReady, EndAnswer, NoAnswer, CopyTypes, RowState, AnswerState
<1>3. CopyTypes'
    BY <1>0, <1>1, <1>2 DEF CopyTypes
<1>4. ClaimedByOne' /\ RemovedInOrder' /\ OneActive' /\ ReadyHasBeenMade'
    BY <1>1 DEF CopyIsSound, ClaimedByOne, RemovedInOrder, OneActive, ReadyHasBeenMade, AtWork, InItsTail, Active
<1>5. Orderly' => FilesAreKept' /\ AnswerIsKept'
    BY <1>1, <1>2 DEF CopyIsSound, Orderly, FilesAreKept, AnswerIsKept, InItsTail
<1> QED BY <1>3, <1>4, <1>5 DEF CopyIsSound

\* Every step keeps it.
LEMMA CopyKeepsSound == CopyIsSound /\ [CopyNext]_copyVars => CopyIsSound'
<1> SUFFICES ASSUME CopyIsSound, [CopyNext]_copyVars PROVE CopyIsSound'
    OBVIOUS
<1>1. ASSUME NEW m \in Making, MakerStep(m) PROVE CopyIsSound'
    BY <1>1, FailKeepsCopy, WriteKeepsCopy, SeeOldKeepsCopy, SwapKeepsCopy, TailKeepsCopy DEF MakerStep
<1>2. CASE RunDue \/ MakeNow
    BY <1>2, ClaimKeepsCopy DEF RunDue, MakeNow
<1>3. CASE UNCHANGED copyVars
    BY <1>3 DEF copyVars, CopyIsSound, CopyTypes, ClaimedByOne, RemovedInOrder, OneActive, ReadyHasBeenMade,
       Orderly, FilesAreKept, AnswerIsKept, Active, AtWork, InItsTail
<1> QED BY <1>1, <1>2, <1>3, TimePassesKeepsCopy, DatabaseKeepsCopy, RemoveKeepsCopy, RestartKeepsCopy,
           AnswerKeepsCopy DEF CopyNext

-----------------------------------------------------------------------------
(***************************************************************************)
(* The theorems                                                             *)
(***************************************************************************)

\* However many makings and restarts there are.
THEOREM CopyStaysSound == CopySpec => []CopyIsSound
<1> QED BY CopyStartsSound, CopyKeepsSound, PTL DEF CopySpec

\* Two at work would both have claimed the row.
LEMMA SoundCopyIsOneMaking == CopyIsSound => OneMaking
<1> QED BY Zenon DEF CopyIsSound, CopyTypes, ClaimedByOne, OneMaking

\* Two makings of the copy are at work at once only after a takeover, or after one that failed in
\* its tail freed the row the next one had claimed (store/core2_store.py:946).
THEOREM OneMakingStays == CopySpec => []OneMaking
<1> QED BY CopyStaysSound, SoundCopyIsOneMaking, PTL

\* A file that is left would be of a making that is to look again.
LEMMA SoundCopyLeavesNothing == CopyIsSound => NothingStays
<1> SUFFICES ASSUME CopyIsSound, ~row.kept, remover = "done", ~noted.cut,
                    \A m \in Making : maker[m].at \in {"new", "done"}, NEW f \in files
             PROVE  FALSE
    BY DEF NothingStays
<1>1. row.kept = FALSE /\ noted.cut = FALSE
    BY Zenon DEF CopyIsSound, CopyTypes, RowState
<1> QED BY <1>1 DEF CopyIsSound, RemovedInOrder, CopyTypes

\* Once a copy is taken out and no making of it is under way, none of its files is left, unless
\* the service stopped before, or a making that had written its file failed after (core2/copies.py:132).
THEOREM NothingEverStays == CopySpec => []NothingStays
<1> QED BY SoundCopyLeavesNothing, CopyStaysSound, PTL

\* The row's file is among the files.
LEMMA SoundCopyHasItsFile == CopyIsSound => ReadyHasItsFile
<1> SUFFICES ASSUME CopyIsSound, row.kept, row.status = "ready", ~noted.overlap, ~noted.cleared
             PROVE  row.file \in files
    BY DEF ReadyHasItsFile
<1>1. Orderly
    BY Zenon DEF CopyIsSound, CopyTypes, RowState, Orderly
<1> QED BY <1>1 DEF CopyIsSound, ReadyHasBeenMade, FilesAreKept

\* The file of a copy that is ready is on the server.
THEOREM ReadyKeepsItsFile == CopySpec => []ReadyHasItsFile
<1> QED BY SoundCopyHasItsFile, CopyStaysSound, PTL

\* An answer's file is the row's or the one before.
LEMMA SoundCopyIsReadable == CopyIsSound => StillReadable
<1> SUFFICES ASSUME CopyIsSound, answer.file \notin files \cup {NoFile}, answer.swaps # 2, row.kept,
                    ~noted.cleared, ~noted.overlap
             PROVE  FALSE
    BY DEF StillReadable
<1>1. Orderly
    BY Zenon DEF CopyIsSound, CopyTypes, RowState, Orderly
<1>2. answer.swaps \in {0, 1}
    BY <1>1 DEF CopyIsSound, CopyTypes, AnswerState
<1> QED BY <1>1, <1>2 DEF CopyIsSound, FilesAreKept, AnswerIsKept

\* An answer that listed a file still reads it (core2/copies.py:134), until a second making.
THEOREM ListedStaysReadable == CopySpec => []StillReadable
<1> QED BY SoundCopyIsReadable, CopyStaysSound, PTL

-----------------------------------------------------------------------------
(***************************************************************************)
(* AnswersCheck: the inductive invariant                                    *)
(***************************************************************************)

NoNewer(stamp) == stamp # None => stamp.version <= model.version

\* A Learn's version is one that nothing was drawn from before.
NoneIsNewer ==
    /\ NoNewer(whole)
    /\ \A q \in Question : NoNewer(result[q])
    /\ \A w \in Worker : NoNewer(worker[w].stamp) /\ NoNewer(worker[w].drawn)

AnswerInHand ==
    \A w \in Worker : worker[w].at = "store" => worker[w].next \in worker[w].only /\ worker[w].drawn # None

\* The run that counts has no old answer in hand where its stamp, or the last one's, is the model's.
DrawsAsOfNow ==
    shaken.back = FALSE =>
        \A w \in Worker :
            Minds(w) /\ worker[w].at = "store" /\ (worker[w].stamp = model \/ whole = model) =>
                worker[w].drawn = model

Steady == shaken.back = FALSE /\ shaken.late = FALSE
OfNow(q) == result[q] \in {None, model}

\* What the run that counts has done of every question...
RunChecks ==
    Steady =>
        \A w \in Worker :
            Minds(w) /\ worker[w].at \in {"ask", "store"} /\ worker[w].every = TRUE /\ worker[w].stamp = model =>
                \A q \in questions \ worker[w].only : OfNow(q)

\* ...is what holds of them once it is done.
WholeIsChecked == Steady /\ whole = model => \A q \in questions : OfNow(q)

AnswersAreSound ==
    /\ AnswersTypes
    /\ NoneIsNewer
    /\ AnswerInHand
    /\ DrawsAsOfNow
    /\ RunChecks
    /\ WholeIsChecked

-----------------------------------------------------------------------------

\* The states a run goes through have their type.
LEMMA WorkerTypes ==
    /\ Off \in WorkerState
    /\ \A only \in SUBSET Question, every \in BOOLEAN :
          [Off EXCEPT !.at = "start", !.only = only, !.every = every] \in WorkerState
    /\ \A s \in WorkerState, stamp \in Stamp : [s EXCEPT !.at = "claim", !.stamp = stamp] \in WorkerState
    /\ \A s \in WorkerState : [s EXCEPT !.at = "begin"] \in WorkerState
    /\ \A s \in WorkerState, only \in SUBSET Question : [s EXCEPT !.at = "ask", !.only = only] \in WorkerState
    /\ \A s \in WorkerState, q \in Question, stamp \in Stamp :
          [s EXCEPT !.at = "store", !.next = q, !.drawn = stamp] \in WorkerState
    /\ \A s \in WorkerState, only \in SUBSET Question :
          [s EXCEPT !.at = "ask", !.only = only, !.next = None, !.drawn = None] \in WorkerState
<1>1. Off \in WorkerState
    BY DEF Off, WorkerState
<1>2. \A only \in SUBSET Question, every \in BOOLEAN :
        [Off EXCEPT !.at = "start", !.only = only, !.every = every] \in WorkerState
    BY DEF Off, WorkerState
<1>3. \A s \in WorkerState, stamp \in Stamp : [s EXCEPT !.at = "claim", !.stamp = stamp] \in WorkerState
    BY DEF WorkerState
<1>4. \A s \in WorkerState : [s EXCEPT !.at = "begin"] \in WorkerState
    BY DEF WorkerState
<1>5. \A s \in WorkerState, only \in SUBSET Question : [s EXCEPT !.at = "ask", !.only = only] \in WorkerState
    BY DEF WorkerState
<1>6. \A s \in WorkerState, q \in Question, stamp \in Stamp :
        [s EXCEPT !.at = "store", !.next = q, !.drawn = stamp] \in WorkerState
    BY DEF WorkerState
<1>7. \A s \in WorkerState, only \in SUBSET Question :
        [s EXCEPT !.at = "ask", !.only = only, !.next = None, !.drawn = None] \in WorkerState
    BY DEF WorkerState
<1> QED BY <1>1, <1>2, <1>3, <1>4, <1>5, <1>6, <1>7

\* A run that goes on moves alone.
LEMMA OneWorkerGoes ==
    ASSUME AnswersTypes, NEW w \in Worker, NEW fields \in WorkerState, To(w, fields)
    PROVE  /\ worker' \in [Worker -> WorkerState]
           /\ worker'[w] = fields
           /\ \A x \in Worker : x # w => worker'[x] = worker[x]
<1> QED BY DEF AnswersTypes, To

\* Letting a run go leaves it, or none.
LEMMA ReleasedTypes ==
    ASSUME AnswersTypes
    PROVE  /\ Released \in {running, None}
           /\ Released \in [by : Worker, gone : BOOLEAN, old : BOOLEAN] \cup {None}
<1> QED BY DEF AnswersTypes, Released

\* Nothing is checked at first.
LEMMA AnswersStartSound == AnswersInit => AnswersAreSound
<1> SUFFICES ASSUME AnswersInit PROVE AnswersAreSound
    OBVIOUS
<1>1. worker \in [Worker -> WorkerState] /\ \A w \in Worker : worker[w] = Off
    BY WorkerTypes DEF AnswersInit
<1>2. model \in Stamp
    BY DEF AnswersInit, Stamp
<1>3. AnswersTypes
  <2>1. events \in 0 .. MaxEvents
      BY AnswersConstants DEF AnswersInit
  <2>2. result \in [Question -> Stamp \cup {None}]
      BY DEF AnswersInit
  <2>3. shaken \in [back : BOOLEAN, late : BOOLEAN]
      BY DEF AnswersInit
  <2> QED BY <1>1, <1>2, <2>1, <2>2, <2>3 DEF AnswersInit, AnswersTypes
<1>4. NoneIsNewer /\ AnswerInHand /\ DrawsAsOfNow /\ RunChecks /\ WholeIsChecked
    BY <1>1 DEF AnswersInit, Off, NoneIsNewer, NoNewer, AnswerInHand, DrawsAsOfNow, RunChecks, WholeIsChecked, OfNow
<1> QED BY <1>3, <1>4 DEF AnswersAreSound

\* A step that stores no result, leaves model and stamp as they are, and takes no run further
\* than to its beginning.
LEMMA NothingStored ==
    ASSUME AnswersAreSound, AnswersTypes', UNCHANGED <<model, result, whole, shaken>>, questions' \subseteq questions,
           \A x \in Worker :
              \/ worker'[x] = worker[x] /\ (Minds(x)' => Minds(x))
              \/ worker'[x].at \notin {"ask", "store"} /\ worker'[x].drawn \in {None, worker[x].drawn}
                 /\ worker'[x].stamp \in {None, model, worker[x].stamp}
    PROVE  AnswersAreSound'
<1>1. model.version \in Nat
    BY DEF AnswersAreSound, AnswersTypes, Stamp
<1>2. NoneIsNewer'
    BY <1>1 DEF AnswersAreSound, NoneIsNewer, NoNewer
<1>3. AnswerInHand' /\ DrawsAsOfNow'
    BY DEF AnswersAreSound, AnswerInHand, DrawsAsOfNow
<1>4. RunChecks' /\ WholeIsChecked'
    BY DEF AnswersAreSound, RunChecks, WholeIsChecked, Steady, OfNow
<1> QED BY <1>2, <1>3, <1>4 DEF AnswersAreSound

\* The pass starts a run of all questions, or of those never asked.
LEMMA DueKeepsAnswers ==
    ASSUME AnswersAreSound, NEW w \in Worker, Due(w)
    PROVE  AnswersAreSound'
<1>0. AnswersTypes
    BY DEF AnswersAreSound
<1>1. /\ UNCHANGED <<model, learning, questions, result, whole, busy, events, shaken>>
      /\ running' = Released /\ worker[w].at = "idle"
    BY DEF Due
<1>2. worker' = worker \/ \E only \in SUBSET Question, every \in BOOLEAN : Checks(w, only, every)
  <2>1. questions \in SUBSET Question /\ Fresh \in SUBSET Question
      BY <1>0 DEF AnswersTypes, Fresh
  <2>2. (worker' = worker) \/ Checks(w, questions, TRUE) \/ Checks(w, Fresh, FALSE)
      BY DEF Due, Plan
  <2> QED BY <2>1, <2>2
<1>2a. noticed' \in [digest : Digest, settled : BOOLEAN] \cup {None}
  <2>1. noticed' \in {noticed, None, [digest |-> model.digest, settled |-> FALSE]}
      BY DEF Due, Plan
  <2>2. model.digest \in Digest
      BY <1>0 DEF AnswersTypes, Stamp
  <2>3. [digest |-> model.digest, settled |-> FALSE] \in [digest : Digest, settled : BOOLEAN]
      BY <2>2
  <2>4. noticed \in [digest : Digest, settled : BOOLEAN] \cup {None}
      BY <1>0 DEF AnswersTypes
  <2> QED BY <2>1, <2>3, <2>4, Zenon
<1>3. /\ worker' \in [Worker -> WorkerState]
      /\ \A x \in Worker :
            \/ worker'[x] = worker[x]
            \/ worker'[x].at = "start" /\ worker'[x].drawn = None /\ worker'[x].stamp = None
  <2>1. ASSUME NEW only \in SUBSET Question, NEW every \in BOOLEAN, Checks(w, only, every)
        PROVE  /\ worker' \in [Worker -> WorkerState]
               /\ \A x \in Worker : x # w => worker'[x] = worker[x]
               /\ worker'[w].at = "start" /\ worker'[w].drawn = None /\ worker'[w].stamp = None
    <3> DEFINE fields == [Off EXCEPT !.at = "start", !.only = only, !.every = every]
    <3>1. fields \in WorkerState
        BY WorkerTypes
    <3>2. fields.at = "start" /\ fields.drawn = None /\ fields.stamp = None
        BY DEF Off
    <3>3. To(w, fields)
        BY <2>1 DEF Checks
    <3> HIDE DEF fields
    <3> QED BY <1>0, <3>1, <3>2, <3>3, OneWorkerGoes
  <2> QED BY <1>0, <1>2, <2>1 DEF AnswersTypes
<1>4. AnswersTypes'
    BY <1>0, <1>1, <1>2a, <1>3, ReleasedTypes DEF AnswersTypes
<1>5. \A x \in Worker : Minds(x)' => Minds(x)
    BY <1>0, <1>1, ReleasedTypes DEF Minds
<1> QED BY <1>1, <1>3, <1>4, <1>5, NothingStored

\* Asking by hand starts a run, too.
LEMMA AskNowKeepsAnswers ==
    ASSUME AnswersAreSound, NEW w \in Worker, AskNow(w)
    PROVE  AnswersAreSound'
<1>0. AnswersTypes
    BY DEF AnswersAreSound
<1>1. /\ UNCHANGED <<model, learning, questions, result, running, whole, noticed, busy, shaken>>
      /\ events' \in 0 .. MaxEvents
    BY <1>0, AnswersConstants DEF AskNow, AnswersTypes
<1>2. PICK only \in SUBSET Question, every \in BOOLEAN : Checks(w, only, every)
    BY <1>0 DEF AskNow, AnswersTypes
<1> DEFINE fields == [Off EXCEPT !.at = "start", !.only = only, !.every = every]
<1>3. fields \in WorkerState
    BY WorkerTypes
<1>4. fields.at = "start" /\ fields.drawn = None /\ fields.stamp = None
    BY DEF Off
<1>5. To(w, fields)
    BY <1>2 DEF Checks
<1> HIDE DEF fields
<1>6. /\ worker' \in [Worker -> WorkerState] /\ worker'[w] = fields
      /\ \A x \in Worker : x # w => worker'[x] = worker[x]
    BY <1>0, <1>3, <1>5, OneWorkerGoes
<1>7. AnswersTypes'
    BY <1>0, <1>1, <1>6 DEF AnswersTypes
<1> QED BY <1>1, <1>4, <1>6, <1>7, NothingStored DEF Minds

\* The stamp is read, the run claimed.
LEMMA ClaimKeepsAnswers ==
    ASSUME AnswersAreSound, NEW w \in Worker, ReadStamp(w) \/ ClaimRun(w)
    PROVE  AnswersAreSound'
<1>0. AnswersTypes /\ worker[w] \in WorkerState /\ model \in Stamp
    BY DEF AnswersAreSound, AnswersTypes
<1>1. UNCHANGED <<model, learning, questions, result, whole, noticed, busy, events, shaken>>
    BY DEF ReadStamp, ClaimRun
<1>2. PICK fields \in WorkerState :
        /\ To(w, fields) /\ fields.at \in {"idle", "claim", "begin"}
        /\ fields.drawn \in {None, worker[w].drawn} /\ fields.stamp \in {None, model, worker[w].stamp}
  <2>1. Off \in WorkerState /\ Off.at = "idle" /\ Off.drawn = None /\ Off.stamp = None
      BY WorkerTypes DEF Off
  <2>2. CASE ReadStamp(w)
    <3> DEFINE reads == [worker[w] EXCEPT !.at = "claim", !.stamp = model]
    <3>1. reads \in WorkerState
        BY <1>0, WorkerTypes
    <3>2. reads.at = "claim" /\ reads.drawn = worker[w].drawn /\ reads.stamp = model
        BY <1>0 DEF WorkerState
    <3>3. To(w, Off) \/ To(w, reads)
        BY <2>2 DEF ReadStamp
    <3> HIDE DEF reads
    <3> QED BY <2>1, <3>1, <3>2, <3>3
  <2>3. CASE ClaimRun(w)
    <3> DEFINE begins == [worker[w] EXCEPT !.at = "begin"]
    <3>1. begins \in WorkerState
        BY <1>0, WorkerTypes
    <3>2. begins.at = "begin" /\ begins.drawn = worker[w].drawn /\ begins.stamp = worker[w].stamp
        BY <1>0 DEF WorkerState
    <3>3. To(w, Off) \/ To(w, begins)
        BY <2>3 DEF ClaimRun
    <3> HIDE DEF begins
    <3> QED BY <2>1, <3>1, <3>2, <3>3
  <2> QED BY <2>2, <2>3
<1>3. /\ worker' \in [Worker -> WorkerState] /\ worker'[w] = fields
      /\ \A x \in Worker : x # w => worker'[x] = worker[x]
    BY <1>0, <1>2, OneWorkerGoes
<1>3a. running' \in {running, None, [by |-> w, gone |-> FALSE, old |-> FALSE]}
    BY <1>0, ReleasedTypes DEF ReadStamp, ClaimRun
<1>4. running' \in [by : Worker, gone : BOOLEAN, old : BOOLEAN] \cup {None}
  <2>1. [by |-> w, gone |-> FALSE, old |-> FALSE] \in [by : Worker, gone : BOOLEAN, old : BOOLEAN]
      OBVIOUS
  <2>2. running \in [by : Worker, gone : BOOLEAN, old : BOOLEAN] \cup {None}
      BY <1>0 DEF AnswersTypes
  <2> QED BY <1>3a, <2>1, <2>2, Zenon
<1>5. \A x \in Worker : x # w /\ Minds(x)' => Minds(x)
    BY <1>3a DEF Minds
<1>6. AnswersTypes'
    BY <1>0, <1>1, <1>3, <1>4 DEF AnswersTypes
<1> QED BY <1>1, <1>2, <1>3, <1>5, <1>6, NothingStored

\* A thread ends, and perhaps its run.
LEMMA ThreadEndsKeepsAnswers ==
    ASSUME AnswersAreSound, NEW w \in Worker, To(w, Off), running' \in {running, None},
           UNCHANGED <<model, learning, questions, result, whole, noticed, shaken>>,
           busy' \in BOOLEAN, events' \in 0 .. MaxEvents
    PROVE  AnswersAreSound'
<1>0. AnswersTypes
    BY DEF AnswersAreSound
<1>1. /\ worker' \in [Worker -> WorkerState] /\ worker'[w] = Off
      /\ \A x \in Worker : x # w => worker'[x] = worker[x]
    BY <1>0, OneWorkerGoes, WorkerTypes
<1>2. AnswersTypes'
    BY <1>0, <1>1 DEF AnswersTypes
<1>3. \A x \in Worker : Minds(x)' => Minds(x)
    BY DEF Minds
<1>4. Off.at = "idle" /\ Off.drawn = None /\ Off.stamp = None
    BY DEF Off
<1> QED BY <1>1, <1>2, <1>3, <1>4, NothingStored

\* A run is done: what it did of every question is so of them all.
LEMMA ClosesKeepsAnswers ==
    ASSUME AnswersAreSound, NEW w \in Worker, Closes(w, worker[w].stamp),
           UNCHANGED <<model, learning, questions, result, noticed, shaken, events>>, busy' \in BOOLEAN,
           \/ worker[w].every = TRUE => questions = {}
           \/ worker[w].at = "ask" /\ worker[w].only = {}
    PROVE  AnswersAreSound'
<1>0. AnswersTypes /\ worker[w] \in WorkerState
    BY DEF AnswersAreSound, AnswersTypes
<1>1. CASE whole' = whole
    BY <1>0, <1>1, ThreadEndsKeepsAnswers DEF Closes, AnswersTypes
<1>2. CASE whole' # whole
  <2>1. /\ Minds(w) /\ worker[w].every /\ whole' = worker[w].stamp /\ running' = None /\ To(w, Off)
      BY <1>2 DEF Closes
  <2>2. worker[w].every = TRUE
      BY <1>0, <2>1 DEF WorkerState
  <2>3. /\ worker' \in [Worker -> WorkerState] /\ worker'[w] = Off
        /\ \A x \in Worker : x # w => worker'[x] = worker[x]
      BY <1>0, <2>1, OneWorkerGoes, WorkerTypes
  <2>4. AnswersTypes'
      BY <1>0, <2>1, <2>3 DEF AnswersTypes, WorkerState
  <2>5. NoneIsNewer' /\ AnswerInHand'
      BY <2>1, <2>3 DEF AnswersAreSound, NoneIsNewer, NoNewer, AnswerInHand, Off
  <2>6. \A x \in Worker : ~Minds(x)'
      BY <2>1 DEF Minds
  <2>7. DrawsAsOfNow' /\ RunChecks'
      BY <2>6 DEF DrawsAsOfNow, RunChecks
  <2>8. WholeIsChecked'
      BY <2>1, <2>2 DEF AnswersAreSound, WholeIsChecked, RunChecks, Steady, OfNow
  <2> QED BY <2>4, <2>5, <2>7, <2>8 DEF AnswersAreSound
<1> QED BY <1>1, <1>2

\* The questions of a run are listed: none of them is done yet.
LEMMA BeginRunKeepsAnswers ==
    ASSUME AnswersAreSound, NEW w \in Worker, BeginRun(w)
    PROVE  AnswersAreSound'
<1>0. AnswersTypes /\ worker[w] \in WorkerState
    BY DEF AnswersAreSound, AnswersTypes
<1>1. CASE Listed(w) = {}
  <2>1. worker[w].every = TRUE => questions = {}
      BY <1>1 DEF Listed
  <2> QED BY <1>0, <1>1, <2>1, ClosesKeepsAnswers DEF BeginRun, AnswersTypes
<1>2. CASE Listed(w) # {}
  <2> DEFINE asks == [worker[w] EXCEPT !.at = "ask", !.only = Listed(w)]
  <2>1. /\ UNCHANGED <<model, learning, questions, result, running, whole, noticed, events, shaken>>
        /\ To(w, asks) /\ busy' = TRUE
      BY <1>2 DEF BeginRun
  <2>2. Listed(w) \in SUBSET Question /\ (worker[w].every = TRUE => Listed(w) = questions)
      BY <1>0 DEF Listed, AnswersTypes, WorkerState
  <2>3. asks \in WorkerState
      BY <1>0, <2>2, WorkerTypes
  <2>4. /\ asks.at = "ask" /\ asks.only = Listed(w) /\ asks.stamp = worker[w].stamp
        /\ asks.drawn = worker[w].drawn /\ asks.every = worker[w].every
      BY <1>0 DEF WorkerState
  <2> HIDE DEF asks
  <2>5. /\ worker' \in [Worker -> WorkerState] /\ worker'[w] = asks
        /\ \A x \in Worker : x # w => worker'[x] = worker[x]
      BY <1>0, <2>1, <2>3, OneWorkerGoes
  <2>6. AnswersTypes'
      BY <1>0, <2>1, <2>5 DEF AnswersTypes
  <2>7. NoneIsNewer' /\ AnswerInHand' /\ DrawsAsOfNow' /\ WholeIsChecked'
      BY <2>1, <2>4, <2>5 DEF AnswersAreSound, NoneIsNewer, NoNewer, AnswerInHand, DrawsAsOfNow, WholeIsChecked,
         Steady, OfNow, Minds
  <2>8. RunChecks'
      BY <2>1, <2>2, <2>4, <2>5 DEF AnswersAreSound, RunChecks, Steady, OfNow, Minds
  <2> QED BY <2>6, <2>7, <2>8 DEF AnswersAreSound
<1> QED BY <1>1, <1>2

\* The answer a run draws is of the model as it is.
LEMMA AnswerKeepsAnswers ==
    ASSUME AnswersAreSound, NEW w \in Worker, Answer(w)
    PROVE  AnswersAreSound'
<1>0. AnswersTypes /\ worker[w] \in WorkerState /\ model \in Stamp
    BY DEF AnswersAreSound, AnswersTypes
<1>1. PICK q \in worker[w].only : To(w, [worker[w] EXCEPT !.at = "store", !.next = q, !.drawn = model])
    BY DEF Answer
<1> DEFINE stores == [worker[w] EXCEPT !.at = "store", !.next = q, !.drawn = model]
<1>2. /\ UNCHANGED <<model, learning, questions, result, running, whole, noticed, busy, events, shaken>>
      /\ worker[w].at = "ask" /\ To(w, stores)
    BY <1>1 DEF Answer
<1>3. q \in Question
    BY <1>0, <1>1 DEF WorkerState
<1>4. stores \in WorkerState
    BY <1>0, <1>3, WorkerTypes
<1>5. /\ stores.at = "store" /\ stores.next = q /\ stores.drawn = model /\ stores.stamp = worker[w].stamp
      /\ stores.only = worker[w].only /\ stores.every = worker[w].every
    BY <1>0 DEF WorkerState
<1> HIDE DEF stores
<1>6. /\ worker' \in [Worker -> WorkerState] /\ worker'[w] = stores
      /\ \A x \in Worker : x # w => worker'[x] = worker[x]
    BY <1>0, <1>2, <1>4, OneWorkerGoes
<1>7. AnswersTypes'
    BY <1>0, <1>2, <1>6 DEF AnswersTypes
<1>8. model # None /\ model.version \in Nat
    BY <1>0, NoStamp DEF Stamp
<1>9. NoneIsNewer' /\ AnswerInHand'
    BY <1>2, <1>5, <1>6, <1>8 DEF AnswersAreSound, NoneIsNewer, NoNewer, AnswerInHand
<1>10. DrawsAsOfNow' /\ WholeIsChecked'
    BY <1>2, <1>5, <1>6 DEF AnswersAreSound, DrawsAsOfNow, WholeIsChecked, Steady, OfNow, Minds
<1>11. RunChecks'
    BY <1>2, <1>5, <1>6 DEF AnswersAreSound, RunChecks, Steady, OfNow, Minds
<1> QED BY <1>7, <1>9, <1>10, <1>11 DEF AnswersAreSound

\* A result of a run that counts is of the model its stamp tells of, one of another run is too or
\* is late.
LEMMA StoreKeepsAnswers ==
    ASSUME AnswersAreSound, NEW w \in Worker, StoreResult(w)
    PROVE  AnswersAreSound'
<1>0. AnswersTypes /\ worker[w] \in WorkerState
    BY DEF AnswersAreSound, AnswersTypes
<1> DEFINE only == worker[w].only \ {worker[w].next}
           asks == [worker[w] EXCEPT !.at = "ask", !.only = only, !.next = None, !.drawn = None]
<1>1. /\ UNCHANGED <<model, learning, questions, running, whole, noticed, busy, events>>
      /\ worker[w].at = "store"
      /\ result' = [result EXCEPT ![worker[w].next] = worker[w].drawn]
      /\ To(w, asks)
    BY DEF StoreResult
<1>2. /\ worker[w].next \in worker[w].only /\ worker[w].only \subseteq Question
      /\ worker[w].drawn # None /\ worker[w].drawn \in Stamp
    BY <1>0, <1>1 DEF AnswersAreSound, AnswerInHand, WorkerState
<1>3. asks \in WorkerState
    BY <1>0, <1>2, WorkerTypes
<1>4. /\ asks.at = "ask" /\ asks.only = only /\ asks.drawn = None /\ asks.stamp = worker[w].stamp
      /\ asks.every = worker[w].every
    BY <1>0 DEF WorkerState
<1> HIDE DEF asks
<1>5. /\ worker' \in [Worker -> WorkerState] /\ worker'[w] = asks
      /\ \A x \in Worker : x # w => worker'[x] = worker[x]
    BY <1>0, <1>1, <1>3, OneWorkerGoes
<1>6. /\ result' \in [Question -> Stamp \cup {None}]
      /\ result'[worker[w].next] = worker[w].drawn
      /\ \A q \in Question : q # worker[w].next => result'[q] = result[q]
    BY <1>0, <1>1, <1>2 DEF AnswersTypes
<1>7. /\ shaken' \in [back : BOOLEAN, late : BOOLEAN]
      /\ shaken'.back = shaken.back
      /\ shaken'.late = (shaken.late \/ (~Minds(w) /\ worker[w].drawn # model))
    BY <1>0 DEF StoreResult, AnswersTypes
<1>8. shaken'.late = FALSE => shaken.late = FALSE /\ (Minds(w) \/ worker[w].drawn = model)
    BY <1>0, <1>7, Zenon DEF AnswersTypes
<1>9. AnswersTypes'
    BY <1>0, <1>1, <1>5, <1>6, <1>7 DEF AnswersTypes
<1>10. NoneIsNewer' /\ AnswerInHand'
    BY <1>1, <1>2, <1>4, <1>5, <1>6 DEF AnswersAreSound, NoneIsNewer, NoNewer, AnswerInHand
<1>11. DrawsAsOfNow'
    BY <1>1, <1>4, <1>5, <1>7 DEF AnswersAreSound, DrawsAsOfNow, Minds
<1>12. Steady' => Steady /\ (Minds(w) \/ worker[w].drawn = model)
    BY <1>7, <1>8 DEF Steady
<1>13. WholeIsChecked'
  <2> SUFFICES ASSUME Steady', whole = model, NEW q \in questions PROVE result'[q] \in {None, model}
      BY <1>1 DEF WholeIsChecked, OfNow
  <2>1. q = worker[w].next => worker[w].drawn = model
      BY <1>1, <1>12 DEF AnswersAreSound, DrawsAsOfNow, Steady
  <2>2. q \in Question
      BY <1>0 DEF AnswersTypes
  <2> QED BY <1>6, <1>12, <2>1, <2>2 DEF AnswersAreSound, WholeIsChecked, OfNow
<1>14. RunChecks'
  <2> SUFFICES ASSUME Steady', NEW x \in Worker, Minds(x), worker'[x].at \in {"ask", "store"},
                      worker'[x].every = TRUE, worker'[x].stamp = model, NEW q \in questions \ worker'[x].only
               PROVE  result'[q] \in {None, model}
      BY <1>1 DEF RunChecks, OfNow, Minds
  <2>1. q \in Question
      BY <1>0 DEF AnswersTypes
  <2>2. CASE x = w
    <3>1. worker[w].drawn = model
        BY <1>1, <1>4, <1>5, <1>12, <2>2 DEF AnswersAreSound, DrawsAsOfNow, Steady
    <3> QED BY <1>1, <1>4, <1>5, <1>6, <1>12, <2>1, <2>2, <3>1 DEF AnswersAreSound, RunChecks, OfNow
  <2>3. CASE x # w
    <3>1. ~Minds(w)
        BY <2>3 DEF Minds
    <3>2. worker[w].drawn = model
        BY <1>12, <3>1
    <3> QED BY <1>5, <1>6, <1>12, <2>1, <2>3, <3>2 DEF AnswersAreSound, RunChecks, OfNow
  <2> QED BY <2>2, <2>3
<1> QED BY <1>9, <1>10, <1>11, <1>13, <1>14 DEF AnswersAreSound

\* Memory and runs: what stops, fails or grows old.
LEMMA RunsKeepAnswers ==
    AnswersAreSound /\ (Settles \/ RunGrowsOld \/ LostRunGrowsOld \/ Restart \/ StartLearn \/ DeleteQuestion)
        => AnswersAreSound'
<1> SUFFICES ASSUME AnswersAreSound,
                    Settles \/ RunGrowsOld \/ LostRunGrowsOld \/ Restart \/ StartLearn \/ DeleteQuestion
             PROVE  AnswersAreSound'
    OBVIOUS
<1>0. AnswersTypes
    BY DEF AnswersAreSound
<1>1. UNCHANGED <<model, result, whole, shaken>> /\ questions' \subseteq questions
    BY DEF Settles, RunGrowsOld, LostRunGrowsOld, GrowsOld, Restart, StartLearn, DeleteQuestion
<1>2. events' \in 0 .. MaxEvents
    BY <1>0, AnswersConstants DEF Settles, RunGrowsOld, LostRunGrowsOld, GrowsOld, Restart, StartLearn, DeleteQuestion,
       Event, AnswersTypes
<1>3. /\ running' \in [by : Worker, gone : BOOLEAN, old : BOOLEAN] \cup {None}
      /\ running # None /\ running' # None => running'.by = running.by
      /\ running = None => running' = None
    BY <1>0 DEF Settles, RunGrowsOld, LostRunGrowsOld, GrowsOld, Restart, StartLearn, DeleteQuestion, AnswersTypes
<1>4. noticed' \in [digest : Digest, settled : BOOLEAN] \cup {None}
    BY <1>0 DEF Settles, RunGrowsOld, LostRunGrowsOld, GrowsOld, Restart, StartLearn, DeleteQuestion, AnswersTypes
<1>5. learning' \in BOOLEAN /\ busy' \in BOOLEAN
    BY <1>0 DEF Settles, RunGrowsOld, LostRunGrowsOld, GrowsOld, Restart, StartLearn, DeleteQuestion, AnswersTypes
<1>6. /\ worker' \in [Worker -> WorkerState]
      /\ worker' = worker \/ \A w \in Worker : worker'[w] = Off
    BY <1>0, WorkerTypes
    DEF Settles, RunGrowsOld, LostRunGrowsOld, GrowsOld, Restart, StartLearn, DeleteQuestion, AnswersTypes
<1>7. AnswersTypes'
    BY <1>0, <1>1, <1>2, <1>3, <1>4, <1>5, <1>6 DEF AnswersTypes
<1>8. \A x \in Worker : Minds(x)' => Minds(x)
    BY <1>3 DEF Minds
<1>9. Off.at = "idle" /\ Off.drawn = None /\ Off.stamp = None
    BY DEF Off
<1> QED BY <1>1, <1>6, <1>7, <1>8, <1>9, NothingStored

\* Decisions are what the model was drawn from before, which is told, or are new.
LEMMA ChangeDecisionsKeepsAnswers == AnswersAreSound /\ ChangeDecisions => AnswersAreSound'
<1> SUFFICES ASSUME AnswersAreSound, ChangeDecisions PROVE AnswersAreSound'
    OBVIOUS
<1>0. AnswersTypes
    BY DEF AnswersAreSound
<1>1. UNCHANGED <<learning, questions, result, running, whole, noticed, busy, worker>>
    BY DEF ChangeDecisions
<1>2. events' \in 0 .. MaxEvents
    BY <1>0, AnswersConstants DEF ChangeDecisions, Event, AnswersTypes
<1>3. model' \in Stamp /\ model'.version = model.version
    BY <1>0 DEF ChangeDecisions, AnswersTypes, Stamp
<1>4. /\ shaken' \in [back : BOOLEAN, late : BOOLEAN] /\ shaken'.late = shaken.late
      /\ shaken'.back = (shaken.back \/ model' = whole \/ (\E q \in Question : model' = result[q])
                                     \/ \E w \in Worker : model' = worker[w].stamp)
  <2> DEFINE back == shaken.back \/ model' = whole \/ (\E q \in Question : model' = result[q])
                                 \/ \E w \in Worker : model' = worker[w].stamp
  <2>1. shaken' = [shaken EXCEPT !.back = back]
      BY Zenon DEF ChangeDecisions
  <2>2. shaken \in [back : BOOLEAN, late : BOOLEAN] /\ back \in BOOLEAN
      BY <1>0 DEF AnswersTypes
  <2>3. shaken'.back = back
    <3> HIDE DEF back
    <3> QED BY <2>1, <2>2
  <2>4. shaken' \in [back : BOOLEAN, late : BOOLEAN] /\ shaken'.late = shaken.late
    <3> HIDE DEF back
    <3> QED BY <2>1, <2>2
  <2> QED BY <2>3, <2>4
<1>5. shaken'.back = FALSE => shaken.back = FALSE /\ model' # whole /\ \A w \in Worker : worker[w].stamp # model'
    BY <1>0, <1>4, Zenon DEF AnswersTypes
<1>6. AnswersTypes'
    BY <1>0, <1>1, <1>2, <1>3, <1>4 DEF AnswersTypes
<1>7. NoneIsNewer' /\ AnswerInHand'
    BY <1>1, <1>3 DEF AnswersAreSound, NoneIsNewer, NoNewer, AnswerInHand
<1>8. DrawsAsOfNow' /\ RunChecks' /\ WholeIsChecked'
    BY <1>1, <1>5 DEF DrawsAsOfNow, RunChecks, WholeIsChecked, Steady
<1> QED BY <1>6, <1>7, <1>8 DEF AnswersAreSound

\* A Learn's version is newer than every stamp.
LEMMA EndLearnKeepsAnswers == AnswersAreSound /\ EndLearn => AnswersAreSound'
<1> SUFFICES ASSUME AnswersAreSound, EndLearn PROVE AnswersAreSound'
    OBVIOUS
<1>0. AnswersTypes
    BY DEF AnswersAreSound
<1>1. UNCHANGED <<questions, result, running, whole, noticed, busy, worker, events, shaken>> /\ learning' = FALSE
    BY DEF EndLearn
<1>2. CASE model' = model
    BY <1>0, <1>1, <1>2 DEF AnswersAreSound, AnswersTypes, NoneIsNewer, NoNewer, AnswerInHand, DrawsAsOfNow, RunChecks,
       WholeIsChecked, Steady, OfNow, Minds
<1>3. CASE model' # model
  <2>1. model' \in Stamp /\ model'.version = model.version + 1 /\ model.version \in Nat
      BY <1>0, <1>3 DEF EndLearn, AnswersTypes, Stamp
  <2>2. AnswersTypes'
      BY <1>0, <1>1, <2>1 DEF AnswersTypes
  <2>3. \A stamp \in Stamp \cup {None} :
          NoNewer(stamp) => stamp # model' /\ (stamp # None => stamp.version <= model'.version)
      BY <2>1, NoStamp DEF NoNewer, Stamp
  <2>4. /\ whole \in Stamp \cup {None}
        /\ \A q \in Question : result[q] \in Stamp \cup {None}
        /\ \A w \in Worker : worker[w].stamp \in Stamp \cup {None} /\ worker[w].drawn \in Stamp \cup {None}
      BY <1>0 DEF AnswersTypes, WorkerState
  <2>5. whole # model' /\ \A w \in Worker : worker[w].stamp # model'
      BY <2>3, <2>4 DEF AnswersAreSound, NoneIsNewer
  <2>6. NoneIsNewer'
      BY <1>1, <2>3, <2>4 DEF AnswersAreSound, NoneIsNewer, NoNewer
  <2>7. AnswerInHand'
      BY <1>1 DEF AnswersAreSound, AnswerInHand
  <2>8. DrawsAsOfNow' /\ RunChecks' /\ WholeIsChecked'
      BY <1>1, <2>5 DEF DrawsAsOfNow, RunChecks, WholeIsChecked
  <2> QED BY <2>2, <2>6, <2>7, <2>8 DEF AnswersAreSound
<1> QED BY <1>2, <1>3

\* A new question has no answer, and so none of an old model.
LEMMA AddQuestionKeepsAnswers == AnswersAreSound /\ AddQuestion => AnswersAreSound'
<1> SUFFICES ASSUME AnswersAreSound, AddQuestion PROVE AnswersAreSound'
    OBVIOUS
<1>0. AnswersTypes
    BY DEF AnswersAreSound
<1>1. UNCHANGED <<model, learning, result, running, whole, noticed, busy, worker, shaken>>
    BY DEF AddQuestion
<1>2. events' \in 0 .. MaxEvents
    BY <1>0, AnswersConstants DEF AddQuestion, Event, AnswersTypes
<1>3. PICK q \in Question : result[q] = None /\ questions' = questions \cup {q}
    BY DEF AddQuestion
<1>4. AnswersTypes'
    BY <1>0, <1>1, <1>2, <1>3 DEF AnswersTypes
<1>5. NoneIsNewer' /\ AnswerInHand' /\ DrawsAsOfNow'
    BY <1>1 DEF AnswersAreSound, NoneIsNewer, NoNewer, AnswerInHand, DrawsAsOfNow, Minds
<1>6. RunChecks' /\ WholeIsChecked'
    BY <1>1, <1>3 DEF AnswersAreSound, RunChecks, WholeIsChecked, Steady, OfNow, Minds
<1> QED BY <1>4, <1>5, <1>6 DEF AnswersAreSound

\* Every step keeps it.
LEMMA AnswersKeepSound == AnswersAreSound /\ [AnswersNext]_answersVars => AnswersAreSound'
<1> SUFFICES ASSUME AnswersAreSound, [AnswersNext]_answersVars PROVE AnswersAreSound'
    OBVIOUS
<1>0. AnswersTypes
    BY DEF AnswersAreSound
<1>1. ASSUME NEW w \in Worker, FinishRun(w) PROVE AnswersAreSound'
    BY <1>1, ClosesKeepsAnswers DEF FinishRun
<1>2. ASSUME NEW w \in Worker, FailRun(w) \/ LoseRun(w) PROVE AnswersAreSound'
  <2>1. events' \in 0 .. MaxEvents
      BY <1>0, <1>2, AnswersConstants DEF FailRun, LoseRun, Event, AnswersTypes
  <2>2. busy' \in BOOLEAN /\ running' \in {running, None}
      BY <1>0, <1>2 DEF FailRun, LoseRun, AnswersTypes
  <2> QED BY <1>2, <2>1, <2>2, ThreadEndsKeepsAnswers DEF FailRun, LoseRun
<1>3. CASE UNCHANGED answersVars
    BY <1>0, <1>3 DEF answersVars, AnswersAreSound, AnswersTypes, NoneIsNewer, NoNewer, AnswerInHand, DrawsAsOfNow,
       RunChecks, WholeIsChecked, Steady, OfNow, Minds
<1> QED BY <1>1, <1>2, <1>3, DueKeepsAnswers, AskNowKeepsAnswers, ClaimKeepsAnswers, BeginRunKeepsAnswers,
           AnswerKeepsAnswers, StoreKeepsAnswers, RunsKeepAnswers, ChangeDecisionsKeepsAnswers,
           EndLearnKeepsAnswers, AddQuestionKeepsAnswers
    DEF AnswersNext, RunGoesOn

\* However many threads, questions, decisions and Learns there are.
THEOREM AnswersStaySound == AnswersSpec => []AnswersAreSound
<1> QED BY AnswersStartSound, AnswersKeepSound, PTL DEF AnswersSpec

\* The last whole check was of the model, so each answer is.
LEMMA SoundAnswersAreChecked == AnswersAreSound => NothingDueIsChecked
<1> SUFFICES ASSUME AnswersAreSound, whole = model, Fresh = {}, ~shaken.back, ~shaken.late, NEW q \in questions
             PROVE  result[q] = model
    BY DEF NothingDueIsChecked, Checked
<1>1. Steady
    BY Zenon DEF AnswersAreSound, AnswersTypes, Steady
<1> QED BY <1>1 DEF AnswersAreSound, WholeIsChecked, OfNow, Fresh

\* Where the minute's pass finds nothing left to do, each question's latest answer was drawn
\* from the model as it is (core2/answers_check.py:22).
THEOREM NothingDueStaysChecked == AnswersSpec => []NothingDueIsChecked
<1> QED BY SoundAnswersAreChecked, AnswersStaySound, PTL
=============================================================================
