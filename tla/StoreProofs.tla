---------------------------- MODULE StoreProofs ----------------------------
(***************************************************************************)
(* What the two stores on disk promise over every crash and restart: the   *)
(* audit log keeps what an append has acknowledged and loses for good what *)
(* forget has erased; the secret store loses for good what was removed or  *)
(* pruned, and a get, which takes the lock twice, returns no value that    *)
(* was out of date when it was called.                                     *)
(***************************************************************************)
EXTENDS AuditLog, SecretStore, SequenceTheorems, TLAPS

-----------------------------------------------------------------------------
(* The audit log: types *)

AnySubject == Subjects \cup {NoSubject}
Canon    == [seq : Nat, subject : AnySubject, key : Nat]
LogFrame == [canon : Canon, mac : Seq(Canon)]
Keys     == (Subjects \ {NoSubject}) \X (Nat \ {0})
Held     == {"trunc", "keys", "write", "flush", "memory"}
Auditor  == [pc : {"idle", "tombstone"} \cup Held, rec : Canon, forget : AnySubject,
             affected : SUBSET Nat]

File == logFile.frames

AuditTypes ==
  /\ logFile \in [frames : Seq(LogFrame), torn : BOOLEAN]
  /\ keysFile \in [torn : BOOLEAN, keys : SUBSET Keys]
  /\ opened \in BOOLEAN
  /\ records \in Seq(LogFrame)
  /\ subjectKeys \in SUBSET Keys
  /\ headMac \in Seq(Canon) /\ nextSeq \in Nat
  /\ auditor \in [AuditThreads -> Auditor]
  /\ nKeys \in Nat /\ keyFaults \in Nat /\ writeFaults \in Nat
  /\ badOut \in BOOLEAN /\ (badOut => writeFaults # 0)

(* mu is held by who writes, and what is sealed now is sealed with a key that is
   kept as long as mu is. *)
LockInv ==
  \A t \in AuditThreads :
    /\ auditor[t].pc # "idle" => opened
    /\ auditor[t].pc \in Held => mu = t
    /\ auditor[t].rec.key # 0 =>
         /\ auditor[t].pc \in Held /\ auditor[t].forget = NoSubject
         /\ <<auditor[t].rec.subject, auditor[t].rec.key>> \in subjectKeys

\* Append at the end of a sequence, in one place.
LEMMA Appended ==
  ASSUME NEW S, NEW q \in Seq(S), NEW x \in S
  PROVE  /\ Append(q, x) \in Seq(S) /\ Len(Append(q, x)) = Len(q) + 1 /\ Len(q) \in Nat
         /\ Append(q, x)[Len(q) + 1] = x /\ \A i \in 1..Len(q) : Append(q, x)[i] = q[i]
         /\ DOMAIN q = 1..Len(q) /\ DOMAIN Append(q, x) = 1..(Len(q) + 1)
OBVIOUS

LEMMA AtRestTypes == AtRest \in Auditor /\ NoCanon \in Canon /\ AtRest.rec = NoCanon
                     /\ AtRest.pc = "idle" /\ AtRest.forget = NoSubject /\ NoCanon.key = 0
BY DEF AtRest, Auditor, NoCanon, Canon, AnySubject, Held

\* A thread's record, by its fields.
Is(a, pc, rec, forget, affected) ==
  a.pc = pc /\ a.rec = rec /\ a.forget = forget /\ a.affected = affected

LEMMA FromRest ==
  ASSUME NEW pc \in {"idle", "tombstone"} \cup Held, NEW rec \in Canon, NEW s \in AnySubject,
         NEW A \in SUBSET Nat
  PROVE  /\ [AtRest EXCEPT !.pc = pc, !.rec = rec] \in Auditor
         /\ [AtRest EXCEPT !.pc = pc, !.forget = s, !.affected = A] \in Auditor
         /\ Is([AtRest EXCEPT !.pc = pc, !.rec = rec], pc, rec, NoSubject, {})
         /\ Is([AtRest EXCEPT !.pc = pc, !.forget = s, !.affected = A], pc, NoCanon, s, A)
<1>1. AtRest \in Auditor /\ Is(AtRest, "idle", NoCanon, NoSubject, {})
  BY AtRestTypes DEF AtRest, Is
<1> QED BY <1>1 DEF Auditor, Is

\* What a step of one thread leaves of the others.
LEMMA SetOne ==
  ASSUME NEW t \in AuditThreads, NEW a \in Auditor, auditor \in [AuditThreads -> Auditor],
         AuditSet(t, a)
  PROVE  /\ auditor' \in [AuditThreads -> Auditor] /\ auditor'[t] = a
         /\ \A u \in AuditThreads \ {t} : auditor'[u] = auditor[u]
BY DEF AuditSet

\* The key an append seals with.
LEMMA AppendKey ==
  ASSUME NEW t \in AuditThreads, NEW s \in AnySubject, AuditTypes, BeginAppend(t, s)
  PROVE  \E key \in Nat, pc \in {"trunc", "write"} :
           /\ auditor' \in [AuditThreads -> Auditor]
           /\ Is(auditor'[t], pc, [seq |-> nextSeq, subject |-> s, key |-> key], NoSubject, {})
           /\ \A u \in AuditThreads \ {t} : auditor'[u] = auditor[u]
           /\ key # 0 => <<s, key>> \in subjectKeys' /\ s # NoSubject
           /\ pc = "write" => subjectKeys' = subjectKeys
           /\ \/ UNCHANGED <<subjectKeys, nKeys>>
              \/ /\ s # NoSubject /\ nKeys' = nKeys + 1
                 /\ subjectKeys' = subjectKeys \cup {<<s, nKeys + 1>>}
<1> DEFINE key == IF s = NoSubject THEN 0 ELSE (CHOOSE k \in subjectKeys' : k[1] = s)[2]
           pc  == IF nKeys' # nKeys THEN "trunc" ELSE "write"
           rec == [seq |-> nextSeq, subject |-> s, key |-> key]
<1>1. /\ nKeys \in Nat /\ subjectKeys \in SUBSET Keys
      /\ \/ UNCHANGED <<subjectKeys, nKeys>> /\ (s = NoSubject \/ KeysOf(s) # {})
         \/ /\ s # NoSubject /\ nKeys' = nKeys + 1
            /\ subjectKeys' = subjectKeys \cup {<<s, nKeys + 1>>}
  BY DEF BeginAppend, AuditTypes
<1>2. subjectKeys' \in SUBSET Keys
  BY <1>1 DEF Keys, AnySubject
<1>3. key \in Nat /\ (key # 0 => <<s, key>> \in subjectKeys' /\ s # NoSubject)
  <2>1. CASE s = NoSubject
    BY <2>1
  <2>2. CASE s # NoSubject
    <3>1. \E k \in subjectKeys' : k[1] = s
      <4>1. CASE UNCHANGED subjectKeys /\ KeysOf(s) # {}
        BY <4>1 DEF KeysOf
      <4>2. CASE subjectKeys' = subjectKeys \cup {<<s, nKeys + 1>>}
        <5>1. <<s, nKeys + 1>> \in subjectKeys' /\ <<s, nKeys + 1>>[1] = s
          BY <4>2
        <5> QED BY <5>1
      <4> QED BY <1>1, <2>2, <4>1, <4>2
    <3>2. PICK k : k = CHOOSE e \in subjectKeys' : e[1] = s
      OBVIOUS
    <3>3. k \in subjectKeys' /\ k[1] = s
      BY <3>1, <3>2
    <3>4. k = <<s, k[2]>> /\ k[2] \in Nat
      BY <1>2, <3>3 DEF Keys
    <3>5. key = k[2]
      BY <2>2, <3>2
    <3> QED BY <2>2, <3>3, <3>4, <3>5
  <2> QED BY <2>1, <2>2
<1>4. AuditSet(t, [AtRest EXCEPT !.pc = pc, !.rec = rec])
  BY DEF BeginAppend
<1>5. pc \in {"trunc", "write"} /\ (pc = "write" => UNCHANGED <<subjectKeys, nKeys>>)
  BY <1>1
<1> HIDE DEF key, pc
<1>6. rec \in Canon
  BY <1>3 DEF Canon, AuditTypes
<1>7. /\ [AtRest EXCEPT !.pc = pc, !.rec = rec] \in Auditor
      /\ Is([AtRest EXCEPT !.pc = pc, !.rec = rec], pc, rec, NoSubject, {})
  <2>1. {} \in SUBSET Nat /\ pc \in {"idle", "tombstone"} \cup Held
    BY <1>5 DEF Held
  <2> HIDE DEF rec
  <2> QED BY <1>6, <2>1, FromRest
<1>8. /\ auditor' \in [AuditThreads -> Auditor]
      /\ Is(auditor'[t], pc, rec, NoSubject, {})
      /\ \A u \in AuditThreads \ {t} : auditor'[u] = auditor[u]
  BY <1>4, <1>7, SetOne DEF AuditTypes
<1> QED BY <1>1, <1>3, <1>5, <1>8

\* The step of a thread that holds mu: pc changes, the rest of its record may not.
LEMMA SetPc ==
  ASSUME NEW t \in AuditThreads, NEW pc \in {"idle", "tombstone"} \cup Held,
         auditor \in [AuditThreads -> Auditor], AuditSet(t, [auditor[t] EXCEPT !.pc = pc])
  PROVE  /\ auditor' \in [AuditThreads -> Auditor]
         /\ Is(auditor'[t], pc, auditor[t].rec, auditor[t].forget, auditor[t].affected)
         /\ \A u \in AuditThreads \ {t} : auditor'[u] = auditor[u]
<1>1. [auditor[t] EXCEPT !.pc = pc] \in Auditor
      /\ Is([auditor[t] EXCEPT !.pc = pc], pc, auditor[t].rec, auditor[t].forget,
            auditor[t].affected)
  BY DEF Auditor, Is
<1> QED BY <1>1, SetOne

\* Where persistKeys goes on.
LEMMA AfterKeysSets ==
  ASSUME NEW t \in AuditThreads, auditor \in [AuditThreads -> Auditor], AfterKeys(t)
  PROVE  \E pc \in {"write", "tombstone"} :
           /\ auditor' \in [AuditThreads -> Auditor]
           /\ Is(auditor'[t], pc, auditor[t].rec, auditor[t].forget, auditor[t].affected)
           /\ \A u \in AuditThreads \ {t} : auditor'[u] = auditor[u]
           /\ pc = "write" => auditor[t].forget = NoSubject /\ mu' = mu
           /\ pc = "tombstone" => auditor[t].forget # NoSubject /\ mu' = Nobody
<1>1. "write" \in {"idle", "tombstone"} \cup Held /\ "tombstone" \in {"idle", "tombstone"} \cup Held
  BY DEF Held
<1>2. CASE auditor[t].forget = NoSubject
  BY <1>1, <1>2, SetPc DEF AfterKeys
<1>3. CASE auditor[t].forget # NoSubject
  BY <1>1, <1>3, SetPc DEF AfterKeys
<1> QED BY <1>2, <1>3

LEMMA ForgetSets ==
  ASSUME NEW t \in AuditThreads, NEW s \in Subjects, AuditTypes, Forget(t, s)
  PROVE  /\ auditor' \in [AuditThreads -> Auditor]
         /\ Is(auditor'[t], "trunc", NoCanon, s,
               {records[i].canon.seq : i \in {j \in DOMAIN records :
                  records[j].canon.subject = s /\ records[j].canon.key # 0}})
         /\ \A u \in AuditThreads \ {t} : auditor'[u] = auditor[u]
<1> DEFINE A == {records[i].canon.seq : i \in {j \in DOMAIN records :
                   records[j].canon.subject = s /\ records[j].canon.key # 0}}
           a == [AtRest EXCEPT !.pc = "trunc", !.forget = s, !.affected = A]
<1>1. A \in SUBSET Nat
  <2>1. \A i \in DOMAIN records : records[i] \in LogFrame
    BY DEF AuditTypes
  <2>2. \A i \in DOMAIN records : records[i].canon.seq \in Nat
    BY <2>1 DEF LogFrame, Canon
  <2> QED BY <2>2
<1>2. AuditSet(t, a)
  BY DEF Forget
<1>3. a \in Auditor /\ Is(a, "trunc", NoCanon, s, A)
  <2> HIDE DEF A
  <2>1. "trunc" \in {"idle", "tombstone"} \cup Held /\ s \in AnySubject
    BY DEF Held, AnySubject
  <2> QED BY <1>1, <2>1, AtRestTypes, FromRest
<1> HIDE DEF a
<1> QED BY <1>2, <1>3, SetOne DEF AuditTypes, A

LEMMA TombstoneSets ==
  ASSUME NEW t \in AuditThreads, AuditTypes, BeginTombstone(t)
  PROVE  /\ auditor' \in [AuditThreads -> Auditor]
         /\ Is(auditor'[t], "write", [seq |-> nextSeq, subject |-> NoSubject, key |-> 0],
               auditor[t].forget, auditor[t].affected)
         /\ \A u \in AuditThreads \ {t} : auditor'[u] = auditor[u]
<1> DEFINE rec == [seq |-> nextSeq, subject |-> NoSubject, key |-> 0]
           a   == [auditor[t] EXCEPT !.pc = "write", !.rec = rec]
<1>1. rec \in Canon /\ auditor[t] \in Auditor
  BY DEF AuditTypes, Canon, AnySubject
<1>2. a \in Auditor /\ Is(a, "write", rec, auditor[t].forget, auditor[t].affected)
  <2> HIDE DEF rec
  <2> QED BY <1>1 DEF Auditor, Is, Held
<1>3. AuditSet(t, a)
  BY DEF BeginTombstone
<1> HIDE DEF a
<1> QED BY <1>2, <1>3, SetOne DEF AuditTypes

\* Which of mu, the memory and the threads a step may change: the rest follows.
LEMMA LockNext ==
  ASSUME AuditTypes, LockInv, [AuditNext]_auditVars
  PROVE  AuditTypes' /\ LockInv'
<1>1. CASE UNCHANGED auditVars
  BY <1>1 DEF auditVars, AuditTypes, LockInv
<1>2. CASE OpenLog
  <2>1. \A f \in LogFrame : f.mac \in Seq(Canon) /\ f.canon.seq + 1 \in Nat
    BY DEF LogFrame, Canon
  <2>2. logFile.frames # <<>> => Last(logFile.frames) \in LogFrame
    BY DEF Last, AuditTypes
  <2>3. headMac' \in Seq(Canon) /\ nextSeq' \in Nat
    BY <1>2, <2>1, <2>2 DEF OpenLog
  <2>4. AuditTypes'
    BY <1>2, <2>3 DEF OpenLog, AuditTypes, outVars
  <2>5. \A t \in AuditThreads : auditor[t].pc = "idle" /\ auditor[t].rec.key = 0
    BY <1>2 DEF OpenLog, LockInv, Held
  <2> QED BY <1>2, <2>4, <2>5 DEF OpenLog, LockInv, Held
<1>3. CASE CrashLog
  <2>1. auditor' = [t \in AuditThreads |-> AtRest] /\ opened' = FALSE
    BY <1>3 DEF CrashLog
  <2>2. \A t \in AuditThreads : auditor'[t] = AtRest
    BY <2>1
  <2>3. auditor' \in [AuditThreads -> Auditor]
    BY <2>1, AtRestTypes
  <2>4. records' = <<>> /\ headMac' = <<>> /\ nextSeq' = 0 /\ subjectKeys' = {}
        /\ UNCHANGED <<logFile, keysFile, nKeys, keyFaults, writeFaults>> /\ badOut' = FALSE
    BY <1>3 DEF CrashLog
  <2>5. AuditTypes'
    <3>1. opened' \in BOOLEAN
      BY <2>1
    <3>2. records' \in Seq(LogFrame) /\ headMac' \in Seq(Canon)
      BY <2>4
    <3>3. nextSeq' \in Nat /\ subjectKeys' \in SUBSET Keys
      BY <2>4
    <3> QED BY <2>3, <2>4, <3>1, <3>2, <3>3 DEF AuditTypes
  <2> QED BY <2>2, <2>5, AtRestTypes DEF LockInv, Held
<1>4. ASSUME NEW t \in AuditThreads, NEW s \in AnySubject, BeginAppend(t, s)
      PROVE  AuditTypes' /\ LockInv'
  <2>1. PICK key \in Nat, pc \in {"trunc", "write"} :
           /\ auditor' \in [AuditThreads -> Auditor]
           /\ Is(auditor'[t], pc, [seq |-> nextSeq, subject |-> s, key |-> key], NoSubject, {})
           /\ \A u \in AuditThreads \ {t} : auditor'[u] = auditor[u]
           /\ key # 0 => <<s, key>> \in subjectKeys'
           /\ \/ UNCHANGED <<subjectKeys, nKeys>>
              \/ /\ s # NoSubject /\ nKeys' = nKeys + 1
                 /\ subjectKeys' = subjectKeys \cup {<<s, nKeys + 1>>}
    BY <1>4, AppendKey
  <2>2. nKeys' \in Nat /\ subjectKeys' \in SUBSET Keys
    BY <2>1 DEF AuditTypes, Keys, AnySubject
  <2>3. AuditTypes'
    BY <1>4, <2>1, <2>2 DEF BeginAppend, AuditTypes, outVars
  <2>4. \A u \in AuditThreads : auditor[u].pc \notin Held /\ auditor[u].rec.key = 0
    BY <1>4, AuditAssumption DEF BeginAppend, LockInv
  <2>5. pc \in Held /\ opened' /\ mu' = t
    BY <1>4, <2>1 DEF Held, BeginAppend
  <2> QED BY <1>4, <2>1, <2>3, <2>4, <2>5 DEF BeginAppend, LockInv, Is
<1>5. ASSUME NEW t \in AuditThreads, NEW s \in Subjects, Forget(t, s)
      PROVE  AuditTypes' /\ LockInv'
  <2>1. /\ auditor' \in [AuditThreads -> Auditor]
        /\ auditor'[t].pc = "trunc" /\ auditor'[t].rec.key = 0
        /\ \A u \in AuditThreads \ {t} : auditor'[u] = auditor[u]
    BY <1>5, ForgetSets, AtRestTypes DEF Is
  <2>2. AuditTypes'
    BY <1>5, <2>1 DEF Forget, AuditTypes, outVars
  <2>3. \A u \in AuditThreads : auditor[u].pc \notin Held /\ auditor[u].rec.key = 0
    BY <1>5, AuditAssumption DEF Forget, LockInv
  <2> QED BY <1>5, <2>1, <2>2, <2>3 DEF Forget, LockInv
<1>6. ASSUME NEW t \in AuditThreads, TruncateKeys(t)
      PROVE  AuditTypes' /\ LockInv'
  <2>1. /\ auditor' \in [AuditThreads -> Auditor]
        /\ Is(auditor'[t], "keys", auditor[t].rec, auditor[t].forget, auditor[t].affected)
        /\ \A u \in AuditThreads \ {t} : auditor'[u] = auditor[u]
    BY <1>6, SetPc DEF TruncateKeys, AuditTypes, Held
  <2> QED BY <1>6, <2>1 DEF TruncateKeys, AuditTypes, LockInv, Is, Held, outVars
<1>7. ASSUME NEW t \in AuditThreads, WriteKeys(t) \/ KeysNotSaved(t)
      PROVE  AuditTypes' /\ LockInv'
  <2>1. AfterKeys(t) /\ auditor[t].pc \in Held /\ UNCHANGED <<opened, subjectKeys>>
    BY <1>7 DEF WriteKeys, KeysNotSaved, Held
  <2>2. PICK pc \in {"write", "tombstone"} :
           /\ auditor' \in [AuditThreads -> Auditor]
           /\ Is(auditor'[t], pc, auditor[t].rec, auditor[t].forget, auditor[t].affected)
           /\ \A u \in AuditThreads \ {t} : auditor'[u] = auditor[u]
           /\ pc = "write" => auditor[t].forget = NoSubject /\ mu' = mu
           /\ pc = "tombstone" => auditor[t].forget # NoSubject /\ mu' = Nobody
    BY <2>1, AfterKeysSets DEF AuditTypes
  <2>3. AuditTypes'
    <3>1. keysFile' \in [torn : BOOLEAN, keys : SUBSET Keys] /\ keyFaults' \in Nat
      <4>1. CASE WriteKeys(t)
        <5>1. keysFile' = [torn |-> FALSE, keys |-> subjectKeys] /\ keyFaults' = keyFaults
          BY <4>1 DEF WriteKeys
        <5> QED BY <5>1 DEF AuditTypes
      <4>2. CASE KeysNotSaved(t)
        BY <4>2 DEF KeysNotSaved, AuditTypes
      <4> QED BY <1>7, <4>1, <4>2
    <3>2. UNCHANGED <<logFile, opened, records, subjectKeys, headMac, nextSeq, nKeys, badOut,
                      writeFaults>>
      BY <1>7 DEF WriteKeys, KeysNotSaved, outVars
    <3> QED BY <2>2, <3>1, <3>2 DEF AuditTypes
  <2>4. \A u \in AuditThreads \ {t} : auditor[u].pc \notin Held /\ auditor[u].rec.key = 0
    BY <2>1 DEF LockInv
  <2>5. CASE pc = "write"
    BY <2>1, <2>2, <2>3, <2>4, <2>5 DEF LockInv, Is, Held
  <2>6. CASE pc = "tombstone"
    BY <2>1, <2>2, <2>3, <2>4, <2>6 DEF LockInv, Is, Held
  <2> QED BY <2>5, <2>6
<1>8. ASSUME NEW t \in AuditThreads,
             WriteFrame(t) \/ WriteNothing(t) \/ FlushFrame(t) \/ FlushFails(t)
      PROVE  AuditTypes' /\ LockInv'
  <2>1. PICK pc \in {"flush", "memory"} : AuditSet(t, [auditor[t] EXCEPT !.pc = pc])
    BY <1>8 DEF WriteFrame, WriteNothing, FlushFrame, FlushFails
  <2>2. /\ auditor' \in [AuditThreads -> Auditor]
        /\ Is(auditor'[t], pc, auditor[t].rec, auditor[t].forget, auditor[t].affected)
        /\ \A u \in AuditThreads \ {t} : auditor'[u] = auditor[u]
    BY <2>1, SetPc DEF AuditTypes, Held
  <2>3. Frame(auditor[t].rec) \in LogFrame
    BY DEF AuditTypes, Frame, ChainStep, LogFrame, Auditor
  <2>4. /\ logFile' \in [frames : Seq(LogFrame), torn : BOOLEAN] /\ writeFaults' \in Nat
        /\ badOut' \in BOOLEAN /\ (badOut' => writeFaults' # 0)
    <3>0. GrownLog(auditor[t].rec) \in [frames : Seq(LogFrame), torn : BOOLEAN]
      <4>1. Append(logFile.frames, Frame(auditor[t].rec)) \in Seq(LogFrame)
        BY <2>3 DEF AuditTypes
      <4> QED BY <4>1 DEF GrownLog
    <3>1. CASE WriteFrame(t)
      BY <3>1 DEF WriteFrame, AuditTypes, outVars
    <3>2. CASE WriteNothing(t)
      BY <3>2 DEF WriteNothing, AuditTypes
    <3>3. CASE FlushFrame(t)
      BY <3>0, <3>3 DEF FlushFrame, AuditTypes
    <3>4. CASE FlushFails(t)
      <4>1. [logFile EXCEPT !.torn = FALSE] \in [frames : Seq(LogFrame), torn : BOOLEAN]
        BY DEF AuditTypes
      <4>2. badOut' = TRUE /\ writeFaults' = writeFaults + 1
        BY <3>4 DEF FlushFails
      <4>3. writeFaults' \in Nat /\ writeFaults' # 0
        BY <4>2 DEF AuditTypes
      <4>4. logFile' \in {[logFile EXCEPT !.torn = FALSE], logFile, GrownLog(auditor[t].rec)}
        BY <3>4 DEF FlushFails
      <4>5. logFile \in [frames : Seq(LogFrame), torn : BOOLEAN]
        BY DEF AuditTypes
      <4>6. logFile' \in [frames : Seq(LogFrame), torn : BOOLEAN]
        BY <3>0, <4>1, <4>4, <4>5
      <4> QED BY <4>2, <4>3, <4>6
    <3> QED BY <1>8, <3>1, <3>2, <3>3, <3>4
  <2>5. AuditTypes'
    BY <1>8, <2>2, <2>4 DEF WriteFrame, WriteNothing, FlushFrame, FlushFails, AuditTypes
  <2>6. auditor[t].pc \in Held /\ pc \in Held /\ UNCHANGED <<opened, mu, subjectKeys>>
    BY <1>8, <2>1 DEF WriteFrame, WriteNothing, FlushFrame, FlushFails, Held
  <2> QED BY <2>2, <2>5, <2>6 DEF LockInv, Is, Held
<1>9. ASSUME NEW t \in AuditThreads, EndAppend(t)
      PROVE  AuditTypes' /\ LockInv'
  <2>1. /\ auditor' \in [AuditThreads -> Auditor] /\ auditor'[t] = AtRest
        /\ \A u \in AuditThreads \ {t} : auditor'[u] = auditor[u]
    BY <1>9, SetOne, AtRestTypes DEF EndAppend, AuditTypes
  <2>2. Frame(auditor[t].rec) \in LogFrame
    BY DEF AuditTypes, Frame, ChainStep, LogFrame, Auditor
  <2>3. records' \in Seq(LogFrame) /\ headMac' \in Seq(Canon) /\ nextSeq' \in Nat
    BY <1>9, <2>2 DEF EndAppend, AuditTypes, LogFrame
  <2>4. AuditTypes'
    BY <1>9, <2>1, <2>3 DEF EndAppend, AuditTypes, outVars
  <2>5. auditor[t].pc \in Held /\ UNCHANGED <<opened, subjectKeys>>
    BY <1>9 DEF EndAppend, Held
  <2>6. \A u \in AuditThreads \ {t} : auditor[u].pc \notin Held /\ auditor[u].rec.key = 0
    BY <2>5 DEF LockInv
  <2> QED BY <2>1, <2>4, <2>5, <2>6, AtRestTypes DEF LockInv, Held
<1>10. ASSUME NEW t \in AuditThreads, BeginTombstone(t)
       PROVE  AuditTypes' /\ LockInv'
  <2>1. /\ auditor' \in [AuditThreads -> Auditor]
        /\ auditor'[t].pc = "write" /\ auditor'[t].rec.key = 0
        /\ \A u \in AuditThreads \ {t} : auditor'[u] = auditor[u]
    BY <1>10, TombstoneSets DEF Is
  <2>2. AuditTypes'
    BY <1>10, <2>1 DEF BeginTombstone, AuditTypes, outVars
  <2>3. \A u \in AuditThreads : auditor[u].pc \notin Held /\ auditor[u].rec.key = 0
    BY <1>10, AuditAssumption DEF BeginTombstone, LockInv
  <2> QED BY <1>10, <2>1, <2>2, <2>3 DEF BeginTombstone, LockInv, Held
<1>11. CASE AppendNowhere
  BY <1>11 DEF AppendNowhere, AuditTypes, LockInv, outVars
<1> QED BY <1>1, <1>2, <1>3, <1>4, <1>5, <1>6, <1>7, <1>8, <1>9, <1>10, <1>11
        DEF AuditNext, AnySubject

-----------------------------------------------------------------------------
(* The audit log: the file and the memory *)

Framed(mac, canon) == [canon |-> canon, mac |-> ChainStep(mac, canon)]
LastMac(frames) == IF frames = <<>> THEN <<>> ELSE frames[Len(frames)].mac

FileInv ==
  /\ ChainOk(File)
  /\ \A i \in DOMAIN File : File[i].canon.seq = i - 1
  /\ acked \ unwritten \subseteq {File[i].canon : i \in DOMAIN File}

\* A thread that has drawn its record's number.
Numbered(a) == a.pc \in {"write", "flush", "memory"} \/ (a.pc \in Held /\ a.forget = NoSubject)

\* The file is ahead of the memory by this record, or has stopped growing.
Written(rec) ==
  IF badOut THEN rec \in unwritten ELSE File = Append(records, Framed(headMac, rec))

\* The memory is the file, or one frame behind it, until a write failed.
MemoryInv ==
  opened =>
    /\ nextSeq = Len(records) /\ headMac = LastMac(records)
    /\ ~badOut /\ (\A t \in AuditThreads : auditor[t].pc # "memory") => records = File
    /\ \A t \in AuditThreads :
         /\ auditor[t].pc = "memory" => Written(auditor[t].rec)
         /\ Numbered(auditor[t]) => auditor[t].rec.seq = nextSeq

\* The whole frame gets into the file; and a step after which it does not and never will.
Grows(t)  == (FlushFrame(t) \/ FlushFails(t)) /\ logFile' = GrownLog(auditor[t].rec)
Spoils(t) == WriteNothing(t) \/ (FlushFails(t) /\ File' = File)

LEMMA ChainGrows ==
  ASSUME NEW frames \in Seq(LogFrame), NEW f \in LogFrame, ChainOk(frames),
         f.mac = Append(LastMac(frames), f.canon)
  PROVE  ChainOk(Append(frames, f))
<1> DEFINE g == Append(frames, f)
<1>1. PICK n \in Nat :
        /\ n = Len(frames) /\ g[n + 1] = f /\ \A i \in 1..n : g[i] = frames[i]
        /\ DOMAIN frames = 1..n /\ DOMAIN g = 1..(n + 1)
  <2>1. PICK n \in Nat : n = Len(frames)
    OBVIOUS
  <2> QED BY <2>1, Appended
<1> SUFFICES ASSUME NEW i \in 1..(n + 1)
             PROVE  g[i].mac = ChainStep(IF i = 1 THEN <<>> ELSE g[i - 1].mac, g[i].canon)
  BY <1>1 DEF ChainOk
<1> HIDE DEF g
<1>2. CASE i \in 1..n
  <2>1. i # 1 => i - 1 \in 1..n
    BY <1>2
  <2>2. g[i] = frames[i] /\ (i # 1 => g[i - 1] = frames[i - 1])
    BY <1>1, <1>2, <2>1
  <2> QED BY <1>1, <1>2, <2>2 DEF ChainOk
<1>3. CASE i = n + 1
  <2>1. CASE n = 0
    <3>1. frames = <<>> /\ i = 1
      BY <1>1, <1>3, <2>1
    <3> QED BY <1>1, <1>3, <3>1 DEF LastMac, ChainStep
  <2>2. CASE n # 0
    <3>1. frames # <<>> /\ i # 1 /\ i - 1 = n /\ n \in 1..n
      BY <1>1, <1>3, <2>2
    <3> QED BY <1>1, <1>3, <3>1 DEF LastMac, ChainStep
  <2> QED BY <2>1, <2>2
<1> QED BY <1>2, <1>3

\* The steps that leave the file and what memory has of it alone.
LEMMA LogStays ==
  ASSUME FileInv, MemoryInv, NEW t \in AuditThreads,
         UNCHANGED <<opened, records, headMac, nextSeq, acked, badOut, unwritten>>,
         File' = File,
         auditor[t].pc # "memory", auditor'[t].pc # "memory",
         Numbered(auditor'[t]) => auditor'[t].rec.seq = nextSeq,
         \A u \in AuditThreads \ {t} : auditor'[u] = auditor[u]
  PROVE  FileInv' /\ MemoryInv'
<1>1. FileInv'
  BY DEF FileInv, File
<1>2. (\A u \in AuditThreads : auditor'[u].pc # "memory") =>
         \A u \in AuditThreads : auditor[u].pc # "memory"
  OBVIOUS
<1>3. \A u \in AuditThreads : auditor'[u].pc = "memory" =>
         auditor[u].pc = "memory" /\ auditor'[u].rec = auditor[u].rec
  OBVIOUS
<1>5. \A u \in AuditThreads : Numbered(auditor'[u]) =>
         auditor'[u].rec.seq = nextSeq \/ (Numbered(auditor[u]) /\ auditor'[u] = auditor[u])
  OBVIOUS
<1>6. ASSUME opened
      PROVE  \A u \in AuditThreads : Numbered(auditor'[u]) => auditor'[u].rec.seq = nextSeq
  BY <1>5, <1>6 DEF MemoryInv
<1>7. ASSUME opened, NEW u \in AuditThreads, auditor'[u].pc = "memory"
      PROVE  Written(auditor'[u].rec)
  BY <1>3, <1>7 DEF MemoryInv
<1>8. MemoryInv'
  <2> SUFFICES ASSUME opened'
               PROVE  /\ nextSeq' = Len(records') /\ headMac' = LastMac(records')
                      /\ ~badOut /\ (\A u \in AuditThreads : auditor'[u].pc # "memory") =>
                           records' = File'
                      /\ \A u \in AuditThreads :
                           /\ auditor'[u].pc = "memory" => Written(auditor'[u].rec)
                           /\ Numbered(auditor'[u]) => auditor'[u].rec.seq = nextSeq'
    BY DEF MemoryInv, Numbered, LastMac, Framed, Written
  <2>1. opened
    OBVIOUS
  <2>2. nextSeq = Len(records) /\ headMac = LastMac(records)
        /\ (~badOut /\ (\A u \in AuditThreads : auditor[u].pc # "memory") => records = File)
    BY <2>1 DEF MemoryInv
  <2>3. LastMac(records') = LastMac(records)
    OBVIOUS
  <2> QED BY <1>2, <1>6, <1>7, <2>1, <2>2, <2>3
<1> QED BY <1>1, <1>8

\* A frame reaches the file: the chain and the numbers go on.
LEMMA FlushGrows ==
  ASSUME NEW t \in AuditThreads, AuditTypes, LockInv, FileInv, MemoryInv, Grows(t)
  PROVE  /\ records = File /\ nextSeq = Len(File)
         /\ Framed(headMac, auditor[t].rec) \in LogFrame
         /\ File' = Append(File, Framed(headMac, auditor[t].rec))
         /\ Is(auditor'[t], "memory", auditor[t].rec, auditor[t].forget, auditor[t].affected)
         /\ \A u \in AuditThreads \ {t} : auditor'[u] = auditor[u] /\ auditor[u].pc \notin Held
         /\ FileInv' /\ MemoryInv'
<1> DEFINE rec == auditor[t].rec
           f   == Framed(headMac, rec)
<1>1. auditor[t].pc = "flush" /\ opened /\ mu = t /\ ~badOut
  BY DEF Grows, FlushFrame, FlushFails, LockInv, Held
<1>2. /\ Is(auditor'[t], "memory", rec, auditor[t].forget, auditor[t].affected)
      /\ \A u \in AuditThreads \ {t} : auditor'[u] = auditor[u]
  BY SetPc DEF Grows, FlushFrame, FlushFails, AuditTypes, Held
<1>3. \A u \in AuditThreads \ {t} : auditor[u].pc \notin Held
  BY <1>1 DEF LockInv
<1>4. records = File /\ nextSeq = Len(File) /\ headMac = LastMac(File) /\ rec.seq = nextSeq
  <2>1. \A u \in AuditThreads : auditor[u].pc # "memory"
    BY <1>1, <1>3 DEF Held
  <2>2. Numbered(auditor[t])
    BY <1>1 DEF Numbered
  <2> QED BY <1>1, <2>1, <2>2 DEF MemoryInv
<1>5. /\ f \in LogFrame /\ f.canon = rec /\ f.mac = Append(headMac, rec) /\ rec \in Canon
      /\ File \in Seq(LogFrame)
  BY DEF AuditTypes, Framed, ChainStep, LogFrame, Auditor, File
<1>6. File' = Append(File, f)
  BY DEF Grows, GrownLog, File, Frame, Framed
<1> HIDE DEF f, rec
<1>7. PICK n \in Nat : n = Len(File)
  BY <1>5
<1>8. /\ File'[n + 1] = f /\ \A i \in 1..n : File'[i] = File[i]
      /\ DOMAIN File = 1..n /\ DOMAIN File' = 1..(n + 1)
  BY <1>5, <1>6, <1>7, Appended
<1>9. FileInv'
  <2>1. ChainOk(File')
    BY <1>4, <1>5, <1>6, ChainGrows DEF FileInv
  <2>2. ASSUME NEW i \in DOMAIN File' PROVE File'[i].canon.seq = i - 1
    <3>1. CASE i \in 1..n
      BY <1>8, <3>1 DEF FileInv
    <3>2. CASE i = n + 1
      <4>1. i - 1 = n
        BY <3>2
      <4> QED BY <1>4, <1>5, <1>7, <1>8, <3>2, <4>1
    <3> QED BY <1>8, <3>1, <3>2
  <2>3. acked' = acked /\ unwritten \ {rec} \subseteq unwritten'
    BY DEF Grows, FlushFrame, FlushFails, rec
  <2>4. \A i \in DOMAIN File : i \in DOMAIN File' /\ File'[i] = File[i]
    BY <1>8
  <2>5. rec \in {File'[i].canon : i \in DOMAIN File'}
    BY <1>5, <1>8
  <2>6. acked' \ unwritten' \subseteq {File'[i].canon : i \in DOMAIN File'}
    BY <2>3, <2>4, <2>5 DEF FileInv
  <2> QED BY <2>1, <2>2, <2>6 DEF FileInv
<1>10. MemoryInv'
  <2>1. UNCHANGED <<opened, records, headMac, nextSeq>> /\ (badOut' => rec \in unwritten')
    <3>1. FlushFrame(t) => UNCHANGED <<opened, records, headMac, nextSeq>> /\ ~badOut'
      BY <1>1 DEF FlushFrame
    <3>2. FlushFails(t) => UNCHANGED <<opened, records, headMac, nextSeq>> /\ rec \in unwritten'
      BY DEF FlushFails, rec
    <3> QED BY <3>1, <3>2 DEF Grows
  <2>2. File' = Append(records, Framed(headMac, auditor'[t].rec))
        /\ auditor'[t].rec.seq = nextSeq /\ auditor'[t].rec = rec
    BY <1>2, <1>4, <1>6 DEF Is, f, rec
  <2>3. \A u \in AuditThreads \ {t} : auditor'[u].pc # "memory" /\ ~Numbered(auditor'[u])
    BY <1>2, <1>3 DEF Held, Numbered
  <2>4. auditor'[t].pc = "memory"
    BY <1>2 DEF Is
  <2>5. opened => nextSeq = Len(records) /\ headMac = LastMac(records)
    BY DEF MemoryInv
  <2> QED BY <2>1, <2>2, <2>3, <2>4, <2>5 DEF MemoryInv, Numbered, LastMac, Framed, Written
<1> QED BY <1>2, <1>3, <1>4, <1>5, <1>6, <1>9, <1>10 DEF f, rec

\* A write that left nothing whole: the file stays behind from here on.
LEMMA SpoilsLog ==
  ASSUME NEW t \in AuditThreads, AuditTypes, LockInv, FileInv, MemoryInv, Spoils(t)
  PROVE  /\ auditor[t].pc \in {"write", "flush"} /\ auditor'[t].pc = "memory"
         /\ \A u \in AuditThreads \ {t} : auditor'[u] = auditor[u]
         /\ File' = File /\ UNCHANGED <<keysFile, opened, subjectKeys, erasing, nKeys, keyFaults,
                                        acked>>
         /\ FileInv' /\ MemoryInv'
<1>1. auditor[t].pc \in {"write", "flush"} /\ opened /\ mu = t
  BY DEF Spoils, WriteNothing, FlushFails, LockInv, Held
<1>2. /\ Is(auditor'[t], "memory", auditor[t].rec, auditor[t].forget, auditor[t].affected)
      /\ \A u \in AuditThreads \ {t} : auditor'[u] = auditor[u]
  BY SetPc DEF Spoils, WriteNothing, FlushFails, AuditTypes, Held
<1>3. \A u \in AuditThreads \ {t} : auditor[u].pc \notin Held
  BY <1>1 DEF LockInv
<1>4. /\ File' = File /\ badOut' /\ unwritten' = unwritten \cup {auditor[t].rec}
      /\ UNCHANGED <<keysFile, opened, subjectKeys, erasing, nKeys, keyFaults, acked, records,
                     headMac, nextSeq>>
  BY DEF Spoils, WriteNothing, FlushFails, File
<1>5. FileInv'
  BY <1>4 DEF FileInv
<1>6. auditor[t].rec.seq = nextSeq /\ nextSeq = Len(records) /\ headMac = LastMac(records)
  BY <1>1 DEF MemoryInv, Numbered
<1>7. \A u \in AuditThreads \ {t} : auditor'[u].pc # "memory" /\ ~Numbered(auditor'[u])
  BY <1>2, <1>3 DEF Held, Numbered
<1>8. MemoryInv'
  BY <1>2, <1>4, <1>6, <1>7 DEF MemoryInv, Numbered, LastMac, Written, Is
<1> QED BY <1>1, <1>2, <1>4, <1>5, <1>8 DEF Is

\* A frame is written, or not, or the file does not change.
LEMMA FlushCases ==
  ASSUME NEW t \in AuditThreads, AuditTypes, FlushFrame(t) \/ FlushFails(t) \/ WriteNothing(t)
  PROVE  Grows(t) \/ Spoils(t)
<1>1. FlushFrame(t) => Grows(t)
  BY DEF FlushFrame, Grows
<1>2. WriteNothing(t) => Spoils(t)
  BY DEF Spoils
<1>3. FlushFails(t) => Grows(t) \/ Spoils(t)
  BY DEF FlushFails, Grows, Spoils, File, AuditTypes
<1> QED BY <1>1, <1>2, <1>3

LEMMA LogNext ==
  ASSUME AuditTypes, LockInv, FileInv, MemoryInv, [AuditNext]_auditVars
  PROVE  FileInv' /\ MemoryInv'
<1>1. CASE UNCHANGED auditVars
  BY <1>1 DEF auditVars, FileInv, MemoryInv, Numbered, LastMac, Framed, File, Written
<1>2. CASE OpenLog
  <2>1. File' = File /\ records' = File /\ UNCHANGED <<acked, auditor, unwritten>> /\ ~opened
    BY <1>2 DEF OpenLog, File, outVars
  <2>2. FileInv'
    BY <2>1 DEF FileInv
  <2>3. \A t \in AuditThreads : auditor'[t].pc = "idle" /\ ~Numbered(auditor'[t])
    BY <2>1 DEF LockInv, Held, Numbered
  <2>4. File \in Seq(LogFrame)
    BY DEF AuditTypes, File
  <2>5. PICK n \in Nat : n = Len(File)
    BY <2>4
  <2>6. headMac' = LastMac(File) /\ nextSeq' = n
    <3>1. CASE File = <<>>
      BY <1>2, <2>5, <3>1 DEF OpenLog, LastMac, File
    <3>2. CASE File # <<>>
      <4>1. n \in DOMAIN File /\ n > 0
        BY <2>4, <2>5, <3>2
      <4>2. File[n].canon.seq = n - 1
        BY <4>1 DEF FileInv
      <4>3. headMac' = File[n].mac /\ nextSeq' = File[n].canon.seq + 1
        BY <1>2, <2>5, <3>2 DEF OpenLog, File, Last
      <4> QED BY <2>5, <3>2, <4>1, <4>2, <4>3 DEF LastMac
    <3> QED BY <3>1, <3>2
  <2>7. MemoryInv'
    BY <2>1, <2>3, <2>5, <2>6 DEF MemoryInv, Numbered, LastMac, Framed, Written
  <2> QED BY <2>2, <2>7
<1>3. CASE CrashLog
  <2>1. File' = File /\ acked' = acked /\ unwritten' = unwritten /\ ~opened'
    BY <1>3 DEF CrashLog, File
  <2> QED BY <2>1 DEF FileInv, MemoryInv
<1>4. ASSUME NEW t \in AuditThreads, NEW s \in AnySubject, BeginAppend(t, s)
      PROVE  FileInv' /\ MemoryInv'
  <2>1. PICK key \in Nat, pc \in {"trunc", "write"} :
           /\ Is(auditor'[t], pc, [seq |-> nextSeq, subject |-> s, key |-> key], NoSubject, {})
           /\ \A u \in AuditThreads \ {t} : auditor'[u] = auditor[u]
    BY <1>4, AppendKey
  <2>2. UNCHANGED <<opened, records, headMac, nextSeq, acked, badOut, unwritten>> /\ File' = File
        /\ auditor[t].pc # "memory"
    BY <1>4 DEF BeginAppend, File, outVars
  <2>3. auditor'[t].pc # "memory" /\ auditor'[t].rec.seq = nextSeq
    BY <2>1 DEF Is
  <2> QED BY <2>1, <2>2, <2>3, LogStays
<1>5. ASSUME NEW t \in AuditThreads, NEW s \in Subjects, Forget(t, s)
      PROVE  FileInv' /\ MemoryInv'
  <2>1. /\ auditor'[t].pc = "trunc" /\ auditor'[t].forget = s
        /\ \A u \in AuditThreads \ {t} : auditor'[u] = auditor[u]
    BY <1>5, ForgetSets DEF Is
  <2>2. UNCHANGED <<opened, records, headMac, nextSeq, acked, badOut, unwritten>> /\ File' = File
        /\ auditor[t].pc # "memory" /\ KeysOf(s) # {}
    BY <1>5 DEF Forget, File, outVars
  <2>3. s # NoSubject
    BY <2>2 DEF KeysOf, AuditTypes, Keys
  <2>4. ~Numbered(auditor'[t])
    BY <2>1, <2>3 DEF Numbered
  <2> QED BY <2>1, <2>2, <2>4, LogStays
<1>6. ASSUME NEW t \in AuditThreads, TruncateKeys(t)
      PROVE  FileInv' /\ MemoryInv'
  <2>1. /\ Is(auditor'[t], "keys", auditor[t].rec, auditor[t].forget, auditor[t].affected)
        /\ \A u \in AuditThreads \ {t} : auditor'[u] = auditor[u]
    BY <1>6, SetPc DEF TruncateKeys, AuditTypes, Held
  <2>2. UNCHANGED <<opened, records, headMac, nextSeq, acked, badOut, unwritten>> /\ File' = File
        /\ auditor[t].pc = "trunc" /\ opened
    BY <1>6 DEF TruncateKeys, File, LockInv, outVars
  <2>3. Numbered(auditor'[t]) => Numbered(auditor[t])
    BY <2>1, <2>2 DEF Numbered, Is, Held
  <2> QED BY <2>1, <2>2, <2>3, LogStays DEF Is, MemoryInv
<1>7. ASSUME NEW t \in AuditThreads, WriteKeys(t) \/ KeysNotSaved(t)
      PROVE  FileInv' /\ MemoryInv'
  <2>1. AfterKeys(t) /\ auditor[t].pc \in {"keys", "trunc"} /\ opened
        /\ UNCHANGED <<opened, records, headMac, nextSeq, acked, badOut, unwritten>> /\ File' = File
    BY <1>7 DEF WriteKeys, KeysNotSaved, LockInv, File, outVars
  <2>2. PICK pc \in {"write", "tombstone"} :
           /\ Is(auditor'[t], pc, auditor[t].rec, auditor[t].forget, auditor[t].affected)
           /\ \A u \in AuditThreads \ {t} : auditor'[u] = auditor[u]
           /\ pc = "write" => auditor[t].forget = NoSubject
    BY <2>1, AfterKeysSets DEF AuditTypes
  <2>3. Numbered(auditor'[t]) => Numbered(auditor[t])
    BY <2>1, <2>2 DEF Numbered, Is, Held
  <2> QED BY <2>1, <2>2, <2>3, LogStays DEF Is, MemoryInv
<1>8. ASSUME NEW t \in AuditThreads, WriteFrame(t)
      PROVE  FileInv' /\ MemoryInv'
  <2>1. /\ Is(auditor'[t], "flush", auditor[t].rec, auditor[t].forget, auditor[t].affected)
        /\ \A u \in AuditThreads \ {t} : auditor'[u] = auditor[u]
    BY <1>8, SetPc DEF WriteFrame, AuditTypes, Held
  <2>2. UNCHANGED <<opened, records, headMac, nextSeq, acked, badOut, unwritten>> /\ File' = File
        /\ auditor[t].pc = "write" /\ opened
    BY <1>8 DEF WriteFrame, File, LockInv, AuditTypes, outVars
  <2>3. Numbered(auditor[t])
    BY <2>2 DEF Numbered
  <2> QED BY <2>1, <2>2, <2>3, LogStays DEF Is, MemoryInv
<1>9. ASSUME NEW t \in AuditThreads, EndAppend(t)
      PROVE  FileInv' /\ MemoryInv'
  <2> DEFINE f == Framed(headMac, auditor[t].rec)
  <2>1. auditor[t].pc = "memory" /\ opened /\ mu = t
    BY <1>9 DEF EndAppend, LockInv, Held
  <2>2. /\ auditor'[t] = AtRest
        /\ \A u \in AuditThreads \ {t} : auditor'[u] = auditor[u]
    BY <1>9, SetOne, AtRestTypes DEF EndAppend, AuditTypes
  <2>3. \A u \in AuditThreads : auditor'[u].pc \notin Held
    BY <2>1, <2>2, AtRestTypes DEF LockInv, Held
  <2>4. f \in LogFrame /\ f.canon = auditor[t].rec
    BY DEF AuditTypes, Framed, ChainStep, LogFrame, Auditor
  <2>5. nextSeq = Len(records) /\ (~badOut => File = Append(records, f))
        /\ (badOut => auditor[t].rec \in unwritten)
    BY <2>1 DEF MemoryInv, Written
  <2>6. /\ records' = Append(records, f) /\ headMac' = f.mac /\ nextSeq' = nextSeq + 1
        /\ acked' = acked \cup {f.canon} /\ File' = File /\ UNCHANGED <<badOut, unwritten>>
    BY <1>9, <2>4 DEF EndAppend, Frame, Framed, File, outVars
  <2> HIDE DEF f
  <2>7. PICK n \in Nat : n = Len(records)
    BY DEF AuditTypes
  <2>8. Len(records') = n + 1 /\ records'[n + 1] = f /\ n + 1 \in DOMAIN records'
        /\ records' # <<>>
    <3>1. /\ Len(records') = n + 1 /\ records'[n + 1] = f /\ DOMAIN records' = 1..(n + 1)
      BY <2>4, <2>6, <2>7, Appended DEF AuditTypes
    <3> QED BY <3>1
  <2>9. FileInv'
    <3>1. f.canon \in unwritten \/ f.canon \in {File[i].canon : i \in DOMAIN File}
      BY <2>4, <2>5, <2>6, <2>8
    <3> QED BY <2>6, <3>1 DEF FileInv
  <2>10. (~badOut' => records' = File') /\ nextSeq' = Len(records') /\ headMac' = LastMac(records')
    BY <2>5, <2>6, <2>7, <2>8 DEF LastMac
  <2>11. \A u \in AuditThreads : auditor'[u].pc # "memory" /\ ~Numbered(auditor'[u])
    BY <2>3 DEF Held, Numbered
  <2> QED BY <2>9, <2>10, <2>11 DEF MemoryInv, Numbered, LastMac, Framed, Written
<1>10. ASSUME NEW t \in AuditThreads, BeginTombstone(t)
       PROVE  FileInv' /\ MemoryInv'
  <2>1. /\ auditor'[t].pc = "write" /\ auditor'[t].rec.seq = nextSeq
        /\ \A u \in AuditThreads \ {t} : auditor'[u] = auditor[u]
    BY <1>10, TombstoneSets DEF Is
  <2>2. UNCHANGED <<opened, records, headMac, nextSeq, acked, badOut, unwritten>> /\ File' = File
        /\ auditor[t].pc # "memory"
    BY <1>10 DEF BeginTombstone, File, outVars
  <2> QED BY <2>1, <2>2, LogStays
<1>11. CASE AppendNowhere
  BY <1>11 DEF AppendNowhere, FileInv, MemoryInv, File, outVars
<1> QED BY <1>1, <1>2, <1>3, <1>4, <1>5, <1>6, <1>7, <1>8, <1>9, <1>10, <1>11, FlushGrows,
           SpoilsLog, FlushCases
        DEF AuditNext, AnySubject

-----------------------------------------------------------------------------
(* The audit log: the keys *)

\* The keys the records of the file, and the acknowledged ones, are sealed with.
Canons == {File[i].canon : i \in DOMAIN File} \cup acked
Sealed == {<<r.subject, r.key>> : r \in {c \in Canons : c.key # 0}}
Pairs  == subjectKeys \cup keysFile.keys \cup Sealed

\* A key is drawn for one subject.
KeyInv == /\ \A k \in Pairs : k \in Keys /\ k[2] <= nKeys
          /\ \A k, l \in Pairs : k[2] = l[2] => k[1] = l[1]

\* A whole key file has the key of every record in the log file, unless its
\* subject was being forgotten, and outside persistKeys it is what memory has.
SavedInv ==
  keyFaults = 0 =>
    /\ ~keysFile.torn => Sealed \subseteq keysFile.keys \cup erasing
    /\ opened => Sealed \subseteq subjectKeys \cup erasing
    /\ opened /\ (\A t \in AuditThreads : auditor[t].pc \notin {"trunc", "keys"}) =>
         ~keysFile.torn /\ keysFile.keys = subjectKeys
    /\ \A t \in AuditThreads : auditor[t].pc = "keys" => keysFile.torn /\ keysFile.keys = {}

LEMMA FileStays ==
  ASSUME AuditTypes, [AuditNext]_auditVars,
         ~\E t \in AuditThreads : Grows(t) \/ EndAppend(t)
  PROVE  File' = File /\ Sealed' = Sealed
<1>1. File' = File /\ acked' = acked
  <2>1. CASE UNCHANGED <<logFile, acked>>
    BY <2>1 DEF File
  <2>2. ASSUME NEW t \in AuditThreads, WriteFrame(t) PROVE File' = File /\ acked' = acked
    BY <2>2 DEF WriteFrame, File, AuditTypes
  <2>3. ASSUME NEW t \in AuditThreads, FlushFrame(t) \/ FlushFails(t) \/ WriteNothing(t)
        PROVE  File' = File /\ acked' = acked
    BY <2>3, FlushCases DEF Spoils, WriteNothing, FlushFails, File
  <2> QED BY <2>1, <2>2, <2>3 DEF AuditNext, auditVars, OpenLog, CrashLog, AppendNowhere,
             BeginAppend, Forget, TruncateKeys, WriteKeys, KeysNotSaved, BeginTombstone
<1> QED BY <1>1 DEF Sealed, Canons

\* What is sealed now is sealed with a key that memory has.
LEMMA SealedGrows ==
  ASSUME NEW t \in AuditThreads, AuditTypes, LockInv, FileInv, MemoryInv,
         Grows(t) \/ EndAppend(t)
  PROVE  Sealed \subseteq Sealed' /\ Sealed' \subseteq Sealed \cup subjectKeys
<1> DEFINE rec == auditor[t].rec
<1>1. Canons \subseteq Canons' /\ Canons' \subseteq Canons \cup {rec}
  <2>1. CASE Grows(t)
    <3> DEFINE f == Framed(headMac, rec)
    <3>1. f \in LogFrame /\ File' = Append(File, f) /\ f.canon = rec
          /\ File \in Seq(LogFrame)
      BY <2>1, FlushGrows DEF Framed, AuditTypes, File
    <3> HIDE DEF f, rec
    <3>2. PICK n \in Nat : n = Len(File)
      BY <3>1
    <3>3. /\ File'[n + 1] = f /\ \A i \in 1..n : File'[i] = File[i]
          /\ DOMAIN File = 1..n /\ DOMAIN File' = 1..(n + 1)
      BY <3>1, <3>2, Appended
    <3>4. \A i \in 1..(n + 1) : i \in 1..n \/ i = n + 1
      OBVIOUS
    <3>5. \A i \in DOMAIN File' : File'[i].canon = rec \/
                                 (i \in DOMAIN File /\ File'[i] = File[i])
      BY <3>1, <3>3, <3>4
    <3>6. \A i \in DOMAIN File : i \in DOMAIN File' /\ File'[i] = File[i]
      BY <3>3
    <3>7. acked' = acked
      BY <2>1 DEF Grows, FlushFrame, FlushFails
    <3> QED BY <3>5, <3>6, <3>7 DEF Canons
  <2>2. CASE EndAppend(t)
    <3>1. File' = File /\ acked' = acked \cup {rec}
      BY <2>2 DEF EndAppend, File
    <3> QED BY <3>1 DEF Canons
  <2> QED BY <2>1, <2>2
<1>2. rec.key # 0 => <<rec.subject, rec.key>> \in subjectKeys
  BY DEF LockInv
<1> HIDE DEF rec
<1> QED BY <1>1, <1>2 DEF Sealed

LEMMA KeyNext ==
  ASSUME AuditTypes, LockInv, FileInv, MemoryInv, KeyInv, [AuditNext]_auditVars
  PROVE  KeyInv'
<1>1. ASSUME Pairs' \subseteq Pairs, nKeys' = nKeys PROVE KeyInv'
  BY <1>1 DEF KeyInv
<1>2. ASSUME NEW t \in AuditThreads, Grows(t) \/ EndAppend(t) PROVE KeyInv'
  <2>1. UNCHANGED <<subjectKeys, keysFile, nKeys>>
    BY <1>2 DEF Grows, FlushFrame, FlushFails, EndAppend
  <2>2. Pairs' \subseteq Pairs
    BY <1>2, <2>1, SealedGrows DEF Pairs
  <2> QED BY <1>1, <2>1, <2>2
<1>3. ASSUME NEW t \in AuditThreads, NEW s \in AnySubject, BeginAppend(t, s), Sealed' = Sealed
      PROVE  KeyInv'
  <2>1. \/ UNCHANGED <<subjectKeys, nKeys>>
        \/ /\ s # NoSubject /\ nKeys' = nKeys + 1
           /\ subjectKeys' = subjectKeys \cup {<<s, nKeys + 1>>}
    BY <1>3, AppendKey
  <2>2. UNCHANGED keysFile
    BY <1>3 DEF BeginAppend
  <2>3. CASE UNCHANGED <<subjectKeys, nKeys>>
    BY <1>1, <1>3, <2>2, <2>3 DEF Pairs
  <2>4. CASE s # NoSubject /\ nKeys' = nKeys + 1
             /\ subjectKeys' = subjectKeys \cup {<<s, nKeys + 1>>}
    <3> DEFINE new == <<s, nKeys + 1>>
    <3>1. Pairs' = Pairs \cup {new}
      BY <1>3, <2>2, <2>4 DEF Pairs
    <3>2. nKeys \in Nat /\ new \in Keys /\ new[2] = nKeys + 1
      BY <2>4 DEF AuditTypes, Keys, AnySubject
    <3>3. \A k \in Pairs : k[2] \in Nat /\ k[2] <= nKeys
      BY DEF KeyInv, Keys
    <3>4. \A k \in Pairs : k[2] <= nKeys + 1 /\ k[2] # nKeys + 1
      BY <3>2, <3>3
    <3>5. new[2] <= nKeys'
      BY <2>4, <3>2
    <3> HIDE DEF new
    <3>6. \A k \in Pairs' : k \in Keys /\ k[2] <= nKeys'
      BY <2>4, <3>1, <3>2, <3>4, <3>5 DEF KeyInv
    <3>7. \A k, l \in Pairs' : k[2] = l[2] => k[1] = l[1]
      BY <3>1, <3>2, <3>4 DEF KeyInv
    <3> QED BY <3>6, <3>7 DEF KeyInv
  <2> QED BY <2>1, <2>3, <2>4
<1>4. ASSUME Sealed' = Sealed,
             ~\E t \in AuditThreads, s \in AnySubject : BeginAppend(t, s)
      PROVE  KeyInv'
  <2>1. UNCHANGED nKeys /\ subjectKeys' \subseteq Pairs /\ keysFile'.keys \subseteq Pairs
    <3>1. CASE OpenLog
      BY <3>1 DEF OpenLog, Pairs
    <3>2. CASE CrashLog
      BY <3>2 DEF CrashLog, Pairs
    <3>3. ASSUME NEW t \in AuditThreads, NEW s \in Subjects, Forget(t, s)
          PROVE  UNCHANGED nKeys /\ subjectKeys' \subseteq Pairs /\ keysFile'.keys \subseteq Pairs
      BY <3>3 DEF Forget, Pairs
    <3>4. ASSUME NEW t \in AuditThreads, TruncateKeys(t)
          PROVE  UNCHANGED nKeys /\ subjectKeys' \subseteq Pairs /\ keysFile'.keys \subseteq Pairs
      <4>1. keysFile'.keys = {} /\ UNCHANGED <<nKeys, subjectKeys>>
        BY <3>4 DEF TruncateKeys
      <4> QED BY <4>1 DEF Pairs
    <3>5. ASSUME NEW t \in AuditThreads, WriteKeys(t)
          PROVE  UNCHANGED nKeys /\ subjectKeys' \subseteq Pairs /\ keysFile'.keys \subseteq Pairs
      <4>1. keysFile'.keys = subjectKeys /\ UNCHANGED <<nKeys, subjectKeys>>
        BY <3>5 DEF WriteKeys
      <4> QED BY <4>1 DEF Pairs
    <3>6. CASE UNCHANGED <<nKeys, subjectKeys, keysFile>>
      BY <3>6 DEF Pairs
    <3> QED BY <1>4, <3>1, <3>2, <3>3, <3>4, <3>5, <3>6
            DEF AuditNext, auditVars, AppendNowhere, KeysNotSaved, WriteFrame, WriteNothing,
                FlushFrame, FlushFails, EndAppend, BeginTombstone, AnySubject
  <2>2. Pairs' \subseteq Pairs
    BY <1>4, <2>1 DEF Pairs
  <2> QED BY <1>1, <2>1, <2>2
<1> QED BY <1>2, <1>3, <1>4, FileStays

\* When nobody is in persistKeys before and after, the two copies stay equal.
LEMMA SavedStays ==
  ASSUME SavedInv, UNCHANGED <<keysFile, opened, subjectKeys, erasing, keyFaults>>,
         Sealed' = Sealed,
         \A t \in AuditThreads : auditor[t].pc \in {"trunc", "keys"}
                                   <=> auditor'[t].pc \in {"trunc", "keys"},
         \A t \in AuditThreads : auditor'[t].pc = "keys" => auditor[t].pc = "keys"
  PROVE  SavedInv'
BY DEF SavedInv

LEMMA SavedNext ==
  ASSUME AuditTypes, LockInv, FileInv, MemoryInv, SavedInv, [AuditNext]_auditVars
  PROVE  SavedInv'
<1> SUFFICES ASSUME keyFaults' = 0 PROVE SavedInv'
  BY DEF SavedInv
<1>1. CASE UNCHANGED auditVars
  BY <1>1 DEF auditVars, SavedInv, Sealed, Canons, File
<1>2. CASE OpenLog
  <2>1. /\ ~opened /\ ~keysFile.torn /\ subjectKeys' = keysFile.keys
        /\ UNCHANGED <<keysFile, auditor, erasing, keyFaults>> /\ Sealed' = Sealed
    BY <1>2 DEF OpenLog, Sealed, Canons, File
  <2>2. \A t \in AuditThreads : auditor[t].pc = "idle"
    BY <2>1 DEF LockInv
  <2> QED BY <2>1, <2>2 DEF SavedInv
<1>3. CASE CrashLog
  <2>1. UNCHANGED <<keysFile, erasing, keyFaults>> /\ Sealed' = Sealed /\ ~opened'
    BY <1>3 DEF CrashLog, Sealed, Canons, File
  <2>2. \A t \in AuditThreads : auditor'[t].pc = "idle"
    BY <1>3, AtRestTypes DEF CrashLog
  <2> QED BY <2>1, <2>2 DEF SavedInv
<1>4. ASSUME NEW t \in AuditThreads, NEW s \in AnySubject, BeginAppend(t, s)
      PROVE  SavedInv'
  <2>1. PICK pc \in {"trunc", "write"} :
           /\ auditor'[t].pc = pc
           /\ \A u \in AuditThreads \ {t} : auditor'[u] = auditor[u]
           /\ pc = "write" => subjectKeys' = subjectKeys
    BY <1>4, AppendKey DEF Is
  <2>2. UNCHANGED <<keysFile, opened, erasing, keyFaults>> /\ Sealed' = Sealed /\ opened
        /\ auditor[t].pc = "idle" /\ subjectKeys \subseteq subjectKeys'
    BY <1>4 DEF BeginAppend, Sealed, Canons, File
  <2>3. \A u \in AuditThreads : auditor[u].pc \notin Held
    BY <1>4, AuditAssumption DEF BeginAppend, LockInv
  <2>4. CASE pc = "write"
    BY <2>1, <2>2, <2>4, SavedStays
  <2>5. CASE pc = "trunc"
    <3>1. auditor'[t].pc = "trunc" /\ \A u \in AuditThreads : auditor'[u].pc # "keys"
      BY <2>1, <2>3, <2>5 DEF Held
    <3> QED BY <2>1, <2>2, <3>1 DEF SavedInv
  <2> QED BY <2>4, <2>5
<1>5. ASSUME NEW t \in AuditThreads, NEW s \in Subjects, Forget(t, s)
      PROVE  SavedInv'
  <2>1. /\ auditor'[t].pc = "trunc" /\ \A u \in AuditThreads \ {t} : auditor'[u] = auditor[u]
    BY <1>5, ForgetSets DEF Is
  <2>2. /\ UNCHANGED <<keysFile, opened, keyFaults>> /\ Sealed' = Sealed
        /\ subjectKeys \cup erasing \subseteq subjectKeys' \cup erasing'
        /\ erasing \subseteq erasing'
    BY <1>5 DEF Forget, Sealed, Canons, File
  <2>3. \A u \in AuditThreads : auditor'[u].pc # "keys"
    BY <1>5, <2>1, AuditAssumption DEF Forget, LockInv, Held
  <2> QED BY <2>1, <2>2, <2>3 DEF SavedInv
<1>6. ASSUME NEW t \in AuditThreads, TruncateKeys(t)
      PROVE  SavedInv'
  <2>1. auditor'[t].pc = "keys"
    BY <1>6, SetPc DEF TruncateKeys, AuditTypes, Held, Is
  <2>2. /\ keysFile' = [torn |-> TRUE, keys |-> {}] /\ Sealed' = Sealed
        /\ UNCHANGED <<opened, subjectKeys, erasing, keyFaults>>
    BY <1>6 DEF TruncateKeys, Sealed, Canons, File
  <2>3. keysFile'.torn /\ keysFile'.keys = {}
    BY <2>2
  <2>4. opened => Sealed \subseteq subjectKeys \cup erasing
    BY <2>2 DEF SavedInv
  <2> QED BY <2>1, <2>2, <2>3, <2>4 DEF SavedInv
<1>7. ASSUME NEW t \in AuditThreads, WriteKeys(t)
      PROVE  SavedInv'
  <2>1. AfterKeys(t) /\ auditor[t].pc = "keys" /\ opened /\ mu = t
    BY <1>7 DEF WriteKeys, LockInv, Held
  <2>2. PICK pc \in {"write", "tombstone"} :
           /\ Is(auditor'[t], pc, auditor[t].rec, auditor[t].forget, auditor[t].affected)
           /\ \A u \in AuditThreads \ {t} : auditor'[u] = auditor[u]
    BY <2>1, AfterKeysSets DEF AuditTypes
  <2>3. /\ keysFile' = [torn |-> FALSE, keys |-> subjectKeys] /\ Sealed' = Sealed
        /\ UNCHANGED <<opened, subjectKeys, erasing, keyFaults>>
    BY <1>7 DEF WriteKeys, Sealed, Canons, File
  <2>4. ~keysFile'.torn /\ keysFile'.keys = subjectKeys
    BY <2>3
  <2>5. \A u \in AuditThreads : auditor'[u].pc # "keys"
    BY <2>1, <2>2 DEF LockInv, Held, Is
  <2>6. Sealed \subseteq subjectKeys \cup erasing
    BY <2>1, <2>3 DEF SavedInv
  <2> QED BY <2>3, <2>4, <2>5, <2>6 DEF SavedInv
<1>8. ASSUME NEW t \in AuditThreads, KeysNotSaved(t)
      PROVE  SavedInv'
  BY <1>8 DEF KeysNotSaved, AuditTypes
<1>9. ASSUME NEW t \in AuditThreads, WriteFrame(t)
      PROVE  SavedInv'
  <2>1. /\ auditor'[t].pc = "flush" /\ \A u \in AuditThreads \ {t} : auditor'[u] = auditor[u]
    BY <1>9, SetPc DEF WriteFrame, AuditTypes, Held, Is
  <2>2. UNCHANGED <<keysFile, opened, subjectKeys, erasing, keyFaults>> /\ Sealed' = Sealed
        /\ auditor[t].pc = "write"
    BY <1>9 DEF WriteFrame, Sealed, Canons, File, AuditTypes
  <2> QED BY <2>1, <2>2, SavedStays
<1>10. ASSUME NEW t \in AuditThreads, Grows(t) \/ EndAppend(t)
       PROVE  SavedInv'
  <2>1. /\ auditor'[t].pc \in {"memory", "idle"}
        /\ \A u \in AuditThreads \ {t} : auditor'[u] = auditor[u]
    <3>1. CASE Grows(t)
      BY <3>1, FlushGrows DEF Is
    <3>2. CASE EndAppend(t)
      BY <3>2, SetOne, AtRestTypes DEF EndAppend, AuditTypes
    <3> QED BY <1>10, <3>1, <3>2
  <2>2. UNCHANGED <<keysFile, opened, subjectKeys, erasing, keyFaults>>
        /\ auditor[t].pc \in {"flush", "memory"} /\ opened /\ mu = t
    BY <1>10 DEF Grows, FlushFrame, FlushFails, EndAppend, LockInv, Held
  <2>3. \A u \in AuditThreads : auditor[u].pc \notin {"trunc", "keys"}
                               /\ auditor'[u].pc \notin {"trunc", "keys"}
    BY <2>1, <2>2 DEF LockInv, Held
  <2>4. Sealed' \subseteq Sealed \cup subjectKeys
    BY <1>10, SealedGrows
  <2>5. ~keysFile.torn /\ keysFile.keys = subjectKeys /\ Sealed \subseteq subjectKeys \cup erasing
    BY <2>2, <2>3 DEF SavedInv
  <2> QED BY <2>2, <2>3, <2>4, <2>5 DEF SavedInv
<1>11. ASSUME NEW t \in AuditThreads, Spoils(t)
       PROVE  SavedInv'
  <2>1. Sealed' = Sealed
    BY <1>11, SpoilsLog DEF Sealed, Canons
  <2> QED BY <1>11, <2>1, SpoilsLog, SavedStays
<1>12. ASSUME NEW t \in AuditThreads, BeginTombstone(t)
       PROVE  SavedInv'
  <2>1. /\ auditor'[t].pc = "write" /\ \A u \in AuditThreads \ {t} : auditor'[u] = auditor[u]
    BY <1>12, TombstoneSets DEF Is
  <2>2. UNCHANGED <<keysFile, opened, subjectKeys, erasing, keyFaults>> /\ Sealed' = Sealed
        /\ auditor[t].pc = "tombstone"
    BY <1>12 DEF BeginTombstone, Sealed, Canons, File
  <2> QED BY <2>1, <2>2, SavedStays
<1>13. CASE AppendNowhere
  BY <1>13 DEF AppendNowhere, SavedInv, Sealed, Canons, File
<1> QED BY <1>1, <1>2, <1>3, <1>4, <1>5, <1>6, <1>7, <1>8, <1>9, <1>10, <1>11, <1>12, <1>13,
           FlushCases
        DEF AuditNext, AnySubject

AuditInv == AuditTypes /\ LockInv /\ FileInv /\ MemoryInv /\ KeyInv /\ SavedInv

LEMMA AuditInvInit == AuditInit => AuditInv
<1> SUFFICES ASSUME AuditInit PROVE AuditInv
  OBVIOUS
<1>1. File = <<>> /\ DOMAIN File = {} /\ keysFile.keys = {} /\ ~keysFile.torn
  BY DEF AuditInit, File
<1>2. \A t \in AuditThreads : auditor[t] = AtRest
  BY DEF AuditInit
<1>3. AuditTypes
  <2>1. logFile \in [frames : Seq(LogFrame), torn : BOOLEAN]
        /\ keysFile \in [torn : BOOLEAN, keys : SUBSET Keys]
    BY DEF AuditInit
  <2>2. records \in Seq(LogFrame) /\ headMac \in Seq(Canon)
    BY DEF AuditInit
  <2>3. auditor \in [AuditThreads -> Auditor]
    BY AtRestTypes DEF AuditInit
  <2> QED BY <2>1, <2>2, <2>3 DEF AuditInit, AuditTypes
<1>4. LockInv /\ MemoryInv
  BY <1>2, AtRestTypes DEF AuditInit, LockInv, MemoryInv, Held
<1>5. Sealed = {}
  BY <1>1 DEF Sealed, Canons, AuditInit
<1>6. FileInv
  BY <1>1 DEF AuditInit, FileInv, ChainOk
<1>7. KeyInv
  BY <1>1, <1>5 DEF AuditInit, KeyInv, Pairs
<1>8. SavedInv
  BY <1>1, <1>2, <1>5, AtRestTypes DEF AuditInit, SavedInv
<1> QED BY <1>3, <1>4, <1>6, <1>7, <1>8 DEF AuditInv

LEMMA AuditInvNext == AuditInv /\ [AuditNext]_auditVars => AuditInv'
BY LockNext, LogNext, KeyNext, SavedNext DEF AuditInv

\* What append acknowledged on an open log is in the log file for good, unless the
\* write of that record failed or came after one that had, which append does not ask;
\* the file is a chain that verifies and numbers its records without a gap; and while a
\* log is open the key of every acknowledged record is there unless its subject was
\* being forgotten: for any number of threads, subjects and records, failed writes, and
\* a crash between any two steps.
THEOREM AppendIsDurable == AuditSpec => []AckedSurvives
<1>1. AuditInv => AckedSurvives
  <2> SUFFICES ASSUME AuditInv PROVE AckedSurvives
    OBVIOUS
  <2>1. ChainOk(logFile.frames) /\ (\A i \in DOMAIN logFile.frames :
                                      logFile.frames[i].canon.seq = i - 1)
        /\ acked \ unwritten \subseteq {logFile.frames[i].canon : i \in DOMAIN logFile.frames}
    BY DEF AuditInv, FileInv, File
  <2>2. ASSUME opened, keyFaults = 0, NEW r \in acked, r.key # 0
        PROVE  <<r.subject, r.key>> \in subjectKeys \cup erasing
    <3>1. <<r.subject, r.key>> \in Sealed
      BY <2>2 DEF Sealed, Canons
    <3> QED BY <2>2, <3>1 DEF AuditInv, SavedInv
  <2> QED BY <2>1, <2>2 DEF AckedSurvives
<1> QED BY <1>1, AuditInvInit, AuditInvNext, PTL DEF AuditSpec

-----------------------------------------------------------------------------
(* The audit log: what is forgotten *)

\* The keys of the records with a number in A, and what has become of them.
Dead(A) == {File[i].canon.key : i \in {j \in DOMAIN File : File[j].canon.seq \in A}}

Erased(A) ==
  /\ \A q \in A : q \in Nat /\ q < Len(File)
  /\ 0 \notin Dead(A)
  /\ \A k \in subjectKeys : k[2] \notin Dead(A)
  /\ \A i \in DOMAIN File : File[i].canon.key \in Dead(A) => File[i].canon.seq \in A
OffDisk(A) == \A k \in keysFile.keys : k[2] \notin Dead(A)

\* From the moment forget destroys a key memory is without it, and from the
\* rewriting of the key file on the disk is, too.
EraseInv ==
  keyFaults = 0 /\ writeFaults = 0 =>
    /\ \A c \in certs : Erased(c.affected) /\ OffDisk(c.affected)
    /\ \A t \in AuditThreads : auditor[t].forget # NoSubject =>
         /\ Erased(auditor[t].affected)
         /\ auditor[t].pc # "trunc" => OffDisk(auditor[t].affected)

\* A dead key was drawn.
LEMMA DeadKeys ==
  ASSUME AuditInv, NEW A, Erased(A)
  PROVE  \A x \in Dead(A) : x \in Nat /\ x <= nKeys
<1> SUFFICES ASSUME NEW i \in DOMAIN File, File[i].canon.key \in Dead(A)
             PROVE  File[i].canon.key \in Nat /\ File[i].canon.key <= nKeys
  BY DEF Dead
<1>1. File[i].canon.key # 0
  BY DEF Erased
<1>2. <<File[i].canon.subject, File[i].canon.key>> \in Sealed
  BY <1>1 DEF Sealed, Canons
<1>3. <<File[i].canon.subject, File[i].canon.key>> \in Keys
      /\ <<File[i].canon.subject, File[i].canon.key>>[2] <= nKeys
  BY <1>2 DEF AuditInv, KeyInv, Pairs
<1> QED BY <1>3 DEF Keys

\* While the file stays, Erased is about what memory has.
LEMMA ErasedStays ==
  ASSUME NEW A, Erased(A), File' = File, \A k \in subjectKeys' : k[2] \notin Dead(A)
  PROVE  Erased(A)' /\ Dead(A)' = Dead(A)
BY DEF Erased, Dead

\* A frame that reaches the file is sealed with a key that is alive.
LEMMA ErasedFlush ==
  ASSUME NEW t \in AuditThreads, NEW A, AuditInv, Grows(t), Erased(A)
  PROVE  Erased(A)' /\ Dead(A)' = Dead(A)
<1> DEFINE rec == auditor[t].rec
           f   == Framed(headMac, rec)
<1>1. AuditTypes /\ LockInv /\ FileInv /\ MemoryInv
  BY DEF AuditInv
<1>2. f \in LogFrame /\ File' = Append(File, f) /\ f.canon = rec /\ File \in Seq(LogFrame)
      /\ nextSeq = Len(File)
  BY <1>1, FlushGrows DEF Framed, AuditTypes, File
<1>3. auditor[t].pc = "flush" /\ opened
  BY <1>1 DEF Grows, FlushFrame, FlushFails, LockInv
<1>4. rec.seq = nextSeq
  BY <1>1, <1>3 DEF MemoryInv, Numbered
<1>5. rec.key \notin Dead(A)
  <2>1. CASE rec.key = 0
    BY <2>1 DEF Erased
  <2>2. CASE rec.key # 0
    <3>1. <<rec.subject, rec.key>> \in subjectKeys
      BY <1>1, <2>2 DEF LockInv
    <3>2. <<rec.subject, rec.key>>[2] \notin Dead(A)
      BY <3>1 DEF Erased
    <3> QED BY <3>2
  <2> QED BY <2>1, <2>2
<1> HIDE DEF f, rec
<1>6. PICK n \in Nat : n = Len(File)
  BY <1>2
<1>7. /\ File'[n + 1] = f /\ \A i \in 1..n : File'[i] = File[i] /\ Len(File') = n + 1
      /\ DOMAIN File = 1..n /\ DOMAIN File' = 1..(n + 1)
  BY <1>2, <1>6, Appended
<1>8. \A i \in DOMAIN File' : \/ i \in DOMAIN File /\ File'[i] = File[i]
                              \/ i = n + 1 /\ File'[i] = f
  <2>1. \A i \in 1..(n + 1) : i \in 1..n \/ i = n + 1
    OBVIOUS
  <2> QED BY <1>7, <2>1
<1>9. \A i \in DOMAIN File : i \in DOMAIN File' /\ File'[i] = File[i]
  BY <1>7
<1>10. f.canon.seq \notin A
  BY <1>2, <1>4, <1>6 DEF Erased
<1>11. Dead(A)' = Dead(A)
  BY <1>8, <1>9, <1>10 DEF Dead
<1>12. \A q \in A : q \in Nat /\ q < Len(File')
  BY <1>6, <1>7 DEF Erased
<1>13. \A i \in DOMAIN File' : File'[i].canon.key \in Dead(A) => File'[i].canon.seq \in A
  BY <1>2, <1>5, <1>8 DEF Erased
<1>14. subjectKeys' = subjectKeys
  BY DEF Grows, FlushFrame, FlushFails
<1> QED BY <1>11, <1>12, <1>13, <1>14 DEF Erased

\* forget takes all keys of the subject: its records are exactly the affected ones.
LEMMA ForgetErases ==
  ASSUME NEW t \in AuditThreads, NEW s \in Subjects, AuditInv, Forget(t, s), writeFaults = 0
  PROVE  \E A : auditor'[t].affected = A /\ Erased(A)'
<1>1. AuditTypes /\ LockInv /\ FileInv /\ MemoryInv /\ KeyInv
  BY DEF AuditInv
<1>0. PICK A : A = {records[i].canon.seq : i \in {j \in DOMAIN records :
                      records[j].canon.subject = s /\ records[j].canon.key # 0}}
  OBVIOUS
<1>2. auditor'[t].affected = A
  BY <1>0, <1>1, ForgetSets DEF Is
<1>3. records = File
  <2>1. opened /\ \A u \in AuditThreads : auditor[u].pc # "memory"
    BY <1>1, AuditAssumption DEF Forget, LockInv, Held
  <2> QED BY <1>1, <2>1 DEF MemoryInv, AuditTypes
<1>4. PICK n \in Nat : n = Len(File) /\ DOMAIN File = 1..n
  BY <1>1 DEF AuditTypes, File
<1>5. \A i \in DOMAIN File : File[i].canon.seq = i - 1
  BY <1>1 DEF FileInv
<1>6. \A i, j \in DOMAIN File : File[i].canon.seq = File[j].canon.seq => i = j
  BY <1>4, <1>5
<1>7. \A i \in DOMAIN File : File[i].canon.seq \in A <=>
                             File[i].canon.subject = s /\ File[i].canon.key # 0
  BY <1>0, <1>3, <1>6
<1>8. \A q \in A : q \in Nat /\ q < n
  BY <1>0, <1>3, <1>4, <1>5
<1>9. File' = File /\ subjectKeys' = subjectKeys \ KeysOf(s)
  BY DEF Forget, File
<1>10. Dead(A)' = Dead(A) /\ \A x \in Dead(A) : /\ x # 0
                                              /\ <<s, x>> \in Sealed
  <2>1. Dead(A)' = Dead(A)
    BY <1>9 DEF Dead
  <2>2. ASSUME NEW x \in Dead(A) PROVE x # 0 /\ <<s, x>> \in Sealed
    <3>1. PICK i \in DOMAIN File : x = File[i].canon.key /\ File[i].canon.seq \in A
      BY DEF Dead
    <3>2. File[i].canon.subject = s /\ x # 0
      BY <1>7, <3>1
    <3> QED BY <3>1, <3>2 DEF Sealed, Canons
  <2> QED BY <2>1, <2>2
<1>11. ASSUME NEW k \in subjectKeys' PROVE k[2] \notin Dead(A)
  <2>1. k \in subjectKeys /\ k[1] # s
    BY <1>9 DEF KeysOf
  <2> SUFFICES ASSUME k[2] \in Dead(A) PROVE FALSE
    OBVIOUS
  <2>2. <<s, k[2]>> \in Pairs /\ k \in Pairs
    BY <1>10, <2>1 DEF Pairs
  <2>3. <<s, k[2]>>[1] = k[1]
    BY <1>1, <2>2 DEF KeyInv
  <2> QED BY <2>1, <2>3
<1>12. ASSUME NEW i \in DOMAIN File, File[i].canon.key \in Dead(A)
       PROVE  File[i].canon.seq \in A
  <2>1. File[i].canon.key # 0 /\ <<s, File[i].canon.key>> \in Pairs
    BY <1>10, <1>12 DEF Pairs
  <2>2. <<File[i].canon.subject, File[i].canon.key>> \in Pairs
    BY <2>1 DEF Pairs, Sealed, Canons
  <2>3. <<s, File[i].canon.key>>[1] = <<File[i].canon.subject, File[i].canon.key>>[1]
    BY <1>1, <2>1, <2>2 DEF KeyInv
  <2> QED BY <1>7, <2>1, <2>3
<1>13. Erased(A)'
  BY <1>4, <1>8, <1>9, <1>10, <1>11, <1>12 DEF Erased
<1> QED BY <1>2, <1>13

\* Steps that revive no key.
LEMMA EraseKeeps ==
  ASSUME EraseInv, UNCHANGED <<certs, keyFaults, writeFaults>>,
         \A A : Erased(A) => Erased(A)' /\ (OffDisk(A) => OffDisk(A)'),
         \A u \in AuditThreads : auditor'[u].forget # NoSubject =>
            /\ auditor[u].forget # NoSubject /\ auditor'[u].affected = auditor[u].affected
            /\ auditor'[u].pc # "trunc" =>
                 auditor[u].pc # "trunc" \/ \A A : Erased(A) => OffDisk(A)'
  PROVE  EraseInv'
<1> SUFFICES ASSUME keyFaults = 0, writeFaults = 0 PROVE EraseInv'
  BY DEF EraseInv
<1>1. \A c \in certs : Erased(c.affected)' /\ OffDisk(c.affected)'
  BY DEF EraseInv
<1>2. ASSUME NEW u \in AuditThreads, auditor'[u].forget # NoSubject
      PROVE  \E A : /\ A = auditor'[u].affected /\ Erased(A)'
                    /\ auditor'[u].pc # "trunc" => OffDisk(A)'
  <2>1. PICK A : A = auditor[u].affected
    OBVIOUS
  <2>2. Erased(A) /\ (auditor[u].pc # "trunc" => OffDisk(A))
    BY <1>2, <2>1 DEF EraseInv
  <2> QED BY <1>2, <2>1, <2>2
<1> QED BY <1>1, <1>2 DEF EraseInv, Erased, OffDisk, Dead

LEMMA EraseNext ==
  ASSUME AuditInv, EraseInv, [AuditNext]_auditVars
  PROVE  EraseInv'
<1>0. AuditTypes /\ LockInv /\ KeyInv
  BY DEF AuditInv
<1> SUFFICES ASSUME keyFaults' = 0, writeFaults' = 0 PROVE EraseInv'
  BY DEF EraseInv
<1>1. CASE UNCHANGED auditVars
  BY <1>1 DEF auditVars, EraseInv, Erased, OffDisk, Dead, File
<1>2. CASE OpenLog
  <2>1. /\ File' = File /\ subjectKeys' = keysFile.keys /\ ~opened
        /\ UNCHANGED <<keysFile, auditor, certs, keyFaults, writeFaults>>
    BY <1>2 DEF OpenLog, outVars, File
  <2>2. \A A : Erased(A) /\ OffDisk(A) => Erased(A)' /\ OffDisk(A)'
    BY <2>1 DEF Erased, OffDisk, Dead
  <2>3. \A u \in AuditThreads : auditor[u].pc # "trunc"
    BY <1>0, <2>1 DEF LockInv
  <2>4. \A c \in certs : Erased(c.affected)' /\ OffDisk(c.affected)'
    BY <2>1, <2>2 DEF EraseInv
  <2>5. ASSUME NEW u \in AuditThreads, auditor[u].forget # NoSubject
        PROVE  \E A : A = auditor'[u].affected /\ Erased(A)' /\ OffDisk(A)'
    BY <2>1, <2>2, <2>3, <2>5 DEF EraseInv
  <2> QED BY <2>1, <2>4, <2>5 DEF EraseInv, Erased, OffDisk, Dead
<1>3. CASE CrashLog
  <2>1. /\ File' = File /\ subjectKeys' = {}
        /\ UNCHANGED <<keysFile, certs, keyFaults, writeFaults>>
    BY <1>3 DEF CrashLog, File
  <2>2. \A u \in AuditThreads : auditor'[u].forget = NoSubject
    BY <1>3, AtRestTypes DEF CrashLog
  <2>3. \A A : Erased(A) => Erased(A)' /\ (OffDisk(A) => OffDisk(A)')
    BY <2>1 DEF Erased, OffDisk, Dead
  <2> QED BY <2>1, <2>2, <2>3, EraseKeeps
<1>4. ASSUME NEW t \in AuditThreads, NEW s \in AnySubject, BeginAppend(t, s)
      PROVE  EraseInv'
  <2>1. /\ auditor'[t].forget = NoSubject
        /\ \A u \in AuditThreads \ {t} : auditor'[u] = auditor[u]
    BY <1>0, <1>4, AppendKey DEF Is
  <2>2. subjectKeys' \subseteq subjectKeys \cup {<<s, nKeys + 1>>}
    BY <1>4 DEF BeginAppend
  <2>3. UNCHANGED <<keysFile, certs, keyFaults, writeFaults>> /\ File' = File /\ nKeys \in Nat
    BY <1>0, <1>4 DEF BeginAppend, outVars, File, AuditTypes
  <2>4. ASSUME NEW A, Erased(A) PROVE Erased(A)' /\ (OffDisk(A) => OffDisk(A)')
    <3>1. nKeys + 1 \notin Dead(A)
      BY <2>3, <2>4, DeadKeys
    <3>2. \A k \in subjectKeys' : k[2] \notin Dead(A)
      BY <2>2, <2>4, <3>1 DEF Erased
    <3>3. Erased(A)' /\ Dead(A)' = Dead(A)
      BY <2>3, <2>4, <3>2, ErasedStays
    <3> QED BY <2>3, <3>3 DEF OffDisk
  <2> QED BY <2>1, <2>3, <2>4, EraseKeeps
<1>5. ASSUME NEW t \in AuditThreads, NEW s \in Subjects, Forget(t, s)
      PROVE  EraseInv'
  <2>1. /\ auditor'[t].pc = "trunc"
        /\ \A u \in AuditThreads \ {t} : auditor'[u] = auditor[u]
    BY <1>0, <1>5, ForgetSets DEF Is
  <2>2. UNCHANGED <<keysFile, certs, keyFaults, writeFaults>> /\ File' = File
        /\ subjectKeys' \subseteq subjectKeys
    BY <1>5 DEF Forget, outVars, File
  <2>3. \A A : Erased(A) => Erased(A)' /\ (OffDisk(A) => OffDisk(A)')
    BY <2>2 DEF Erased, OffDisk, Dead
  <2>4. PICK B : auditor'[t].affected = B /\ Erased(B)'
    BY <1>5, <2>2, ForgetErases
  <2>5. \A c \in certs : Erased(c.affected)' /\ OffDisk(c.affected)'
    BY <2>2, <2>3 DEF EraseInv
  <2>6. ASSUME NEW u \in AuditThreads, auditor'[u].forget # NoSubject
        PROVE  \E A : /\ A = auditor'[u].affected /\ Erased(A)'
                      /\ auditor'[u].pc # "trunc" => OffDisk(A)'
    <3>1. CASE u = t
      BY <2>1, <2>4, <3>1
    <3>2. CASE u # t
      <4>1. PICK A : A = auditor[u].affected
        OBVIOUS
      <4>2. Erased(A) /\ (auditor[u].pc # "trunc" => OffDisk(A)) /\ auditor'[u] = auditor[u]
        BY <2>1, <2>2, <2>6, <3>2, <4>1 DEF EraseInv
      <4> QED BY <2>3, <4>1, <4>2
    <3> QED BY <3>1, <3>2
  <2> QED BY <2>2, <2>5, <2>6 DEF EraseInv, Erased, OffDisk, Dead
<1>6. ASSUME NEW t \in AuditThreads, TruncateKeys(t)
      PROVE  EraseInv'
  <2>1. /\ auditor'[t].forget = auditor[t].forget /\ auditor'[t].affected = auditor[t].affected
        /\ \A u \in AuditThreads \ {t} : auditor'[u] = auditor[u]
    BY <1>0, <1>6, SetPc DEF TruncateKeys, AuditTypes, Held, Is
  <2>2. UNCHANGED <<subjectKeys, certs, keyFaults, writeFaults>> /\ File' = File /\ keysFile'.keys = {}
    BY <1>6 DEF TruncateKeys, outVars, File
  <2>3. \A A : Erased(A) => Erased(A)' /\ OffDisk(A)'
    BY <2>2 DEF Erased, OffDisk, Dead
  <2> QED BY <2>1, <2>2, <2>3, EraseKeeps
<1>7. ASSUME NEW t \in AuditThreads, WriteKeys(t)
      PROVE  EraseInv'
  <2>1. /\ auditor'[t].forget = auditor[t].forget /\ auditor'[t].affected = auditor[t].affected
        /\ \A u \in AuditThreads \ {t} : auditor'[u] = auditor[u]
    BY <1>0, <1>7, AfterKeysSets DEF WriteKeys, AuditTypes, Is
  <2>2. UNCHANGED <<subjectKeys, certs, keyFaults, writeFaults>> /\ File' = File
        /\ keysFile'.keys = subjectKeys
    BY <1>7 DEF WriteKeys, outVars, File
  <2>3. \A A : Erased(A) => Erased(A)' /\ OffDisk(A)'
    BY <2>2 DEF Erased, OffDisk, Dead
  <2> QED BY <2>1, <2>2, <2>3, EraseKeeps
<1>8. ASSUME NEW t \in AuditThreads, KeysNotSaved(t)
      PROVE  EraseInv'
  BY <1>0, <1>8 DEF KeysNotSaved, AuditTypes
<1>9. ASSUME NEW t \in AuditThreads, WriteFrame(t)
      PROVE  EraseInv'
  <2>1. /\ auditor'[t].forget = auditor[t].forget /\ auditor'[t].affected = auditor[t].affected
        /\ \A u \in AuditThreads \ {t} : auditor'[u] = auditor[u]
    BY <1>0, <1>9, SetPc DEF WriteFrame, AuditTypes, Held, Is
  <2>2. UNCHANGED <<subjectKeys, keysFile, certs, keyFaults, writeFaults>> /\ File' = File
        /\ auditor[t].pc = "write"
    BY <1>0, <1>9 DEF WriteFrame, outVars, File, AuditTypes
  <2>3. \A A : Erased(A) => Erased(A)' /\ (OffDisk(A) => OffDisk(A)')
    BY <2>2 DEF Erased, OffDisk, Dead
  <2> QED BY <2>1, <2>2, <2>3, EraseKeeps
<1>10. ASSUME NEW t \in AuditThreads, FlushFrame(t)
       PROVE  EraseInv'
  <2>1. /\ auditor'[t].forget = auditor[t].forget /\ auditor'[t].affected = auditor[t].affected
        /\ \A u \in AuditThreads \ {t} : auditor'[u] = auditor[u]
    BY <1>0, <1>10, SetPc DEF FlushFrame, AuditTypes, Held, Is
  <2>2. UNCHANGED <<keysFile, certs, keyFaults, writeFaults>> /\ auditor[t].pc = "flush"
    BY <1>10 DEF FlushFrame
  <2>3. ASSUME NEW A, Erased(A) PROVE Erased(A)' /\ (OffDisk(A) => OffDisk(A)')
    <3>1. Erased(A)' /\ Dead(A)' = Dead(A)
      BY <1>10, <2>3, ErasedFlush DEF FlushFrame, Grows
    <3> QED BY <2>2, <3>1 DEF OffDisk
  <2> QED BY <2>1, <2>2, <2>3, EraseKeeps
<1>11. ASSUME NEW t \in AuditThreads, EndAppend(t)
       PROVE  EraseInv'
  <2>1. /\ auditor'[t] = AtRest /\ \A u \in AuditThreads \ {t} : auditor'[u] = auditor[u]
    BY <1>0, <1>11, SetOne, AtRestTypes DEF EndAppend, AuditTypes
  <2>2. UNCHANGED <<subjectKeys, keysFile, keyFaults, writeFaults>> /\ File' = File
        /\ auditor[t].pc = "memory"
    BY <1>11 DEF EndAppend, outVars, File
  <2>3. \A A : /\ Erased(A) => Erased(A)'
               /\ OffDisk(A) => OffDisk(A)'
    BY <2>2 DEF Erased, OffDisk, Dead
  <2>4. ASSUME NEW c \in certs' PROVE Erased(c.affected) /\ OffDisk(c.affected)
    <3>1. CASE c \in certs
      BY <2>2, <3>1 DEF EraseInv
    <3>2. CASE c \notin certs
      <4>1. auditor[t].forget # NoSubject
            /\ c = [subject |-> auditor[t].forget, affected |-> auditor[t].affected]
        BY <1>11, <3>2 DEF EndAppend
      <4>2. c.affected = auditor[t].affected
        BY <4>1
      <4> QED BY <2>2, <4>1, <4>2 DEF EraseInv
    <3> QED BY <3>1, <3>2
  <2>5. ASSUME NEW u \in AuditThreads, auditor'[u].forget # NoSubject
        PROVE  \E A : /\ A = auditor'[u].affected /\ Erased(A)'
                      /\ auditor'[u].pc # "trunc" => OffDisk(A)'
    <3>1. auditor'[u] = auditor[u]
      BY <2>1, <2>5, AtRestTypes
    <3>2. PICK A : A = auditor[u].affected
      OBVIOUS
    <3>3. Erased(A) /\ (auditor[u].pc # "trunc" => OffDisk(A))
      BY <2>2, <2>5, <3>1, <3>2 DEF EraseInv
    <3> QED BY <2>3, <3>1, <3>2, <3>3
  <2>6. \A c \in certs' : Erased(c.affected)' /\ OffDisk(c.affected)'
    BY <2>3, <2>4
  <2> QED BY <2>5, <2>6 DEF EraseInv, Erased, OffDisk, Dead
<1>12. ASSUME NEW t \in AuditThreads, BeginTombstone(t)
       PROVE  EraseInv'
  <2>1. /\ auditor'[t].forget = auditor[t].forget /\ auditor'[t].affected = auditor[t].affected
        /\ \A u \in AuditThreads \ {t} : auditor'[u] = auditor[u]
    BY <1>0, <1>12, TombstoneSets DEF Is
  <2>2. UNCHANGED <<subjectKeys, keysFile, certs, keyFaults, writeFaults>> /\ File' = File
        /\ auditor[t].pc = "tombstone"
    BY <1>12 DEF BeginTombstone, outVars, File
  <2>3. \A A : Erased(A) => Erased(A)' /\ (OffDisk(A) => OffDisk(A)')
    BY <2>2 DEF Erased, OffDisk, Dead
  <2> QED BY <2>1, <2>2, <2>3, EraseKeeps
<1>13. CASE AppendNowhere
  <2>1. UNCHANGED <<subjectKeys, keysFile, certs, keyFaults, writeFaults, auditor>> /\ File' = File
    BY <1>13 DEF AppendNowhere, outVars, File
  <2>2. \A A : Erased(A) => Erased(A)' /\ (OffDisk(A) => OffDisk(A)')
    BY <2>1 DEF Erased, OffDisk, Dead
  <2> QED BY <2>1, <2>2, EraseKeeps
<1>14. \A t \in AuditThreads : ~WriteNothing(t) /\ ~FlushFails(t)
  BY <1>0 DEF AuditTypes, WriteNothing, FlushFails
<1> QED BY <1>1, <1>2, <1>3, <1>4, <1>5, <1>6, <1>7, <1>8, <1>9, <1>10, <1>11, <1>12, <1>13,
           <1>14
        DEF AuditNext, AnySubject

\* Once forget has issued its certificate no key of a record it covers is in memory
\* or in the key file, and none comes back with a crash, a restart or another
\* thread's rewriting of the file; nor was another record sealed with one.  (As long
\* as no write to either file failed, which forget does not notice.)
THEOREM ErasureIsFinal == AuditSpec => []ErasedForever
<1>1. AuditInit => EraseInv
  BY AtRestTypes DEF AuditInit, EraseInv
<1>2. AuditInv /\ EraseInv => ErasedForever
  <2> SUFFICES ASSUME AuditInv, EraseInv, keyFaults = 0, writeFaults = 0, NEW c \in certs
               PROVE  LET covered == {r \in ToSet(logFile.frames) : r.canon.seq \in c.affected}
                          dead    == {r.canon.key : r \in covered}
                      IN /\ \A k \in subjectKeys \union keysFile.keys : k[2] \notin dead
                         /\ \A r \in ToSet(logFile.frames) : r.canon.key \in dead => r \in covered
    BY DEF ErasedForever
  <2>1. Erased(c.affected) /\ OffDisk(c.affected)
    BY DEF EraseInv
  <2>2. ToSet(logFile.frames) = {File[i] : i \in DOMAIN File}
    BY DEF ToSet, File
  <2>3. {r.canon.key : r \in {q \in ToSet(logFile.frames) : q.canon.seq \in c.affected}}
          = Dead(c.affected)
    BY <2>2 DEF Dead
  <2> QED BY <2>1, <2>2, <2>3 DEF Erased, OffDisk
<1> QED BY <1>1, <1>2, AuditInvInit, AuditInvNext, EraseNext, PTL DEF AuditSpec

-----------------------------------------------------------------------------
(* The secret store: what a table of secrets looks like *)

Version == [num : Nat, value : Nat]
Secret  == [owner : Principals, current : Nat, granted : SUBSET Principals,
            versions : Seq(Version)]

\* The numbers of a secret's versions grow, up to the current one.
GoodSecret(s) ==
  /\ s \in Secret
  /\ Len(s.versions) > 0
  /\ \A i, j \in DOMAIN s.versions : i < j => s.versions[i].num < s.versions[j].num
  /\ s.versions[Len(s.versions)].num = s.current
GoodStore(m) == \A n \in DOMAIN m : GoodSecret(m[n])

\* No value is in two places of a table.
Apart(m) ==
  \A a, b \in DOMAIN m : \A i \in DOMAIN m[a].versions, j \in DOMAIN m[b].versions :
    m[a].versions[i].value = m[b].versions[j].value => a = b /\ i = j

HasValue(m, v) == \E n \in DOMAIN m : \E i \in DOMAIN m[n].versions : m[n].versions[i].value = v

Proper(m) == /\ GoodStore(m) /\ Apart(m)
             /\ \A v : HasValue(m, v) => v \in Nat /\ v <= values

\* v is a version that secret n of the store has.
Kept(n, v) ==
  n \in DOMAIN secrets /\ \E j \in DOMAIN secrets[n].versions : secrets[n].versions[j] = v

\* What a change makes of the table: every version was there, or is the newest one
\* and has the value just made; out is taken out.
Grown(m, out, top) ==
  /\ GoodStore(m) /\ Apart(m)
  /\ \A n \in DOMAIN m : \A i \in DOMAIN m[n].versions :
       \/ Kept(n, m[n].versions[i])
       \/ i = Len(m[n].versions) /\ m[n].versions[i].value = top /\ top > values
  /\ \A v \in out : HasValue(secrets, v) /\ ~HasValue(m, v)

\* The same of the one secret a change is about.
GrownSecret(n, s, out, top) ==
  /\ GoodSecret(s)
  /\ \A i, j \in DOMAIN s.versions : s.versions[i].value = s.versions[j].value => i = j
  /\ \A i \in DOMAIN s.versions :
       \/ Kept(n, s.versions[i])
       \/ i = Len(s.versions) /\ s.versions[i].value = top /\ top > values
  /\ \A v \in out : /\ HasValue(secrets, v) /\ n \in DOMAIN secrets
                    /\ \E j \in DOMAIN secrets[n].versions : secrets[n].versions[j].value = v
                    /\ \A i \in DOMAIN s.versions : s.versions[i].value # v

LEMMA WithGrown ==
  ASSUME Proper(secrets), values \in Nat,
         NEW n, NEW s, NEW out, NEW top \in Nat, GrownSecret(n, s, out, top)
  PROVE  Grown(With(n, s), out, top)
<1>1. PICK m : m = With(n, s)
  OBVIOUS
<1>2. /\ DOMAIN m = DOMAIN secrets \cup {n} /\ m[n] = s
      /\ \A a \in DOMAIN secrets : a # n => m[a] = secrets[a]
  BY <1>1 DEF With
<1>3. GoodStore(m)
  BY <1>2 DEF GoodStore, GrownSecret, Proper
<1>4. ASSUME NEW a \in DOMAIN secrets, NEW i \in DOMAIN secrets[a].versions
      PROVE  secrets[a].versions[i].value \in Nat /\ secrets[a].versions[i].value <= values
  BY <1>4 DEF Proper, HasValue
<1>5. ASSUME NEW a \in DOMAIN m, NEW i \in DOMAIN m[a].versions, NEW j \in DOMAIN s.versions,
             a # n, m[a].versions[i].value = s.versions[j].value
      PROVE  FALSE
  <2>1. a \in DOMAIN secrets /\ m[a] = secrets[a]
    BY <1>2, <1>5
  <2>2. CASE Kept(n, s.versions[j])
    BY <1>5, <2>1, <2>2 DEF Kept, Proper, Apart
  <2>3. CASE s.versions[j].value = top /\ top > values
    BY <1>4, <1>5, <2>1, <2>3
  <2> QED BY <2>2, <2>3 DEF GrownSecret
<1>6. Apart(m)
  <2> SUFFICES ASSUME NEW a \in DOMAIN m, NEW b \in DOMAIN m,
                      NEW i \in DOMAIN m[a].versions, NEW j \in DOMAIN m[b].versions,
                      m[a].versions[i].value = m[b].versions[j].value
               PROVE  a = b /\ i = j
    BY DEF Apart
  <2>1. CASE a = n /\ b = n
    BY <1>2, <2>1 DEF GrownSecret
  <2>2. CASE a # n /\ b # n
    BY <1>2, <2>2 DEF Proper, Apart
  <2>3. CASE a # n /\ b = n
    BY <1>2, <1>5, <2>3
  <2>4. CASE a = n /\ b # n
    BY <1>2, <1>5, <2>4
  <2> QED BY <2>1, <2>2, <2>3, <2>4
<1>7. ASSUME NEW a \in DOMAIN m, NEW i \in DOMAIN m[a].versions
      PROVE  \/ Kept(a, m[a].versions[i])
             \/ i = Len(m[a].versions) /\ m[a].versions[i].value = top /\ top > values
  BY <1>2, <1>7 DEF GrownSecret, Kept
<1>8. ASSUME NEW v \in out
      PROVE  HasValue(secrets, v) /\ ~HasValue(m, v)
  <2>1. PICK j \in DOMAIN secrets[n].versions : secrets[n].versions[j].value = v
    BY DEF GrownSecret
  <2>2. ASSUME NEW a \in DOMAIN m, NEW i \in DOMAIN m[a].versions, m[a].versions[i].value = v
        PROVE  FALSE
    BY <1>2, <2>1, <2>2 DEF GrownSecret, Proper, Apart
  <2> QED BY <2>2 DEF GrownSecret, HasValue
<1> QED BY <1>1, <1>3, <1>6, <1>7, <1>8 DEF Grown

LEMMA WithoutGrown ==
  ASSUME Proper(secrets), values \in Nat, NEW n \in DOMAIN secrets, NEW top
  PROVE  Grown(Without(n), ValuesOf(secrets[n].versions), top)
<1>1. PICK m : m = Without(n)
  OBVIOUS
<1>2. /\ DOMAIN m = DOMAIN secrets \ {n}
      /\ \A a \in DOMAIN m : m[a] = secrets[a]
  BY <1>1 DEF Without
<1>3. GoodStore(m) /\ Apart(m)
  BY <1>2 DEF GoodStore, Proper, Apart
<1>4. \A a \in DOMAIN m : \A i \in DOMAIN m[a].versions : Kept(a, m[a].versions[i])
  BY <1>2 DEF Kept
<1>5. ASSUME NEW v \in ValuesOf(secrets[n].versions)
      PROVE  HasValue(secrets, v) /\ ~HasValue(m, v)
  <2>1. PICK j \in DOMAIN secrets[n].versions : secrets[n].versions[j].value = v
    BY DEF ValuesOf
  <2>2. ASSUME NEW a \in DOMAIN m, NEW i \in DOMAIN m[a].versions, m[a].versions[i].value = v
        PROVE  FALSE
    BY <1>2, <2>1, <2>2 DEF Proper, Apart
  <2> QED BY <2>1, <2>2 DEF HasValue
<1> QED BY <1>1, <1>3, <1>4, <1>5 DEF Grown

-----------------------------------------------------------------------------
(* What put, rotate, setPolicy and pruneOldVersions make of a secret *)

LEMMA PutGrows ==
  ASSUME values \in Nat, NEW p \in Principals, NEW n,
         NEW s, s = [owner |-> p, current |-> 1, granted |-> {},
                     versions |-> <<[num |-> 1, value |-> values + 1]>>]
  PROVE  GrownSecret(n, s, {}, values + 1)
<1>1. PICK v : v = [num |-> 1, value |-> values + 1]
  OBVIOUS
<1>2. v \in Version /\ v.value = values + 1 /\ v.num = 1
  BY <1>1 DEF Version
<1>3. s.versions = <<v>> /\ s.current = 1
  BY <1>1
<1>4. <<v>> \in Seq(Version) /\ DOMAIN <<v>> = {1} /\ <<v>>[1] = v /\ Len(<<v>>) = 1
  BY <1>2
<1>5. s \in Secret
  BY <1>1, <1>4 DEF Secret
<1> QED BY <1>2, <1>3, <1>4, <1>5 DEF GrownSecret, GoodSecret

LEMMA RotateGrows ==
  ASSUME Proper(secrets), values \in Nat, NEW n \in DOMAIN secrets, NEW s,
         s = [secrets[n] EXCEPT !.current = @ + 1,
                !.versions = Append(@, [num |-> secrets[n].current + 1, value |-> values + 1])]
  PROVE  GrownSecret(n, s, {}, values + 1)
<1>1. GoodSecret(secrets[n])
  BY DEF Proper, GoodStore
<1>2. PICK q \in Seq(Version) : q = secrets[n].versions
  BY <1>1 DEF GoodSecret, Secret
<1>3. PICK c \in Nat : c = secrets[n].current
  BY <1>1 DEF GoodSecret, Secret
<1>4. PICK v \in Version : v = [num |-> c + 1, value |-> values + 1]
  <2>1. [num |-> c + 1, value |-> values + 1] \in Version
    BY DEF Version
  <2> QED BY <2>1
<1>5. v.num = c + 1 /\ v.value = values + 1
  BY <1>4
<1>6. PICK r : r = Append(q, v)
  OBVIOUS
<1>7. PICK k \in Nat : k = Len(q)
  OBVIOUS
<1>8. /\ r \in Seq(Version) /\ Len(r) = k + 1 /\ r[k + 1] = v /\ \A i \in 1..k : r[i] = q[i]
      /\ DOMAIN q = 1..k /\ DOMAIN r = 1..(k + 1)
  BY <1>6, <1>7, Appended
<1>9. s.versions = r /\ s.current = c + 1 /\ s \in Secret
  <2>1. secrets[n] \in Secret /\ c + 1 \in Nat
    BY <1>1 DEF GoodSecret
  <2>2. s = [secrets[n] EXCEPT !.current = c + 1, !.versions = r]
    BY <1>2, <1>3, <1>4, <1>6
  <2> QED BY <1>8, <2>1, <2>2 DEF Secret
<1>10. /\ k > 0 /\ q[k].num = c
       /\ \A i, j \in 1..k : i < j => q[i].num < q[j].num
       /\ \A i \in 1..k : q[i] \in Version /\ q[i].num \in Nat /\ q[i].value \in Nat
  <2>1. k > 0 /\ q[k].num = c /\ \A i, j \in 1..k : i < j => q[i].num < q[j].num
    BY <1>1, <1>2, <1>3, <1>7, <1>8 DEF GoodSecret
  <2>2. \A i \in 1..k : q[i] \in Version
    BY <1>7, <1>8
  <2> QED BY <2>1, <2>2 DEF Version
<1>11. \A i \in 1..k : q[i].num <= c
  <2> SUFFICES ASSUME NEW i \in 1..k PROVE q[i].num <= c
    OBVIOUS
  <2>1. i = k \/ i < k
    OBVIOUS
  <2>2. k \in 1..k
    BY <1>10
  <2> QED BY <1>10, <2>1, <2>2
<1>12. GoodSecret(s)
  <2>1. ASSUME NEW i \in 1..(k + 1), NEW j \in 1..(k + 1), i < j
        PROVE  r[i].num < r[j].num
    <3>1. i \in 1..k /\ (j \in 1..k \/ j = k + 1)
      BY <2>1
    <3> QED BY <1>5, <1>8, <1>10, <1>11, <2>1, <3>1
  <2> QED BY <1>5, <1>8, <1>9, <2>1 DEF GoodSecret
<1>13. \A i \in 1..k : q[i].value <= values /\ Kept(n, q[i])
  BY <1>2, <1>8 DEF Proper, HasValue, Kept
<1>14. \A i, j \in 1..k : q[i].value = q[j].value => i = j
  BY <1>2, <1>8 DEF Proper, Apart
<1>15. ASSUME NEW i \in 1..(k + 1), NEW j \in 1..(k + 1), r[i].value = r[j].value
       PROVE  i = j
  <2>1. (i \in 1..k \/ i = k + 1) /\ (j \in 1..k \/ j = k + 1)
    OBVIOUS
  <2>2. \A a \in 1..k : q[a].value # v.value
    BY <1>5, <1>10, <1>13
  <2> QED BY <1>8, <1>14, <1>15, <2>1, <2>2
<1>16. ASSUME NEW i \in 1..(k + 1)
       PROVE  \/ Kept(n, r[i])
              \/ i = k + 1 /\ r[i].value = values + 1 /\ values + 1 > values
  <2>1. i \in 1..k \/ i = k + 1
    OBVIOUS
  <2> QED BY <1>5, <1>8, <1>13, <2>1
<1>17. DOMAIN s.versions = 1..(k + 1) /\ Len(s.versions) = k + 1
  BY <1>8, <1>9
<1>18. \A i, j \in DOMAIN s.versions : s.versions[i].value = s.versions[j].value => i = j
  BY <1>9, <1>15, <1>17
<1>19. \A i \in DOMAIN s.versions :
         \/ Kept(n, s.versions[i])
         \/ /\ i = Len(s.versions) /\ s.versions[i].value = values + 1
            /\ values + 1 > values
  BY <1>9, <1>16, <1>17
<1> QED BY <1>12, <1>18, <1>19 DEF GrownSecret

LEMMA PolicyGrows ==
  ASSUME Proper(secrets), values \in Nat, NEW n \in DOMAIN secrets, NEW g \in SUBSET Principals,
         NEW s, s = [secrets[n] EXCEPT !.granted = g]
  PROVE  GrownSecret(n, s, {}, values)
<1>1. GoodSecret(secrets[n])
  BY DEF Proper, GoodStore
<1>2. s.versions = secrets[n].versions /\ s.current = secrets[n].current /\ s \in Secret
  BY <1>1 DEF GoodSecret, Secret
<1>3. \A i, j \in DOMAIN secrets[n].versions :
        secrets[n].versions[i].value = secrets[n].versions[j].value => i = j
  BY DEF Proper, Apart
<1> QED BY <1>1, <1>2, <1>3 DEF GrownSecret, GoodSecret, Kept

\* Versions that are in order already: sorting them keeps them all, in order.
LEMMA SortedKeeps ==
  ASSUME NEW q \in Seq(Version), \A i, j \in DOMAIN q : i < j => q[i].num < q[j].num
  PROVE  \E o \in [DOMAIN q -> DOMAIN q] :
           /\ \A i, j \in DOMAIN q : o[i] = o[j] => i = j
           /\ \A j \in DOMAIN q : \E i \in DOMAIN q : o[i] = j
           /\ \A i, j \in DOMAIN q : i < j => q[o[i]].num <= q[o[j]].num
           /\ Sorted(q) = [i \in DOMAIN q |-> q[o[i]]]
<1> DEFINE Good(o) == \A i, j \in DOMAIN q : i < j => q[o[i]].num <= q[o[j]].num
<1>1. \A i \in DOMAIN q : i \in Nat /\ q[i].num \in Nat
  <2>1. \A i \in DOMAIN q : i \in Nat /\ q[i] \in Version
    OBVIOUS
  <2> QED BY <2>1 DEF Version
<1>2. PICK d : d = [i \in DOMAIN q |-> i]
  OBVIOUS
<1>3. d \in Bijection(DOMAIN q, DOMAIN q)
  BY <1>2 DEF Bijection, Injection, Surjection, IsInjective
<1>4. Good(d)
  BY <1>1, <1>2
<1>5. PICK o : o = CHOOSE x \in Bijection(DOMAIN q, DOMAIN q) : Good(x)
  OBVIOUS
<1>6. o \in Bijection(DOMAIN q, DOMAIN q) /\ Good(o)
  <2> HIDE DEF Good
  <2> QED BY <1>3, <1>4, <1>5
<1>7. Sorted(q) = [i \in DOMAIN q |-> q[o[i]]]
  BY <1>5 DEF Sorted
<1> QED BY <1>6, <1>7 DEF Bijection, Injection, Surjection, IsInjective

\* What is left of them, r, and what goes, x, when the first ones are erased.
Cut(q, r, x, o, k, drop, h) ==
  /\ r \in Seq(Version) /\ x \in Seq(Version) /\ o \in [1..k -> 1..k]
  /\ Len(r) = h /\ Len(x) = drop
  /\ \A i, j \in 1..h : i < j => r[i].num < r[j].num
  /\ r[h] = q[k]
  /\ \A i, j \in 1..k : o[i] = o[j] => i = j
  /\ \A i \in 1..h : r[i] = q[o[i + drop]]
  /\ \A i \in 1..drop : x[i] = q[o[i]]

LEMMA CutKeeps ==
  ASSUME NEW q \in Seq(Version), NEW drop \in Nat, NEW h \in Nat \ {0}, NEW k \in Nat,
         k = drop + h, Len(q) = k,
         \A i, j \in DOMAIN q : i < j => q[i].num < q[j].num
  PROVE  \E o : Cut(q, SubSeq(Sorted(q), drop + 1, k), SubSeq(Sorted(q), 1, drop), o, k, drop, h)
<1>1. k = drop + h
  OBVIOUS
<1>2. DOMAIN q = 1..k /\ k > 0 /\ drop < k /\ Len(q) = k /\ k \in 1..k
  BY <1>1
<1>3. PICK o \in [DOMAIN q -> DOMAIN q] :
        /\ \A i, j \in DOMAIN q : o[i] = o[j] => i = j
        /\ \A j \in DOMAIN q : \E i \in DOMAIN q : o[i] = j
        /\ \A i, j \in DOMAIN q : i < j => q[o[i]].num <= q[o[j]].num
        /\ Sorted(q) = [i \in DOMAIN q |-> q[o[i]]]
  BY SortedKeeps
<1>4. PICK sorted : sorted = Sorted(q)
  OBVIOUS
<1>5. /\ o \in [1..k -> 1..k]
      /\ \A i, j \in 1..k : o[i] = o[j] => i = j
      /\ \A j \in 1..k : \E i \in 1..k : o[i] = j
      /\ \A i, j \in 1..k : i < j => q[o[i]].num <= q[o[j]].num
      /\ sorted = [i \in 1..k |-> q[o[i]]]
  BY <1>2, <1>3, <1>4
<1>6. \A i \in 1..k : q[i] \in Version /\ q[i].num \in Nat
  <2>1. \A i \in 1..k : q[i] \in Version
    BY <1>2
  <2> QED BY <2>1 DEF Version
<1>7. sorted \in Seq(Version) /\ Len(sorted) = k /\ \A i \in 1..k : sorted[i] = q[o[i]]
  <2>1. sorted \in [1..k -> Version]
    BY <1>5, <1>6
  <2>2. sorted \in Seq(Version) /\ DOMAIN sorted = 1..k
    BY <2>1
  <2>3. Len(sorted) = k
    BY <2>2
  <2> QED BY <1>5, <2>2, <2>3
<1>8. PICK r : r = SubSeq(sorted, drop + 1, k)
  OBVIOUS
<1>9. PICK x : x = SubSeq(sorted, 1, drop)
  OBVIOUS
<1>10. \A i \in 1..h : i + drop \in 1..k /\ i + drop \in Nat
  BY <1>1
<1>11. r \in Seq(Version) /\ Len(r) = h /\ \A i \in 1..h : r[i] = q[o[i + drop]]
  <2>1. drop + 1 \in 1..(Len(sorted) + 1) /\ k \in drop..Len(sorted) /\ drop + 1 <= k
        /\ k - (drop + 1) + 1 = h
    BY <1>1, <1>2, <1>7
  <2>2. r \in Seq(Version) /\ Len(r) = k - (drop + 1) + 1
    BY <1>2, <1>7, <1>8, <2>1
  <2>3. \A i \in 1..h : r[i] = sorted[drop + 1 + i - 1]
    <3>1. \A i \in 1..(k - (drop + 1) + 1) : r[i] = sorted[drop + 1 + i - 1]
      BY <1>7, <1>8, <2>1, SubSeqProperties
    <3> QED BY <2>1, <3>1
  <2>4. \A i \in 1..h : drop + 1 + i - 1 = i + drop
    OBVIOUS
  <2> QED BY <1>7, <1>10, <2>1, <2>2, <2>3, <2>4
<1>12. x \in Seq(Version) /\ Len(x) = drop /\ \A i \in 1..drop : x[i] = q[o[i]]
  <2>1. drop \in 0..Len(sorted) /\ \A i \in 1..drop : i \in 1..k
    BY <1>2, <1>7
  <2>2. x \in Seq(Version) /\ Len(x) = drop
    BY <1>7, <1>9, <2>1
  <2>3. \A i \in 1..drop : x[i] = sorted[i]
    BY <1>7, <1>9, <2>1
  <2> QED BY <1>7, <2>1, <2>2, <2>3
<1>13. \A i, j \in 1..k : i < j => q[o[i]].num < q[o[j]].num
  <2> SUFFICES ASSUME NEW i \in 1..k, NEW j \in 1..k, i < j
               PROVE  q[o[i]].num < q[o[j]].num
    OBVIOUS
  <2>1. o[i] \in 1..k /\ o[j] \in 1..k /\ o[i] # o[j] /\ q[o[i]].num <= q[o[j]].num
    <3>1. i # j
      OBVIOUS
    <3>2. o[i] \in 1..k /\ o[j] \in 1..k /\ o[i] # o[j]
      BY <1>5, <3>1
    <3> QED BY <1>5, <3>2
  <2>2. q[o[i]].num # q[o[j]].num
    <3>1. o[i] < o[j] \/ o[j] < o[i]
      BY <2>1
    <3>2. q[o[i]].num < q[o[j]].num \/ q[o[j]].num < q[o[i]].num
      BY <1>2, <2>1, <3>1
    <3> QED BY <1>6, <2>1, <3>2
  <2>3. q[o[i]].num \in Nat /\ q[o[j]].num \in Nat
    BY <1>6, <2>1
  <2> QED BY <2>1, <2>2, <2>3
<1>14. o[k] = k
  <2>1. PICK i \in 1..k : o[i] = k
    BY <1>2, <1>5
  <2>2. o[k] \in 1..k
    BY <1>2, <1>5
  <2>3. i = k \/ i < k
    BY <2>1
  <2>4. i < k => q[k].num <= q[o[k]].num
    BY <1>2, <1>5, <2>1
  <2>5. o[k] < k => q[o[k]].num < q[k].num
    BY <1>2, <2>2
  <2>6. q[k].num \in Nat /\ q[o[k]].num \in Nat
    BY <1>2, <1>6, <2>2
  <2> QED BY <2>1, <2>2, <2>3, <2>4, <2>5, <2>6
<1>15. \A i, j \in 1..h : i < j => r[i].num < r[j].num
  <2> SUFFICES ASSUME NEW i \in 1..h, NEW j \in 1..h, i < j
               PROVE  r[i].num < r[j].num
    OBVIOUS
  <2>1. i + drop \in 1..k /\ j + drop \in 1..k
    BY <1>10
  <2>0. i + drop < j + drop
    OBVIOUS
  <2>2. q[o[i + drop]].num < q[o[j + drop]].num
    BY <1>13, <2>0, <2>1
  <2> QED BY <1>11, <2>2
<1>16. r[h] = q[k]
  BY <1>1, <1>11, <1>14
<1>17. Cut(q, r, x, o, k, drop, h)
  BY <1>5, <1>11, <1>12, <1>15, <1>16 DEF Cut
<1> QED BY <1>4, <1>8, <1>9, <1>17

LEMMA CutGrows ==
  ASSUME NEW n \in DOMAIN secrets, NEW drop \in Nat, NEW h \in Nat \ {0}, NEW k \in Nat,
         NEW q \in Seq(Version), NEW s \in Secret, NEW r, NEW x, NEW o,
         Proper(secrets), k = drop + h, q = secrets[n].versions, Len(q) = k,
         Cut(q, r, x, o, k, drop, h), s.versions = r, s.current = secrets[n].current
  PROVE  GrownSecret(n, s, ValuesOf(x), values)
<1>1. GoodSecret(secrets[n])
  BY DEF Proper, GoodStore
<1>2. DOMAIN q = 1..k /\ DOMAIN r = 1..h /\ DOMAIN x = 1..drop
  BY DEF Cut
<1>3. \A i \in 1..h : i + drop \in 1..k
  OBVIOUS
<1>4. \A i \in 1..drop : i \in 1..k
  OBVIOUS
<1>5. GoodSecret(s)
  <2>1. r[h].num = secrets[n].current
    BY <1>1 DEF GoodSecret, Cut
  <2>2. Len(r) = h /\ \A i, j \in DOMAIN r : i < j => r[i].num < r[j].num
    BY <1>2 DEF Cut
  <2> QED BY <2>1, <2>2 DEF GoodSecret
<1>6. /\ \A i, j \in 1..k : q[i].value = q[j].value => i = j
      /\ \A i \in 1..k : Kept(n, q[i]) /\ HasValue(secrets, q[i].value)
  <2>1. \A i, j \in DOMAIN q : q[i].value = q[j].value => i = j
    BY DEF Proper, Apart
  <2>2. \A i \in DOMAIN q : Kept(n, q[i]) /\ HasValue(secrets, q[i].value)
    BY DEF Kept, HasValue
  <2> QED BY <1>2, <2>1, <2>2
<1>7. \A i \in 1..k : o[i] \in 1..k
  BY DEF Cut
<1>8. \A i, j \in 1..k : q[o[i]].value = q[o[j]].value => i = j
  <2> SUFFICES ASSUME NEW i \in 1..k, NEW j \in 1..k, q[o[i]].value = q[o[j]].value
               PROVE  i = j
    OBVIOUS
  <2>1. o[i] = o[j]
    BY <1>6, <1>7
  <2> QED BY <2>1 DEF Cut
<1>9. ASSUME NEW i \in 1..h, NEW j \in 1..h, r[i].value = r[j].value
      PROVE  i = j
  <2>1. r[i] = q[o[i + drop]] /\ r[j] = q[o[j + drop]]
    BY DEF Cut
  <2>2. i + drop = j + drop
    BY <1>3, <1>8, <1>9, <2>1
  <2> QED BY <2>2
<1>10. ASSUME NEW i \in 1..h
       PROVE  Kept(n, r[i])
  <2>1. r[i] = q[o[i + drop]] /\ i + drop \in 1..k
    BY <1>3 DEF Cut
  <2> QED BY <1>6, <1>7, <2>1
<1>11. ASSUME NEW v \in ValuesOf(x)
       PROVE  /\ HasValue(secrets, v)
              /\ \E j \in DOMAIN q : q[j].value = v
              /\ \A i \in 1..h : r[i].value # v
  <2>1. PICK a \in 1..drop : x[a].value = v
    BY <1>2 DEF ValuesOf
  <2>2. a \in 1..k /\ q[o[a]].value = v /\ o[a] \in 1..k
    BY <1>4, <1>7, <2>1 DEF Cut
  <2>3. ASSUME NEW i \in 1..h, r[i].value = v PROVE FALSE
    <3>1. r[i] = q[o[i + drop]] /\ i + drop \in 1..k
      BY <1>3 DEF Cut
    <3>2. i + drop = a
      BY <1>8, <2>2, <2>3, <3>1
    <3> QED BY <3>2
  <2> QED BY <1>2, <1>6, <2>2, <2>3
<1> QED BY <1>2, <1>5, <1>9, <1>10, <1>11 DEF GrownSecret

LEMMA PruneGrows ==
  ASSUME NEW n \in DOMAIN secrets, NEW drop \in Nat, NEW h \in Nat \ {0}, NEW q,
         Proper(secrets), q = secrets[n].versions, Len(q) = drop + h
  PROVE  GrownSecret(n, [secrets[n] EXCEPT !.versions = SubSeq(Sorted(q), drop + 1, Len(q))],
                     ValuesOf(SubSeq(Sorted(q), 1, drop)), values)
<1>1. GoodSecret(secrets[n])
  BY DEF Proper, GoodStore
<1>2. q \in Seq(Version)
  BY <1>1 DEF GoodSecret, Secret
<1>3. \A i, j \in DOMAIN q : i < j => q[i].num < q[j].num
  BY <1>1 DEF GoodSecret
<1>4. PICK k \in Nat : k = Len(q)
  BY <1>2
<1>5. PICK r, x : r = SubSeq(Sorted(q), drop + 1, k) /\ x = SubSeq(Sorted(q), 1, drop)
  OBVIOUS
<1>6. PICK o : Cut(q, r, x, o, k, drop, h)
  BY <1>2, <1>3, <1>4, <1>5, CutKeeps
<1>7. PICK s : s = [secrets[n] EXCEPT !.versions = r]
  OBVIOUS
<1>8. s \in Secret /\ s.versions = r /\ s.current = secrets[n].current
  BY <1>1, <1>6, <1>7 DEF GoodSecret, Secret, Cut
<1>9. GrownSecret(n, s, ValuesOf(x), values)
  BY <1>2, <1>4, <1>6, <1>8, CutGrows
<1> QED BY <1>4, <1>5, <1>7, <1>9

-----------------------------------------------------------------------------
(* The invariants of the store *)

StoreTypes ==
  /\ values \in Nat /\ storeFaults \in Nat
  /\ Proper(secrets) /\ Proper(storeFile.secrets)

\* A get that is between its two locks will find, if anything, a value that is or
\* was the newest one since it began.
GetInv ==
  \A p \in Principals :
    /\ getter[p].pc # "idle" => storeOpen
    /\ getter[p].pc = "version" /\ getter[p].name \in DOMAIN secrets =>
         \A i \in DOMAIN secrets[getter[p].name].versions :
           secrets[getter[p].name].versions[i].num = getter[p].version =>
             secrets[getter[p].name].versions[i].value \in seen[p]
    /\ getter[p].result = "value" => getter[p].pc = "idle" /\ getter[p].value \in seen[p]

GetterTypes == DOMAIN getter = Principals /\ DOMAIN seen = Principals

\* What is gone, or on its way out of the store, is not in memory, and what is gone
\* is not in the file; while the file is emptied and written it holds nothing.
GoneInv ==
  /\ ~storeOpen => dropped = {}
  /\ storeFaults = 0 =>
       /\ \A v \in gone \cup dropped : v \in Nat /\ v <= values /\ ~HasValue(secrets, v)
       /\ \A v \in gone : ~HasValue(storeFile.secrets, v)

LEMMA KeptValue ==
  ASSUME NEW n, NEW v, Kept(n, v)
  PROVE  HasValue(secrets, v.value)
BY DEF Kept, HasValue

LEMMA ChangeKeeps ==
  ASSUME NEW m, NEW out, Change(m, out), Grown(m, out, values'),
         values' \in Nat, values' >= values,
         StoreTypes, GetterTypes, GetInv, GoneInv, storeOpen
  PROVE  StoreTypes' /\ GetterTypes' /\ GetInv' /\ GoneInv'
<1>1. /\ secrets' = m /\ dropped' = out
      /\ UNCHANGED <<storeFile, storeOpen, getter, gone, gets, storeFaults>>
  BY DEF Change
<1>2. ASSUME NEW v, HasValue(m, v)
      PROVE  HasValue(secrets, v) \/ (v = values' /\ values' > values)
  BY <1>2, KeptValue DEF Grown, HasValue
<1>3. StoreTypes'
  <2>1. Proper(storeFile.secrets)'
    BY <1>1 DEF StoreTypes, Proper
  <2>2. Proper(secrets)'
    BY <1>1, <1>2 DEF StoreTypes, Proper, Grown
  <2> QED BY <1>1, <2>1, <2>2 DEF StoreTypes
<1>4. GoneInv'
  <2> SUFFICES ASSUME storeFaults = 0
               PROVE  /\ \A v \in gone \cup out : v \in Nat /\ v <= values' /\ ~HasValue(m, v)
                      /\ \A v \in gone : ~HasValue(storeFile.secrets, v)
    BY <1>1 DEF GoneInv
  <2>1. \A v \in gone : v \in Nat /\ v <= values /\ ~HasValue(secrets, v)
    BY DEF GoneInv
  <2>2. \A v \in gone : v \in Nat /\ v <= values' /\ ~HasValue(m, v)
    BY <1>2, <2>1 DEF StoreTypes
  <2>3. \A v \in out : v \in Nat /\ v <= values' /\ ~HasValue(m, v)
    BY DEF Grown, StoreTypes, Proper
  <2> QED BY <2>2, <2>3 DEF GoneInv
<1>5. seen' = [p \in Principals |->
                IF getter[p].pc = "idle" \/ getter[p].name \notin DOMAIN m THEN seen[p]
                ELSE seen[p] \union {NewestValue(m[getter[p].name])}]
  BY DEF Change
<1>6. ASSUME NEW p \in Principals
      PROVE  /\ seen[p] \subseteq seen'[p]
             /\ getter[p].pc # "idle" /\ getter[p].name \in DOMAIN m =>
                  NewestValue(m[getter[p].name]) \in seen'[p]
  BY <1>5
<1>7. GetInv'
  <2> SUFFICES ASSUME NEW p \in Principals, getter[p].pc = "version", NEW n \in DOMAIN m,
                      n = getter[p].name, NEW i \in DOMAIN m[n].versions,
                      m[n].versions[i].num = getter[p].version
               PROVE  m[n].versions[i].value \in seen'[p]
    BY <1>1, <1>6 DEF GetInv
  <2>1. CASE Kept(n, m[n].versions[i])
    BY <1>6, <2>1 DEF Kept, GetInv
  <2>2. CASE i = Len(m[n].versions)
    BY <1>6, <2>2 DEF NewestValue, Last
  <2> QED BY <2>1, <2>2 DEF Grown
<1>8. GetterTypes'
  BY <1>1, <1>5 DEF GetterTypes
<1> QED BY <1>3, <1>4, <1>7, <1>8

SecretInv == StoreTypes /\ GetterTypes /\ GetInv /\ GoneInv

LEMMA NoneProper == Proper(NoSecrets) /\ \A v : ~HasValue(NoSecrets, v)
BY DEF NoSecrets, Proper, GoodStore, Apart, HasValue

LEMMA SecretInvInit == StoreInit => SecretInv
<1> SUFFICES ASSUME StoreInit PROVE SecretInv
  OBVIOUS
<1>1. StoreTypes
  BY NoneProper DEF StoreInit, StoreTypes
<1>2. GoneInv
  BY NoneProper DEF StoreInit, GoneInv
<1>3. GetterTypes /\ GetInv
  BY DEF StoreInit, GetterTypes, GetInv, NoGet
<1> QED BY <1>1, <1>2, <1>3 DEF SecretInv

LEMMA WithKeeps ==
  ASSUME NEW n, NEW s, NEW out, Change(With(n, s), out),
         GrownSecret(n, s, out, values'), values' \in Nat, values' >= values,
         SecretInv, storeOpen
  PROVE  SecretInv'
<1>1. PICK m : m = With(n, s)
  OBVIOUS
<1>2. PICK top \in Nat : top = values'
  OBVIOUS
<1>3. GrownSecret(n, s, out, top)
  BY <1>2
<1>4. Grown(m, out, top)
  BY <1>1, <1>3, WithGrown DEF SecretInv, StoreTypes
<1>5. Change(m, out) /\ Grown(m, out, values')
  BY <1>1, <1>2, <1>4
<1> QED BY <1>5, ChangeKeeps DEF SecretInv

\* The actions that leave the table and the values alone.
LEMMA TableStays ==
  ASSUME SecretInv, UNCHANGED <<secrets, values, storeOpen, getter, seen>>,
         storeFaults' \in Nat, Proper(storeFile.secrets)', GoneInv'
  PROVE  SecretInv'
<1>1. StoreTypes'
  BY DEF SecretInv, StoreTypes, Proper
<1>2. GetterTypes' /\ GetInv'
  BY DEF SecretInv, GetterTypes, GetInv
<1> QED BY <1>1, <1>2 DEF SecretInv

LEMMA GetCurrentKeeps ==
  ASSUME SecretInv, NEW p \in Principals, NEW n \in SecretNames, GetCurrent(p, n)
  PROVE  SecretInv'
<1>1. StoreTypes' /\ GoneInv'
  BY DEF SecretInv, GetCurrent, StoreTypes, GoneInv, Proper
<1>2. PICK g : g = IF n \in DOMAIN secrets
       THEN [NoGet EXCEPT !.pc = "version", !.name = n, !.version = secrets[n].current]
       ELSE [NoGet EXCEPT !.result = "not found"]
  OBVIOUS
<1>3. \A q \in Principals : getter'[q] = IF q = p THEN g ELSE getter[q]
  BY <1>2 DEF GetCurrent, SecretInv, GetterTypes
<1>4. \A q \in Principals :
        seen'[q] = IF q = p THEN IF n \in DOMAIN secrets THEN {NewestValue(secrets[n])} ELSE {}
                   ELSE seen[q]
  BY DEF GetCurrent, SecretInv, GetterTypes
<1>5. n \in DOMAIN secrets => GoodSecret(secrets[n])
  BY DEF SecretInv, StoreTypes, Proper, GoodStore
<1>6. /\ n \in DOMAIN secrets => g.pc = "version" /\ g.name = n /\ g.version = secrets[n].current
      /\ n \notin DOMAIN secrets => g.pc = "idle"
      /\ g.result # "value"
  BY <1>2 DEF NoGet
<1>8. GetterTypes'
  BY DEF GetCurrent, SecretInv, GetterTypes
<1>9. GetInv'
  <2>1. UNCHANGED <<secrets, storeOpen>> /\ storeOpen
    BY DEF GetCurrent, Ready
  <2>2. ASSUME n \in DOMAIN secrets, NEW i \in DOMAIN secrets[n].versions,
               secrets[n].versions[i].num = secrets[n].current
        PROVE  secrets[n].versions[i].value = NewestValue(secrets[n])
    <3>1. PICK vs \in Seq(Version) : vs = secrets[n].versions
      BY <1>5, <2>2 DEF GoodSecret, Secret
    <3>2. /\ Len(vs) > 0 /\ vs[Len(vs)].num = secrets[n].current
          /\ \A a, b \in DOMAIN vs : a < b => vs[a].num < vs[b].num
      BY <1>5, <2>2, <3>1 DEF GoodSecret
    <3>3. i \in 1..Len(vs) /\ Len(vs) \in DOMAIN vs
      BY <2>2, <3>1, <3>2
    <3>4. vs[i].num \in Nat /\ vs[Len(vs)].num \in Nat
      <4>1. vs[i] \in Version /\ vs[Len(vs)] \in Version
        BY <3>1, <3>3
      <4> QED BY <4>1 DEF Version
    <3>5. i = Len(vs)
      BY <2>2, <3>1, <3>2, <3>3, <3>4
    <3> QED BY <3>1, <3>5 DEF NewestValue, Last
  <2>3. ASSUME NEW q \in Principals
        PROVE  /\ getter'[q].pc # "idle" => storeOpen'
               /\ getter'[q].pc = "version" /\ getter'[q].name \in DOMAIN secrets =>
                    \A i \in DOMAIN secrets[getter'[q].name].versions :
                      secrets[getter'[q].name].versions[i].num = getter'[q].version =>
                        secrets[getter'[q].name].versions[i].value \in seen'[q]
               /\ getter'[q].result = "value" =>
                    getter'[q].pc = "idle" /\ getter'[q].value \in seen'[q]
    <3>1. CASE q # p
      BY <1>3, <1>4, <2>1, <3>1 DEF SecretInv, GetInv
    <3>2. CASE q = p /\ n \in DOMAIN secrets
      BY <1>3, <1>4, <1>6, <2>1, <2>2, <3>2
    <3>3. CASE q = p /\ n \notin DOMAIN secrets
      BY <1>3, <1>4, <1>6, <2>1, <3>3
    <3> QED BY <3>1, <3>2, <3>3
  <2> QED BY <2>1, <2>3 DEF GetInv
<1> QED BY <1>1, <1>8, <1>9 DEF SecretInv

LEMMA GetVersionKeeps ==
  ASSUME SecretInv, NEW p \in Principals, GetVersion(p)
  PROVE  SecretInv'
<1> DEFINE Done(r, v) == [NoGet EXCEPT !.result = r, !.value = v]
<1>1. StoreTypes' /\ GoneInv'
  BY DEF SecretInv, GetVersion, StoreTypes, GoneInv, Proper
<1>2. PICK g : g = getter[p]
  OBVIOUS
<1>3. PICK vs : vs = secrets[g.name].versions
  OBVIOUS
<1>4. PICK hits : hits = {i \in DOMAIN vs : vs[i].num = g.version}
  OBVIOUS
<1>5. PICK d : d = IF g.name \notin DOMAIN secrets THEN Done("not found", 0)
                   ELSE IF ~Authorized(g.name, p) THEN Done("denied", 0)
                   ELSE IF hits = {} THEN Done("not found", 0)
                   ELSE Done("value", vs[Min(hits)].value)
  OBVIOUS
<1>6. /\ getter' = [getter EXCEPT ![p] = d] /\ g.pc = "version"
      /\ UNCHANGED <<secrets, seen, storeOpen>>
  BY <1>2, <1>3, <1>4, <1>5 DEF GetVersion
<1>7. ASSUME NEW r, NEW v
      PROVE  /\ Done(r, v).pc = "idle"
             /\ Done(r, v).result = r /\ Done(r, v).value = v
  BY DEF NoGet
<1>8. ASSUME g.name \in DOMAIN secrets, hits # {}
      PROVE  Min(hits) \in hits
  <2>1. GoodSecret(secrets[g.name])
    BY <1>8 DEF SecretInv, StoreTypes, Proper, GoodStore
  <2>2. vs \in Seq(Version) /\ \A i, j \in DOMAIN vs : i < j => vs[i].num < vs[j].num
    BY <1>3, <2>1 DEF GoodSecret, Secret
  <2>3. \A i \in DOMAIN vs : i \in Nat /\ vs[i].num \in Nat
    <3>1. \A i \in DOMAIN vs : i \in Nat /\ vs[i] \in Version
      BY <2>2
    <3> QED BY <3>1 DEF Version
  <2>4. PICK h \in hits : TRUE
    BY <1>8
  <2>5. \A i \in hits : i = h
    <3> SUFFICES ASSUME NEW i \in hits PROVE i = h
      OBVIOUS
    <3>1. i \in DOMAIN vs /\ h \in DOMAIN vs /\ vs[i].num = vs[h].num
      BY <1>4
    <3> QED BY <2>2, <2>3, <3>1
  <2>6. h \in Nat /\ hits = {h}
    BY <1>4, <2>3, <2>5
  <2>7. Min(hits) = h
    BY <2>6 DEF Min
  <2> QED BY <1>4, <2>3, <2>6, <2>7
<1>9. d.pc = "idle"
      /\ (d.result = "value" => g.name \in DOMAIN secrets /\ hits # {}
                                /\ d.value = vs[Min(hits)].value)
  <2>1. CASE g.name \in DOMAIN secrets /\ Authorized(g.name, p) /\ hits # {}
    <3>1. d = Done("value", vs[Min(hits)].value)
      BY <1>5, <2>1
    <3> HIDE DEF Done
    <3> QED BY <1>7, <2>1, <3>1
  <2>2. CASE d = Done("not found", 0) \/ d = Done("denied", 0)
    <3>1. d.result \in {"not found", "denied"} /\ d.pc = "idle"
      BY <2>2 DEF NoGet
    <3> QED BY <3>1
  <2> HIDE DEF Done
  <2> QED BY <1>5, <2>1, <2>2
<1>10. GetterTypes'
  BY <1>6, <1>9 DEF SecretInv, GetterTypes
<1>11. GetInv'
  <2>1. /\ getter'[p] = d
        /\ \A q \in Principals : q # p => getter'[q] = getter[q]
    BY <1>6 DEF SecretInv, GetterTypes
  <2>2. d.result = "value" => d.value \in seen[p]
    BY <1>2, <1>3, <1>4, <1>6, <1>8, <1>9 DEF SecretInv, GetInv
  <2>3. ASSUME NEW q \in Principals
        PROVE  /\ getter'[q].pc # "idle" => storeOpen
               /\ getter'[q].pc = "version" /\ getter'[q].name \in DOMAIN secrets =>
                    \A i \in DOMAIN secrets[getter'[q].name].versions :
                      secrets[getter'[q].name].versions[i].num = getter'[q].version =>
                        secrets[getter'[q].name].versions[i].value \in seen[q]
               /\ getter'[q].result = "value" =>
                    getter'[q].pc = "idle" /\ getter'[q].value \in seen[q]
    <3>1. CASE q # p
      BY <2>1, <3>1 DEF SecretInv, GetInv
    <3>2. CASE q = p
      BY <1>9, <2>1, <2>2, <3>2
    <3> QED BY <3>1, <3>2
  <2> QED BY <1>6, <2>3 DEF GetInv
<1> QED BY <1>1, <1>10, <1>11 DEF SecretInv

LEMMA SecretInvNext == SecretInv /\ [StoreNext]_storeVars => SecretInv'
<1> SUFFICES ASSUME SecretInv, [StoreNext]_storeVars PROVE SecretInv'
  OBVIOUS
<1>0. values \in Nat /\ storeFaults \in Nat /\ Proper(secrets) /\ Proper(storeFile.secrets)
  BY DEF SecretInv, StoreTypes
<1>1. CASE UNCHANGED storeVars
  BY <1>1 DEF storeVars, SecretInv, StoreTypes, GetterTypes, GetInv, GoneInv, Proper
<1>2. ASSUME NEW p \in Principals, NEW n \in SecretNames, Put(p, n)
      PROVE  SecretInv'
  <2>1. PICK s : s = [owner |-> p, current |-> 1, granted |-> {},
                      versions |-> <<[num |-> 1, value |-> values + 1]>>]
    OBVIOUS
  <2>2. Change(With(n, s), {}) /\ storeOpen /\ values' = values + 1
    BY <1>2, <2>1 DEF Put, Ready
  <2>3. GrownSecret(n, s, {}, values')
    BY <1>0, <2>1, <2>2, PutGrows
  <2> QED BY <1>0, <2>2, <2>3, WithKeeps
<1>3. ASSUME NEW p \in Principals, NEW n \in SecretNames, Rotate(p, n)
      PROVE  SecretInv'
  <2>1. PICK s : s = [secrets[n] EXCEPT !.current = @ + 1,
                !.versions = Append(@, [num |-> secrets[n].current + 1, value |-> values + 1])]
    OBVIOUS
  <2>2. Change(With(n, s), {}) /\ storeOpen /\ values' = values + 1 /\ n \in DOMAIN secrets
    BY <1>3, <2>1 DEF Rotate, Ready
  <2>3. GrownSecret(n, s, {}, values')
    BY <1>0, <2>1, <2>2, RotateGrows
  <2> QED BY <1>0, <2>2, <2>3, WithKeeps
<1>4. ASSUME NEW p \in Principals, NEW n \in SecretNames, RemoveSecret(p, n)
      PROVE  SecretInv'
  <2>1. PICK m : m = Without(n)
    OBVIOUS
  <2>2. PICK out : out = ValuesOf(secrets[n].versions)
    OBVIOUS
  <2>3. Change(m, out) /\ storeOpen /\ values' = values /\ n \in DOMAIN secrets
    BY <1>4, <2>1, <2>2 DEF RemoveSecret, Ready
  <2>4. Grown(m, out, values')
    BY <1>0, <2>1, <2>2, <2>3, WithoutGrown
  <2> QED BY <1>0, <2>3, <2>4, ChangeKeeps DEF SecretInv
<1>5. ASSUME NEW p \in Principals, NEW n \in SecretNames, NEW g \in SUBSET Principals,
             SetPolicy(p, n, g)
      PROVE  SecretInv'
  <2>1. PICK s : s = [secrets[n] EXCEPT !.granted = g]
    OBVIOUS
  <2>2. Change(With(n, s), {}) /\ storeOpen /\ values' = values /\ n \in DOMAIN secrets
    BY <1>5, <2>1 DEF SetPolicy, Ready
  <2>3. GrownSecret(n, s, {}, values')
    BY <1>0, <2>1, <2>2, PolicyGrows
  <2> QED BY <1>0, <2>2, <2>3, WithKeeps
<1>6. ASSUME NEW p \in Principals, NEW n \in SecretNames, NEW keepLast \in 0..2,
             PruneOldVersions(p, n, keepLast)
      PROVE  SecretInv'
  <2>1. PICK q : q = secrets[n].versions
    OBVIOUS
  <2>2. PICK keep \in Nat \ {0} : keep = IF keepLast = 0 THEN 1 ELSE keepLast
    OBVIOUS
  <2>3. PICK drop : drop = IF Len(q) > keep THEN Len(q) - keep ELSE 0
    OBVIOUS
  <2>4. PICK s : s = [secrets[n] EXCEPT !.versions = SubSeq(Sorted(q), drop + 1, Len(q))]
    OBVIOUS
  <2>5. PICK out : out = ValuesOf(SubSeq(Sorted(q), 1, drop))
    OBVIOUS
  <2>6. n \in DOMAIN secrets /\ storeOpen /\ values' = values
    BY <1>6 DEF PruneOldVersions, Ready
  <2>7. Change(With(n, s), out)
    BY <1>6, <2>1, <2>2, <2>3, <2>4, <2>5 DEF PruneOldVersions
  <2>8. GoodSecret(secrets[n])
    BY <1>0, <2>6 DEF Proper, GoodStore
  <2>9. Len(q) \in Nat \ {0}
    BY <2>1, <2>8 DEF GoodSecret, Secret
  <2>10. drop \in Nat /\ Len(q) - drop \in Nat \ {0} /\ Len(q) = drop + (Len(q) - drop)
    BY <2>2, <2>3, <2>9
  <2>11. PICK h \in Nat \ {0} : Len(q) = drop + h
    BY <2>10
  <2>12. GrownSecret(n, s, out, values)
    BY <1>0, <2>1, <2>4, <2>5, <2>6, <2>10, <2>11, PruneGrows
  <2> QED BY <1>0, <2>6, <2>7, <2>12, WithKeeps
<1>7. CASE Truncate
  <2>1. storeFile'.secrets = NoSecrets
    BY <1>7 DEF Truncate
  <2>2. Proper(storeFile.secrets)' /\ GoneInv'
    BY <1>7, <2>1, NoneProper DEF Truncate, SecretInv, GoneInv, Proper
  <2> QED BY <1>0, <1>7, <2>2, TableStays DEF Truncate
<1>8. CASE WriteStore
  <2>1. storeFile'.secrets = secrets
    BY <1>8 DEF WriteStore
  <2>2. Proper(storeFile.secrets)'
    BY <1>0, <1>8, <2>1 DEF WriteStore, Proper
  <2>3. GoneInv'
    BY <1>8, <2>1 DEF WriteStore, SecretInv, GoneInv
  <2> QED BY <1>0, <1>8, <2>2, <2>3, TableStays DEF WriteStore
<1>9. CASE NotSaved
  <2>1. storeFaults' \in Nat /\ storeFaults' # 0
    BY <1>0, <1>9 DEF NotSaved
  <2>2. Proper(storeFile.secrets)' /\ GoneInv'
    BY <1>0, <1>9, <2>1 DEF NotSaved, Proper, GoneInv
  <2> QED BY <1>9, <2>1, <2>2, TableStays DEF NotSaved
<1>10. ASSUME NEW p \in Principals, NEW n \in SecretNames, GetCurrent(p, n)
       PROVE  SecretInv'
  BY <1>10, GetCurrentKeeps
<1>11. ASSUME NEW p \in Principals, GetVersion(p)
       PROVE  SecretInv'
  BY <1>11, GetVersionKeeps
<1>12. CASE OpenStore
  <2>1. \A p \in Principals : getter[p].pc = "idle"
    BY <1>12 DEF OpenStore, SecretInv, GetInv
  <2>2. secrets' = storeFile.secrets
        /\ UNCHANGED <<storeFile, dropped, getter, values, gone, seen, storeFaults>>
    BY <1>12 DEF OpenStore
  <2>3. GetterTypes' /\ GetInv'
    BY <2>1, <2>2 DEF SecretInv, GetterTypes, GetInv
  <2>4. StoreTypes'
    BY <1>0, <2>2 DEF StoreTypes, Proper
  <2>5. GoneInv'
    BY <1>12, <2>2 DEF OpenStore, SecretInv, GoneInv
  <2> QED BY <2>3, <2>4, <2>5 DEF SecretInv
<1>13. CASE CrashStore
  <2>1. secrets' = NoSecrets /\ dropped' = {} /\ getter' = [p \in Principals |-> NoGet]
        /\ seen' = [p \in Principals |-> {}] /\ UNCHANGED <<storeFile, values, gone, storeFaults>>
    BY <1>13 DEF CrashStore
  <2>2. StoreTypes'
    BY <1>0, <2>1, NoneProper DEF StoreTypes, Proper
  <2>3. GoneInv'
    BY <2>1, NoneProper DEF SecretInv, GoneInv
  <2>4. GetterTypes' /\ GetInv'
    BY <2>1 DEF GetterTypes, GetInv, NoGet
  <2> QED BY <2>2, <2>3, <2>4 DEF SecretInv
<1> QED BY <1>1, <1>2, <1>3, <1>4, <1>5, <1>6, <1>7, <1>8, <1>9, <1>10, <1>11, <1>12, <1>13
        DEF StoreNext

\* A value that get() returns was the newest one at some moment of the call: what a
\* get finds under its second lock, whatever was rotated, pruned, removed and put
\* anew since the first, is a version made since or the one it had read the number of.
THEOREM GetIsSound == StoreSpec => []GetSound
<1>1. SecretInv => GetSound
  BY DEF SecretInv, GetInv, GetSound
<1> QED BY <1>1, SecretInvInit, SecretInvNext, PTL DEF StoreSpec

\* What remove and pruneOldVersions took out never comes back, in memory or in the
\* file, over every crash and restart, and the current version is the newest one.
THEOREM RemovalIsFinal == StoreSpec => []RemovedStaysGone
<1>1. SecretInv => RemovedStaysGone
  <2> SUFFICES ASSUME SecretInv, storeFaults = 0 PROVE RemovedStaysGone
    BY DEF RemovedStaysGone
  <2>1. \A n \in DOMAIN secrets : Last(secrets[n].versions).num = secrets[n].current
    BY DEF SecretInv, StoreTypes, Proper, GoodStore, GoodSecret, Last
  <2>2. \A n \in DOMAIN secrets : ValuesOf(secrets[n].versions) \cap gone = {}
    BY DEF SecretInv, GoneInv, HasValue, ValuesOf
  <2>3. \A n \in DOMAIN storeFile.secrets :
          ValuesOf(storeFile.secrets[n].versions) \cap gone = {}
    BY DEF SecretInv, GoneInv, HasValue, ValuesOf
  <2> QED BY <2>1, <2>2, <2>3 DEF RemovedStaysGone
<1> QED BY <1>1, SecretInvInit, SecretInvNext, PTL DEF StoreSpec
=============================================================================
