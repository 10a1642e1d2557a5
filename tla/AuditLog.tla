------------------------------ MODULE AuditLog ------------------------------
(***************************************************************************)
(* The tamper-evident audit log (AuditLog in src/compliance/audit_log.cpp) *)
(* and its crashes.  Records are chained by a keyed MAC and written to the *)
(* log file one frame at a time; personal data is sealed under a key per   *)
(* subject, and the keys are kept in a second file that is rewritten in    *)
(* place.  forget() destroys a subject's key and appends a tombstone.      *)
(*                                                                         *)
(* A MAC is the sequence of what it is computed from, which no two chains  *)
(* share.  mu is held for a whole append and for the first half of forget; *)
(* a write to a file is a step that spoils it and one that completes it or *)
(* fails, so that a crash may come in between.  A crash loses the memory   *)
(* and no write that had completed (each is flushed).  No write is checked *)
(* for failure, and once one failed the log's stream writes nothing more.  *)
(***************************************************************************)
EXTENDS Naturals, Sequences, SequencesExt

CONSTANTS
  Subjects,      \* subject identifiers
  AuditThreads,  \* threads that use the log
  MaxAppends,    \* bound: appends and forgets
  MaxCrashes,    \* bound: crashes
  MaxKeyFaults,  \* bound: times the key file cannot be opened or written
  MaxWriteFaults \* bound: times a frame cannot be written

NoSubject == "no subject"
Nobody    == "nobody"

ASSUME AuditAssumption ==
  /\ MaxAppends \in Nat /\ MaxCrashes \in Nat /\ MaxKeyFaults \in Nat
  /\ MaxWriteFaults \in Nat
  /\ Nobody \notin AuditThreads

VARIABLES
  logFile,     \* [frames, torn]: the whole frames, and whether a part of one follows
  keysFile,    \* [torn, keys]: keys is a set of <<subject, key>>; absent is empty
  opened,      \* a log object exists
  records,     \* records: what memory holds of the frames
  subjectKeys, \* subjectKeys
  headMac,     \* headMac
  nextSeq,     \* nextSeq
  mu,          \* the thread that holds mu, if any
  badOut,      \* out is in an error state (badbit)
  auditor,     \* what each thread is doing: [pc, rec, forget, affected]
  nKeys,       \* keys drawn so far: a key is a number
  acked,       \* history: records whose append returned
  unwritten,   \* history: records of which a write that failed was the last
  certs,       \* history: deletion certificates, [subject, affected]
  erasing,     \* history: keys that forget began to destroy
  appends, crashes, keyFaults, writeFaults  \* used up bounds

auditVars == <<logFile, keysFile, opened, records, subjectKeys, headMac, nextSeq, mu,
               badOut, auditor, nKeys, acked, unwritten, certs, erasing, appends, crashes,
               keyFaults, writeFaults>>
outVars   == <<badOut, unwritten, writeFaults>>

NoCanon == [seq |-> 0, subject |-> NoSubject, key |-> 0]
AtRest  == [pc |-> "idle", rec |-> NoCanon, forget |-> NoSubject, affected |-> {}]

AuditInit ==
  /\ logFile = [frames |-> <<>>, torn |-> FALSE]
  /\ keysFile = [torn |-> FALSE, keys |-> {}]
  /\ opened = FALSE
  /\ records = <<>> /\ subjectKeys = {}
  /\ headMac = <<>> /\ nextSeq = 0
  /\ mu = Nobody /\ badOut = FALSE
  /\ auditor = [t \in AuditThreads |-> AtRest]
  /\ nKeys = 0
  /\ acked = {} /\ unwritten = {} /\ certs = {} /\ erasing = {}
  /\ appends = 0 /\ crashes = 0 /\ keyFaults = 0 /\ writeFaults = 0

AuditSet(t, a) == auditor' = [auditor EXCEPT ![t] = a]
KeysOf(s)      == {k \in subjectKeys : k[1] = s}

\* chainStep: the MAC of a record that follows the one with MAC prev.
ChainStep(prev, canon) == Append(prev, canon)

\* The loop of open() and verify(): every stored MAC is the one recomputed.
ChainOk(frames) ==
  \A i \in DOMAIN frames :
    frames[i].mac = ChainStep(IF i = 1 THEN <<>> ELSE frames[i - 1].mac, frames[i].canon)

-----------------------------------------------------------------------------
\* open: a spoilt key file or log, or a chain that does not verify, is an error
\* and there is no log.  Reading and appending the magic to a new file are one
\* step: nothing else runs yet.
OpenLog ==
  /\ ~opened
  /\ ~keysFile.torn /\ ~logFile.torn /\ ChainOk(logFile.frames)
  /\ opened' = TRUE
  /\ records' = logFile.frames
  /\ subjectKeys' = keysFile.keys
  /\ headMac' = IF logFile.frames = <<>> THEN <<>> ELSE Last(logFile.frames).mac
  /\ nextSeq' = IF logFile.frames = <<>> THEN 0 ELSE Last(logFile.frames).canon.seq + 1
  /\ UNCHANGED <<logFile, keysFile, mu, auditor, nKeys, acked, certs, erasing, appends,
                 crashes, keyFaults, outVars>>

\* append to a log that is not open (global() without a path, or whose open failed)
\* returns SUCCESS too, and nothing happens.
AppendNowhere ==
  /\ ~opened /\ appends < MaxAppends
  /\ appends' = appends + 1
  /\ UNCHANGED <<logFile, keysFile, opened, records, subjectKeys, headMac, nextSeq, mu,
                 auditor, nKeys, acked, certs, erasing, crashes, keyFaults, outVars>>

\* Mutant: a new subject key is not saved before the record is written.
BeginAppendUnsaved(t, s) ==
  /\ opened /\ mu = Nobody /\ auditor[t].pc = "idle" /\ appends < MaxAppends
  /\ appends' = appends + 1
  /\ mu' = t
  /\ IF s # NoSubject /\ KeysOf(s) = {}
     THEN /\ nKeys' = nKeys + 1
          /\ subjectKeys' = subjectKeys \union {<<s, nKeys'>>}
     ELSE UNCHANGED <<nKeys, subjectKeys>>
  /\ LET key == IF s = NoSubject THEN 0 ELSE (CHOOSE k \in subjectKeys' : k[1] = s)[2]
     IN AuditSet(t, [AtRest EXCEPT !.pc = "write",
                                   !.rec = [seq |-> nextSeq, subject |-> s, key |-> key]])
  /\ UNCHANGED <<logFile, keysFile, opened, records, headMac, nextSeq, acked, certs,
                 erasing, crashes, keyFaults, outVars>>

\* append under mu: the record gets its number, and personal data the key of its
\* subject, drawn and saved first when there is none.
BeginAppend(t, s) ==
  /\ opened /\ mu = Nobody /\ auditor[t].pc = "idle" /\ appends < MaxAppends
  /\ appends' = appends + 1
  /\ mu' = t
  /\ IF s # NoSubject /\ KeysOf(s) = {}
     THEN /\ nKeys' = nKeys + 1
          /\ subjectKeys' = subjectKeys \union {<<s, nKeys'>>}
     ELSE UNCHANGED <<nKeys, subjectKeys>>
  /\ LET key == IF s = NoSubject THEN 0 ELSE (CHOOSE k \in subjectKeys' : k[1] = s)[2]
     IN AuditSet(t, [AtRest EXCEPT !.pc = IF nKeys' # nKeys THEN "trunc" ELSE "write",
                                   !.rec = [seq |-> nextSeq, subject |-> s, key |-> key]])
  /\ UNCHANGED <<logFile, keysFile, opened, records, headMac, nextSeq, acked, certs,
                 erasing, crashes, keyFaults, outVars>>

\* persistKeys: the file is emptied when it is opened, then written.
TruncateKeys(t) ==
  /\ auditor[t].pc = "trunc"
  /\ keysFile' = [torn |-> TRUE, keys |-> {}]
  /\ AuditSet(t, [auditor[t] EXCEPT !.pc = "keys"])
  /\ UNCHANGED <<logFile, opened, records, subjectKeys, headMac, nextSeq, mu, nKeys, acked,
                 certs, erasing, appends, crashes, keyFaults, outVars>>

\* The step after persistKeys: an append goes on under mu, forget gives mu up
\* and has the tombstone still to append.
AfterKeys(t) ==
  IF auditor[t].forget = NoSubject
  THEN AuditSet(t, [auditor[t] EXCEPT !.pc = "write"]) /\ UNCHANGED mu
  ELSE AuditSet(t, [auditor[t] EXCEPT !.pc = "tombstone"]) /\ mu' = Nobody

WriteKeys(t) ==
  /\ auditor[t].pc = "keys"
  /\ keysFile' = [torn |-> FALSE, keys |-> subjectKeys]
  /\ AfterKeys(t)
  /\ UNCHANGED <<logFile, opened, records, subjectKeys, headMac, nextSeq, nKeys, acked,
                 certs, erasing, appends, crashes, keyFaults, outVars>>

\* persistKeys gives up silently when the file cannot be opened, and does not notice
\* that it could not be written once it was emptied.
KeysNotSaved(t) ==
  /\ auditor[t].pc \in {"trunc", "keys"} /\ keyFaults < MaxKeyFaults
  /\ keyFaults' = keyFaults + 1
  /\ AfterKeys(t)
  /\ UNCHANGED <<logFile, keysFile, opened, records, subjectKeys, headMac, nextSeq, nKeys,
                 acked, certs, erasing, appends, crashes, outVars>>

\* writeRecordToDisk.  On a stream in an error state write and flush do nothing.
WriteFrame(t) ==
  /\ auditor[t].pc = "write" /\ ~badOut
  /\ logFile' = [logFile EXCEPT !.torn = TRUE]
  /\ AuditSet(t, [auditor[t] EXCEPT !.pc = "flush"])
  /\ UNCHANGED <<keysFile, opened, records, subjectKeys, headMac, nextSeq, mu, nKeys, acked,
                 certs, erasing, appends, crashes, keyFaults, outVars>>

WriteNothing(t) ==
  /\ auditor[t].pc = "write" /\ badOut
  /\ unwritten' = unwritten \union {auditor[t].rec}
  /\ AuditSet(t, [auditor[t] EXCEPT !.pc = "memory"])
  /\ UNCHANGED <<logFile, keysFile, opened, records, subjectKeys, headMac, nextSeq, mu, badOut,
                 nKeys, acked, certs, erasing, appends, crashes, keyFaults, writeFaults>>

Frame(canon) == [canon |-> canon, mac |-> ChainStep(headMac, canon)]
GrownLog(canon) == [frames |-> Append(logFile.frames, Frame(canon)), torn |-> FALSE]

FlushFrame(t) ==
  /\ auditor[t].pc = "flush" /\ ~badOut
  /\ logFile' = GrownLog(auditor[t].rec)
  /\ unwritten' = unwritten \ {auditor[t].rec}
  /\ AuditSet(t, [auditor[t] EXCEPT !.pc = "memory"])
  /\ UNCHANGED <<keysFile, opened, records, subjectKeys, headMac, nextSeq, mu, badOut, nKeys,
                 acked, certs, erasing, appends, crashes, keyFaults, writeFaults>>

\* The write fails with nothing or a part of the frame in the file, or all of it: the
\* stream may write what it holds once more when it is flushed or closed.  Nobody
\* asks, and append goes on as if it had worked.
FlushFails(t) ==
  /\ auditor[t].pc = "flush" /\ ~badOut /\ writeFaults < MaxWriteFaults
  /\ writeFaults' = writeFaults + 1
  /\ badOut' = TRUE
  /\ logFile' \in {[logFile EXCEPT !.torn = FALSE], logFile, GrownLog(auditor[t].rec)}
  /\ unwritten' = unwritten \union {auditor[t].rec}
  /\ AuditSet(t, [auditor[t] EXCEPT !.pc = "memory"])
  /\ UNCHANGED <<keysFile, opened, records, subjectKeys, headMac, nextSeq, mu, nKeys, acked,
                 certs, erasing, appends, crashes, keyFaults>>

\* The memory follows the file, mu is given up and append returns; forget, whose
\* tombstone this was, issues its certificate.
EndAppend(t) ==
  LET a == auditor[t]
      f == Frame(a.rec)
  IN /\ a.pc = "memory"
     /\ records' = Append(records, f)
     /\ headMac' = f.mac /\ nextSeq' = nextSeq + 1
     /\ mu' = Nobody
     /\ acked' = acked \union {a.rec}
     /\ certs' = IF a.forget = NoSubject THEN certs
                 ELSE certs \union {[subject |-> a.forget, affected |-> a.affected]}
     /\ AuditSet(t, AtRest)
     /\ UNCHANGED <<logFile, keysFile, opened, subjectKeys, nKeys, erasing, appends, crashes,
                    keyFaults, outVars>>

\* Mutant: forget destroys the key in memory only.
ForgetUnsaved(t, s) ==
  /\ opened /\ mu = Nobody /\ auditor[t].pc = "idle" /\ appends < MaxAppends
  /\ KeysOf(s) # {}
  /\ appends' = appends + 1
  /\ subjectKeys' = subjectKeys \ KeysOf(s)
  /\ erasing' = erasing \union KeysOf(s)
  /\ AuditSet(t, [AtRest EXCEPT
       !.pc = "tombstone", !.forget = s,
       !.affected = {records[i].canon.seq : i \in {j \in DOMAIN records :
                       records[j].canon.subject = s /\ records[j].canon.key # 0}}])
  /\ UNCHANGED <<logFile, keysFile, opened, records, headMac, nextSeq, mu, nKeys, acked, certs,
                 crashes, keyFaults, outVars>>

\* forget, first half: the key is destroyed and the key file rewritten, under mu.
Forget(t, s) ==
  /\ opened /\ mu = Nobody /\ auditor[t].pc = "idle" /\ appends < MaxAppends
  /\ KeysOf(s) # {}
  /\ appends' = appends + 1
  /\ mu' = t
  /\ subjectKeys' = subjectKeys \ KeysOf(s)
  /\ erasing' = erasing \union KeysOf(s)
  /\ AuditSet(t, [AtRest EXCEPT
       !.pc = "trunc", !.forget = s,
       !.affected = {records[i].canon.seq : i \in {j \in DOMAIN records :
                       records[j].canon.subject = s /\ records[j].canon.key # 0}}])
  /\ UNCHANGED <<logFile, keysFile, opened, records, headMac, nextSeq, nKeys, acked, certs,
                 crashes, keyFaults, outVars>>

\* Second half: the tombstone is an append like any other.
BeginTombstone(t) ==
  /\ auditor[t].pc = "tombstone" /\ mu = Nobody
  /\ mu' = t
  /\ AuditSet(t, [auditor[t] EXCEPT !.pc = "write",
                                    !.rec = [seq |-> nextSeq, subject |-> NoSubject, key |-> 0]])
  /\ UNCHANGED <<logFile, keysFile, opened, records, subjectKeys, headMac, nextSeq, nKeys,
                 acked, certs, erasing, appends, crashes, keyFaults, outVars>>

\* The process dies: memory, threads and mu are gone, the files stay as they are.
CrashLog ==
  /\ opened /\ crashes < MaxCrashes
  /\ crashes' = crashes + 1
  /\ opened' = FALSE
  /\ records' = <<>> /\ subjectKeys' = {} /\ headMac' = <<>> /\ nextSeq' = 0
  /\ mu' = Nobody /\ badOut' = FALSE
  /\ auditor' = [t \in AuditThreads |-> AtRest]
  /\ UNCHANGED <<logFile, keysFile, nKeys, acked, certs, erasing, unwritten, appends,
                 keyFaults, writeFaults>>

AuditNext ==
  \/ OpenLog \/ CrashLog \/ AppendNowhere
  \/ \E t \in AuditThreads :
       \/ \E s \in Subjects \union {NoSubject} : BeginAppend(t, s)
       \/ \E s \in Subjects : Forget(t, s)
       \/ TruncateKeys(t) \/ WriteKeys(t) \/ KeysNotSaved(t)
       \/ WriteFrame(t) \/ WriteNothing(t) \/ FlushFrame(t) \/ FlushFails(t)
       \/ EndAppend(t) \/ BeginTombstone(t)

AuditSpec == AuditInit /\ [][AuditNext]_auditVars

-----------------------------------------------------------------------------
\* What append acknowledged on an open log is in the file for good, unless the write
\* of that record failed or came after one that had; failed writes included, the file
\* is a chain that verifies and numbers its records without a gap, across crashes; and
\* when the log opens again, sealed data can still be read unless its subject was
\* being forgotten (or the key file could not be written).
AckedSurvives ==
  LET file == logFile.frames
  IN /\ ChainOk(file)
     /\ \A i \in DOMAIN file : file[i].canon.seq = i - 1
     /\ acked \ unwritten \subseteq {file[i].canon : i \in DOMAIN file}
     /\ (opened /\ keyFaults = 0) =>
          \A r \in acked : r.key # 0 =>
            <<r.subject, r.key>> \in subjectKeys \union erasing

\* Once forget() has issued a certificate, the key of no record the certificate
\* covers is in memory or on disk, so that no restart brings the data back, and
\* no other record was ever sealed with it (unless one of the files could not be
\* written, which forget does not notice: the numbers of records that are not in
\* the file are given out again after a restart).
ErasedForever ==
  keyFaults = 0 /\ writeFaults = 0 =>
    \A c \in certs :
      LET covered == {r \in ToSet(logFile.frames) : r.canon.seq \in c.affected}
          dead    == {r.canon.key : r \in covered}
      IN /\ \A k \in subjectKeys \union keysFile.keys : k[2] \notin dead
         /\ \A r \in ToSet(logFile.frames) : r.canon.key \in dead => r \in covered
=============================================================================
