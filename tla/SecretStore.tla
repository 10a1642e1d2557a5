---------------------------- MODULE SecretStore ----------------------------
(***************************************************************************)
(* The sealed, versioned secret store (SecretStore in                      *)
(* src/secrets/secret_store.cpp) and its crashes.  Every change is made in *)
(* memory and the whole file rewritten in place, under one mutex; get()    *)
(* takes the mutex twice.                                                  *)
(*                                                                         *)
(* A value is a number of its own for every put and rotate.  The seal, the *)
(* MAC and the dates are left out: a file is whole, torn (its MAC does not *)
(* verify) or empty.  A change keeps the mutex from its check to the end   *)
(* of persist(); only crashes come between its steps.                      *)
(***************************************************************************)
EXTENDS Naturals, Sequences, SequencesExt

CONSTANTS
  SecretNames,   \* names of secrets
  Principals,    \* who uses the store, a thread each
  MaxValues,     \* bound: puts and rotates
  MaxStoreOps,   \* bound: other changes
  MaxGets,       \* bound: calls of get
  MaxStoreCrashes, \* bound: crashes
  MaxStoreFaults \* bound: times the file cannot be opened for writing

ASSUME StoreAssumption ==
  /\ MaxValues \in Nat /\ MaxStoreOps \in Nat /\ MaxGets \in Nat /\ MaxStoreCrashes \in Nat
  /\ MaxStoreFaults \in Nat

VARIABLES
  secrets,    \* secrets: name -> [owner, current, versions, granted]
  storeFile,  \* [state, secrets]: "whole", "torn" or "empty" (absent too)
  storeOpen,  \* a store object exists
  saving,     \* what persist() has left to do: "no", "truncate" or "write"
  dropped,    \* values the change being saved takes out of the store
  getter,     \* what each principal's get is doing
  values,     \* values made
  gone,       \* history: values a remove or prune that returned took out
  seen,       \* history: the values newest for a name while each get runs
  storeOps, gets, storeCrashes, storeFaults  \* used up bounds

storeVars == <<secrets, storeFile, storeOpen, saving, dropped, getter, values, gone, seen,
               storeOps, gets, storeCrashes, storeFaults>>

NoSecrets == [n \in {} |-> {}]
NoGet     == [pc |-> "idle", name |-> "", version |-> 0, value |-> 0, result |-> ""]

StoreInit ==
  /\ secrets = NoSecrets
  /\ storeFile = [state |-> "empty", secrets |-> NoSecrets]
  /\ storeOpen = FALSE
  /\ saving = "no" /\ dropped = {}
  /\ getter = [p \in Principals |-> NoGet]
  /\ values = 0
  /\ gone = {}
  /\ seen = [p \in Principals |-> {}]
  /\ storeOps = 0 /\ gets = 0 /\ storeCrashes = 0 /\ storeFaults = 0

\* The mutex is free and there is a store.
Ready == storeOpen /\ saving = "no"

With(n, s)  == [m \in DOMAIN secrets \union {n} |-> IF m = n THEN s ELSE secrets[m]]
Without(n)  == [m \in DOMAIN secrets \ {n} |-> secrets[m]]
ValuesOf(vs) == {vs[i].value : i \in DOMAIN vs}
NewestValue(s) == Last(s.versions).value

\* authorize: the owner may do anything; a grant is taken for all actions here.
Authorized(n, p) == p = secrets[n].owner \/ p \in secrets[n].granted

\* A change of memory to m that takes out the values out; persist() follows.
Change(m, out) ==
  /\ secrets' = m
  /\ saving' = "truncate" /\ dropped' = out
  /\ seen' = [p \in Principals |->
                IF getter[p].pc = "idle" \/ getter[p].name \notin DOMAIN m THEN seen[p]
                ELSE seen[p] \union {NewestValue(m[getter[p].name])}]
  /\ UNCHANGED <<storeFile, storeOpen, getter, gone, gets, storeCrashes, storeFaults>>

-----------------------------------------------------------------------------
Put(p, n) ==
  /\ Ready /\ n \notin DOMAIN secrets /\ values < MaxValues
  /\ values' = values + 1
  /\ Change(With(n, [owner |-> p, current |-> 1, granted |-> {},
                     versions |-> <<[num |-> 1, value |-> values + 1]>>]), {})
  /\ UNCHANGED storeOps

\* Mutant: the new version is numbered after the versions that are left.
RotateByCount(p, n) ==
  LET s == secrets[n]
  IN /\ Ready /\ n \in DOMAIN secrets /\ values < MaxValues
     /\ Authorized(n, p)
     /\ values' = values + 1
     /\ Change(With(n, [s EXCEPT !.current = Len(s.versions) + 1,
                                 !.versions = Append(@, [num |-> Len(s.versions) + 1,
                                                         value |-> values + 1])]), {})
     /\ UNCHANGED storeOps

Rotate(p, n) ==
  LET s == secrets[n]
  IN /\ Ready /\ n \in DOMAIN secrets /\ values < MaxValues
     /\ Authorized(n, p)
     /\ values' = values + 1
     /\ Change(With(n, [s EXCEPT !.current = @ + 1,
                                 !.versions = Append(@, [num |-> s.current + 1,
                                                         value |-> values + 1])]), {})
     /\ UNCHANGED storeOps

\* Mutant: remove does not save.
RemoveSecretUnsaved(p, n) ==
  /\ Ready /\ n \in DOMAIN secrets /\ storeOps < MaxStoreOps
  /\ Authorized(n, p)
  /\ storeOps' = storeOps + 1
  /\ secrets' = Without(n)
  /\ gone' = gone \union ValuesOf(secrets[n].versions)
  /\ UNCHANGED <<storeFile, storeOpen, saving, dropped, getter, values, seen, gets,
                 storeCrashes, storeFaults>>

RemoveSecret(p, n) ==
  /\ Ready /\ n \in DOMAIN secrets /\ storeOps < MaxStoreOps
  /\ Authorized(n, p)
  /\ storeOps' = storeOps + 1
  /\ Change(Without(n), ValuesOf(secrets[n].versions))
  /\ UNCHANGED values

\* std::sort of the versions by their numbers.
Sorted(vs) ==
  LET order == CHOOSE o \in Bijection(DOMAIN vs, DOMAIN vs) :
                 \A i, j \in DOMAIN vs : i < j => vs[o[i]].num <= vs[o[j]].num
  IN [i \in DOMAIN vs |-> vs[order[i]]]

\* pruneOldVersions: the versions with the highest numbers are kept, at least one.
PruneOldVersions(p, n, keepLast) ==
  LET vs   == secrets[n].versions
      keep == IF keepLast = 0 THEN 1 ELSE keepLast
      sorted == Sorted(vs)
      drop == IF Len(vs) > keep THEN Len(vs) - keep ELSE 0
  IN /\ Ready /\ n \in DOMAIN secrets /\ storeOps < MaxStoreOps
     /\ Authorized(n, p)
     /\ storeOps' = storeOps + 1
     /\ Change(With(n, [secrets[n] EXCEPT !.versions = SubSeq(sorted, drop + 1, Len(vs))]),
               ValuesOf(SubSeq(sorted, 1, drop)))
     /\ UNCHANGED values

SetPolicy(p, n, granted) ==
  /\ Ready /\ n \in DOMAIN secrets /\ storeOps < MaxStoreOps
  /\ Authorized(n, p)
  /\ storeOps' = storeOps + 1
  /\ Change(With(n, [secrets[n] EXCEPT !.granted = granted]), {})
  /\ UNCHANGED values

\* persist: opening the file empties it, then it is written; the operation returns.
Truncate ==
  /\ storeOpen /\ saving = "truncate"
  /\ storeFile' \in {[state |-> st, secrets |-> NoSecrets] : st \in {"empty", "torn"}}
  /\ saving' = "write"
  /\ UNCHANGED <<secrets, storeOpen, dropped, getter, values, gone, seen, storeOps, gets,
                 storeCrashes, storeFaults>>
WriteStore ==
  /\ storeOpen /\ saving = "write"
  /\ storeFile' = [state |-> "whole", secrets |-> secrets]
  /\ saving' = "no" /\ dropped' = {}
  /\ gone' = gone \union dropped
  /\ UNCHANGED <<secrets, storeOpen, getter, values, seen, storeOps, gets, storeCrashes,
                 storeFaults>>

\* persist gives up silently when the file cannot be opened.
NotSaved ==
  /\ storeOpen /\ saving = "truncate" /\ storeFaults < MaxStoreFaults
  /\ storeFaults' = storeFaults + 1
  /\ saving' = "no" /\ dropped' = {}
  /\ gone' = gone \union dropped
  /\ UNCHANGED <<secrets, storeFile, storeOpen, getter, values, seen, storeOps, gets,
                 storeCrashes>>

-----------------------------------------------------------------------------
\* get: the current version's number, then, with the mutex taken anew, that version.
GetCurrent(p, n) ==
  /\ Ready /\ getter[p].pc = "idle" /\ gets < MaxGets
  /\ gets' = gets + 1
  /\ getter' = [getter EXCEPT ![p] =
       IF n \in DOMAIN secrets
       THEN [NoGet EXCEPT !.pc = "version", !.name = n, !.version = secrets[n].current]
       ELSE [NoGet EXCEPT !.result = "not found"]]
  /\ seen' = [seen EXCEPT ![p] = IF n \in DOMAIN secrets THEN {NewestValue(secrets[n])} ELSE {}]
  /\ UNCHANGED <<secrets, storeFile, storeOpen, saving, dropped, values, gone, storeOps,
                 storeCrashes, storeFaults>>

GetVersion(p) ==
  LET g  == getter[p]
      vs == secrets[g.name].versions
      hits == {i \in DOMAIN vs : vs[i].num = g.version}
      Done(r, v) == [NoGet EXCEPT !.result = r, !.value = v]
  IN /\ Ready /\ g.pc = "version"
     /\ getter' = [getter EXCEPT ![p] =
          IF g.name \notin DOMAIN secrets THEN Done("not found", 0)
          ELSE IF ~Authorized(g.name, p) THEN Done("denied", 0)
          ELSE IF hits = {} THEN Done("not found", 0)
          ELSE Done("value", vs[Min(hits)].value)]
     /\ UNCHANGED <<secrets, storeFile, storeOpen, saving, dropped, values, gone, seen,
                    storeOps, gets, storeCrashes, storeFaults>>

-----------------------------------------------------------------------------
\* open and load: an empty file is a new store, a torn one an error.
OpenStore ==
  /\ ~storeOpen /\ storeFile.state # "torn"
  /\ storeOpen' = TRUE
  /\ secrets' = storeFile.secrets
  /\ UNCHANGED <<storeFile, saving, dropped, getter, values, gone, seen, storeOps, gets,
                 storeCrashes, storeFaults>>

CrashStore ==
  /\ storeOpen /\ storeCrashes < MaxStoreCrashes
  /\ storeCrashes' = storeCrashes + 1
  /\ storeOpen' = FALSE
  /\ secrets' = NoSecrets
  /\ saving' = "no" /\ dropped' = {}
  /\ getter' = [p \in Principals |-> NoGet]
  /\ seen' = [p \in Principals |-> {}]
  /\ UNCHANGED <<storeFile, values, gone, storeOps, gets, storeFaults>>

StoreNext ==
  \/ \E p \in Principals, n \in SecretNames :
       \/ Put(p, n) \/ Rotate(p, n) \/ RemoveSecret(p, n) \/ GetCurrent(p, n)
       \/ \E k \in 0..2 : PruneOldVersions(p, n, k)
       \/ \E g \in SUBSET Principals : SetPolicy(p, n, g)
  \/ \E p \in Principals : GetVersion(p)
  \/ Truncate \/ WriteStore \/ NotSaved \/ OpenStore \/ CrashStore

StoreSpec == StoreInit /\ [][StoreNext]_storeVars

-----------------------------------------------------------------------------
\* A value that a remove or a prune has taken out is never in the store again, in
\* memory or in the file, whatever crashes and restarts follow (unless the file
\* could not be written); and the current version of a secret is its newest one,
\* which is never pruned, so that it can always be read.
RemovedStaysGone ==
  storeFaults = 0 =>
  /\ \A n \in DOMAIN secrets : /\ ValuesOf(secrets[n].versions) \cap gone = {}
                               /\ Last(secrets[n].versions).num = secrets[n].current
  /\ \A n \in DOMAIN storeFile.secrets :
       ValuesOf(storeFile.secrets[n].versions) \cap gone = {}

\* A value that get() returns was the newest one at some moment of the call,
\* although the secret may be rotated, pruned, removed and put anew between the
\* two times it takes the mutex.
GetSound == \A p \in Principals : getter[p].result = "value" => getter[p].value \in seen[p]
=============================================================================
