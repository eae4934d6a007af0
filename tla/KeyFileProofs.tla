---------------------------- MODULE KeyFileProofs ----------------------------
(***************************************************************************)
(* Proofs about KeyFile, for any keys, commands and processes.             *)
(***************************************************************************)
EXTENDS KeyFile, TLAPS

USE KeysOK

\* A key that a process works with is a whole one, and is accounted for.
KeysAreKnown ==
  \A a \in Agent : agent[a].up => agent[a].key \in ({key} \cup replaced) \cap KeyValue

\* The inductive invariant.
KeyInv == TypeOK /\ KeysAreKnown /\ WorksWithTheKey /\ KeysAreKept

-----------------------------------------------------------------------------
\* No write of the file, whole or not, loses track of a key in use or of one that
\* encrypted a backup: what it overwrites is remembered as replaced.
LEMMA PutKeeps ==
  ASSUME KeyInv, NEW k \in KeyValue \cup {NoKey, Torn}, Put(k),
         cmd' \in [Command -> Writer], UNCHANGED <<stored, exported>>
  PROVE  KeyInv'
<1>1. /\ key' = k /\ replaced' = replaced \cup (({key} \cap KeyValue) \ {k})
      /\ agent' = [a \in Agent |-> [agent[a] EXCEPT !.late = agent[a].up]]
  BY Zenon DEF Put
<1>2. agent \in [Agent -> Process] /\ replaced \in SUBSET KeyValue
  BY Zenon DEF KeyInv, TypeOK
<1>3. \A a \in Agent : /\ agent'[a] \in Process
                       /\ agent'[a].up = agent[a].up /\ agent'[a].key = agent[a].key
                       /\ agent'[a].late = agent[a].up
  BY <1>1, <1>2 DEF Process
<1>4. {key} \cup replaced \subseteq {NoKey, Torn} \cup {key'} \cup replaced'
  BY <1>1 DEF KeyInv, TypeOK
<1>5. TypeOK'
  <2>1. agent' \in [Agent -> Process]
    BY <1>1, <1>3
  <2> QED
    BY <1>1, <1>2, <2>1 DEF KeyInv, TypeOK
<1>6. KeysAreKnown'
  BY <1>3, <1>4 DEF KeyInv, KeysAreKnown
<1>7. WorksWithTheKey'
  BY <1>3 DEF WorksWithTheKey
<1>8. KeysAreKept'
  BY <1>4 DEF KeyInv, TypeOK, KeysAreKept
<1> QED
  BY <1>5, <1>6, <1>7, <1>8 DEF KeyInv

\* Neither the beginning nor the end of a command touches the file.
LEMMA CommandKeeps ==
  ASSUME KeyInv, cmd' \in [Command -> Writer],
         UNCHANGED <<key, agent, stored, exported, replaced>>
  PROVE  KeyInv'
  BY DEF KeyInv, TypeOK, KeysAreKnown, WorksWithTheKey, KeysAreKept

LEMMA BeginKeeps ==
  ASSUME KeyInv, NEW c \in Command, NEW k \in KeyValue, Begin(c, k)
  PROVE  KeyInv'
<1>1. cmd' \in [Command -> Writer]
  BY DEF KeyInv, TypeOK, Begin, Writer
<1> QED
  BY <1>1, CommandKeeps DEF Begin

-----------------------------------------------------------------------------
\* The inductive invariant holds.
THEOREM KeyInvariant == Spec => []KeyInv
<1>1. Init => KeyInv
  BY DEF Init, KeyInv, TypeOK, KeysAreKnown, WorksWithTheKey, KeysAreKept,
         Writer, AtRest, Process, Off
<1>2. KeyInv /\ [Next]_vars => KeyInv'
  <2> SUFFICES ASSUME KeyInv, [Next]_vars PROVE KeyInv'
    OBVIOUS
  <2>1. ASSUME NEW c \in Command, GenerateKey(c) PROVE KeyInv'
    BY <2>1, BeginKeeps DEF GenerateKey, NewKeys
  <2>2. ASSUME NEW c \in Command, NEW k \in exported, KeyImport(c, k) PROVE KeyInv'
    BY <2>2, BeginKeeps DEF KeyImport, KeyInv, TypeOK
  <2>3. ASSUME NEW c \in Command, Truncate(c) PROVE KeyInv'
    <3>1. cmd' \in [Command -> Writer]
      BY <2>3 DEF Truncate, KeyInv, TypeOK, Writer
    <3> QED
      BY <2>3, <3>1, PutKeeps DEF Truncate
  <2>4. ASSUME NEW c \in Command, Write(c) PROVE KeyInv'
    <3>1. cmd' \in [Command -> Writer] /\ cmd[c].key \in KeyValue \cup {NoKey}
      BY <2>4 DEF Write, KeyInv, TypeOK, Writer, AtRest
    <3> QED
      BY <2>4, <3>1, PutKeeps DEF Write
  <2>5. ASSUME NEW c \in Command, BreakOff(c) PROVE KeyInv'
    <3>1. cmd' \in [Command -> Writer]
      BY <2>5 DEF BreakOff, KeyInv, TypeOK, Writer, AtRest
    <3> QED
      BY <2>5, <3>1, CommandKeeps DEF BreakOff
  <2>6. ASSUME NEW k \in KeyValue \cup {Torn}, KeyExport(k) PROVE KeyInv'
    BY <2>6 DEF KeyExport, LoadsKey, KeyInv, TypeOK, KeysAreKnown, WorksWithTheKey, KeysAreKept
  <2>7. ASSUME NEW a \in Agent, NEW k \in KeyValue \cup {Torn}, LoadKeyFromFile(a, k)
        PROVE  KeyInv'
    <3>1. k = key /\ k \in KeyValue
      BY <2>7 DEF LoadKeyFromFile, LoadsKey
    <3>2. /\ agent' = [agent EXCEPT ![a] = [up |-> TRUE, key |-> k, late |-> FALSE]]
          /\ UNCHANGED <<key, cmd, stored, exported, replaced>>
      BY <2>7 DEF LoadKeyFromFile
    <3> QED
      BY <3>1, <3>2 DEF KeyInv, TypeOK, Process, KeysAreKnown, WorksWithTheKey, KeysAreKept
  <2>8. ASSUME NEW a \in Agent, Encrypt(a) PROVE KeyInv'
    BY <2>8 DEF Encrypt, KeyInv, TypeOK, KeysAreKnown, WorksWithTheKey, KeysAreKept
  <2>9. ASSUME NEW a \in Agent, Ends(a) PROVE KeyInv'
    BY <2>9 DEF Ends, KeyInv, TypeOK, Process, Off, KeysAreKnown, WorksWithTheKey, KeysAreKept
  <2>10. CASE UNCHANGED vars
    BY <2>10 DEF vars, KeyInv, TypeOK, KeysAreKnown, WorksWithTheKey, KeysAreKept
  <2> QED
    BY <2>1, <2>2, <2>3, <2>4, <2>5, <2>6, <2>7, <2>8, <2>9, <2>10, Zenon DEF Next
<1> QED
  BY <1>1, <1>2, PTL DEF Spec

\* Every variable keeps its type, and nobody works with an empty key or exports one.
THEOREM TypeInvariant == Spec => []TypeOK
  BY KeyInvariant, PTL DEF KeyInv

\* A process works with the key in key.bin, unless that was written since it loaded it.
THEOREM WorksWithTheKeyTheorem == Spec => []WorksWithTheKey
  BY KeyInvariant, PTL DEF KeyInv

\* Only an overwritten key is ever missing.
THEOREM KeysAreKeptTheorem == Spec => []KeysAreKept
  BY KeyInvariant, PTL DEF KeyInv
=============================================================================
