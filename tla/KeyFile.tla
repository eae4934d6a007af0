-------------------------------- MODULE KeyFile --------------------------------
(***************************************************************************)
(* key.bin, the encryption key: who writes it (`init`, `key import`), who  *)
(* shows it (`key export`), and the processes that load it once and        *)
(* encrypt backups with it (`start`, `backup`).                            *)
(*                                                                         *)
(* os.WriteFile truncates the file and then writes it, over whatever key   *)
(* was there, and takes no lock; anybody may be killed between two steps.  *)
(***************************************************************************)
CONSTANTS
  KeyValue,      \* encryption keys
  Command,       \* processes of `init` and `key import`
  Agent,         \* processes of `start` and `backup`
  NoKey, Torn    \* key.bin does not exist; is empty

ASSUME KeysOK == {NoKey, Torn} \cap KeyValue = {} /\ NoKey # Torn

VARIABLES
  key,       \* key.bin
  cmd,       \* commands that write it
  agent,     \* processes that back up
  stored,    \* the keys that stored backups were encrypted with
  exported,  \* keys the user holds
  replaced   \* keys that were overwritten (history)

vars == <<key, cmd, agent, stored, exported, replaced>>

Writer == [pc : {"idle", "ready", "writing"}, key : KeyValue \cup {NoKey}]
AtRest == [pc |-> "idle", key |-> NoKey]

\* late: the file was written after the process had loaded it (history).
Process == [up : BOOLEAN, key : KeyValue \cup {NoKey}, late : BOOLEAN]
Off     == [up |-> FALSE, key |-> NoKey, late |-> FALSE]

Init ==
  /\ key = NoKey
  /\ cmd = [c \in Command |-> AtRest] /\ agent = [a \in Agent |-> Off]
  /\ stored = {} /\ exported = {} /\ replaced = {}

-----------------------------------------------------------------------------
\* GenerateKey never makes a key twice.
NewKeys == KeyValue \ (exported \cup replaced \cup {key} \cup {cmd[c].key : c \in Command})

\* init has a new key; `key import` one that was exported, of the right length.
Begin(c, k) ==
  /\ cmd[c].pc = "idle"
  /\ cmd' = [cmd EXCEPT ![c] = [pc |-> "ready", key |-> k]]
  /\ UNCHANGED <<key, agent, stored, exported, replaced>>

GenerateKey(c)  == \E k \in NewKeys : Begin(c, k)
KeyImport(c, k) == k \in exported /\ Begin(c, k)

\* What a write of the file does to its content and to those who have loaded it.
Put(k) ==
  /\ key' = k
  /\ replaced' = replaced \cup (({key} \cap KeyValue) \ {k})
  /\ agent' = [a \in Agent |-> [agent[a] EXCEPT !.late = agent[a].up]]

\* SaveKeyToFile.
Truncate(c) ==
  /\ cmd[c].pc = "ready"
  /\ Put(Torn)
  /\ cmd' = [cmd EXCEPT ![c].pc = "writing"]
  /\ UNCHANGED <<stored, exported>>

\* init goes on to save the configuration: see ConfigFile.
Write(c) ==
  /\ cmd[c].pc = "writing"
  /\ Put(cmd[c].key)
  /\ cmd' = [cmd EXCEPT ![c] = AtRest]
  /\ UNCHANGED <<stored, exported>>

BreakOff(c) ==
  /\ cmd[c].pc # "idle"
  /\ cmd' = [cmd EXCEPT ![c] = AtRest]
  /\ UNCHANGED <<key, agent, stored, exported, replaced>>

-----------------------------------------------------------------------------
\* Mutants: a key of any length is accepted; a missing or short one is made up.
LoadsKey_AnyLength(k) == key # NoKey /\ k = key
LoadsKey_Generates(k) == IF key \in KeyValue THEN k = key ELSE k \in NewKeys

\* LoadKeyFromFile accepts 32 bytes and nothing else.
LoadsKey(k) == key \in KeyValue /\ k = key

KeyExport(k) ==
  /\ LoadsKey(k)
  /\ exported' = exported \cup {k}
  /\ UNCHANGED <<key, cmd, agent, stored, replaced>>

LoadKeyFromFile(a, k) ==
  /\ ~agent[a].up
  /\ LoadsKey(k)
  /\ agent' = [agent EXCEPT ![a] = [up |-> TRUE, key |-> k, late |-> FALSE]]
  /\ UNCHANGED <<key, cmd, stored, exported, replaced>>

\* Mutant: a key is made for each backup.
Encrypt_OwnKey(a) ==
  /\ agent[a].up
  /\ \E k \in NewKeys : stored' = stored \cup {k}
  /\ UNCHANGED <<key, cmd, agent, exported, replaced>>

\* Agent.Backup, with the key that was loaded.
Encrypt(a) ==
  /\ agent[a].up
  /\ stored' = stored \cup {agent[a].key}
  /\ UNCHANGED <<key, cmd, agent, exported, replaced>>

\* It has done, is stopped, fails, or is killed.
Ends(a) ==
  /\ agent[a].up
  /\ agent' = [agent EXCEPT ![a] = Off]
  /\ UNCHANGED <<key, cmd, stored, exported, replaced>>

-----------------------------------------------------------------------------
Next ==
  \/ \E c \in Command :
       GenerateKey(c) \/ Truncate(c) \/ Write(c) \/ BreakOff(c)
         \/ \E k \in exported : KeyImport(c, k)
  \/ \E a \in Agent : Encrypt(a) \/ Ends(a)
  \/ \E k \in KeyValue \cup {Torn} : KeyExport(k) \/ \E a \in Agent : LoadKeyFromFile(a, k)

Spec == Init /\ [][Next]_vars

-----------------------------------------------------------------------------
\* Every variable has its type; nobody works with an empty key, or exports one.
TypeOK ==
  /\ key \in KeyValue \cup {NoKey, Torn}
  /\ cmd \in [Command -> Writer] /\ agent \in [Agent -> Process]
  /\ stored \in SUBSET KeyValue /\ exported \in SUBSET KeyValue /\ replaced \in SUBSET KeyValue

\* A process works with the key in key.bin, unless that was written after the process
\* had loaded it: init and import do not stop a daemon, and it does not load twice.
WorksWithTheKey == \A a \in Agent : agent[a].up /\ ~agent[a].late => agent[a].key = key

\* The key of a backup is lost only where init or import overwrote it: it is in key.bin,
\* or it was there and was replaced, wherever writers overlapped, were killed, or broke
\* off between the key and the rest.
KeysAreKept == stored \subseteq {key} \cup replaced
=============================================================================
