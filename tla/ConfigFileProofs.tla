-------------------------- MODULE ConfigFileProofs --------------------------
(***************************************************************************)
(* Proofs about ConfigFile: what the user was told is in the file, and no  *)
(* command makes IDs equal, for any databases, commands and configurations *)
(* of any length.                                                          *)
(*                                                                         *)
(* The first part is about lists of entries: what `db remove` leaves of    *)
(* one, and what the scheduler takes from it.  The second is the invariant *)
(* of the commands.                                                        *)
(***************************************************************************)
EXTENDS ConfigFile, Prefixes

-----------------------------------------------------------------------------
(* Lists of entries.                                                       *)

\* What the loop of `db remove` has kept after each entry.
Kept(dbs, d, k) ==
  /\ k \in [0 .. Len(dbs) -> Seq(Entry)]
  /\ k[0] = <<>>
  /\ \A n \in 1 .. Len(dbs) :
       k[n] = IF dbs[n].id = d THEN k[n - 1] ELSE Append(k[n - 1], dbs[n])

\* The loop goes from the first entry to the last, and what it has kept then is the
\* result.
LEMMA WithoutIsLoop ==
  ASSUME NEW dbs \in Seq(Entry), NEW d
  PROVE  \E k : Kept(dbs, d, k) /\ Without(dbs, d) = k[Len(dbs)]
<1> DEFINE Body(g) == [n \in 0 .. Len(dbs) |->
                        IF n = 0 THEN <<>>
                        ELSE IF dbs[n].id = d THEN g[n - 1] ELSE Append(g[n - 1], dbs[n])]
<1> DEFINE kept == CHOOSE g : g = Body(g)
<1> DEFINE Round == [p \in Seq(Entry) \X (1 .. Len(dbs)) |->
                      IF dbs[p[2]].id = d THEN p[1] ELSE Append(p[1], dbs[p[2]])]
<1>1. Len(dbs) \in Nat /\ <<>> \in Seq(Entry)
  OBVIOUS
<1>2. Round \in [Seq(Entry) \X (1 .. Len(dbs)) -> Seq(Entry)]
  OBVIOUS
<1>3. \A n \in 1 .. Len(dbs), s \in Seq(Entry) :
        Round[<<s, n>>] = IF dbs[n].id = d THEN s ELSE Append(s, dbs[n])
  OBVIOUS
<1> HIDE DEF Round
<1>4. PICK k : IsLoop(k, Len(dbs), Seq(Entry), <<>>, Round)
  BY <1>1, <1>2, LoopExists
<1>5. k = Body(k)
  <2>1. ASSUME NEW n \in 0 .. Len(dbs) PROVE k[n] = Body(k)[n]
    <3>1. CASE n = 0
      BY <1>1, <1>4, <3>1 DEF IsLoop
    <3>2. CASE n \in 1 .. Len(dbs)
      <4>a. n - 1 \in 0 .. Len(dbs)
        BY <1>1, <3>2
      <4>1. k[n] = Round[<<k[n - 1], n>>] /\ k[n - 1] \in Seq(Entry)
        BY <1>4, <3>2, <4>a DEF IsLoop
      <4> QED
        BY <1>3, <3>2, <4>1
    <3> QED
      BY <1>1, <3>1, <3>2
  <2>2. DOMAIN k = 0 .. Len(dbs) /\ k = [n \in 0 .. Len(dbs) |-> k[n]]
    BY <1>4 DEF IsLoop
  <2>3. Body(k) = [n \in 0 .. Len(dbs) |-> Body(k)[n]]
    OBVIOUS
  <2> HIDE DEF Body
  <2> QED
    BY <2>1, <2>2, <2>3, Zenon
<1>6. kept = Body(kept)
  <2> HIDE DEF Body
  <2> QED
    BY <1>5
<1>7. \A n \in 0 .. Len(dbs) :
        kept[n] = IF n = 0 THEN <<>>
                  ELSE IF dbs[n].id = d THEN kept[n - 1] ELSE Append(kept[n - 1], dbs[n])
  <2> HIDE DEF kept
  <2> QED
    BY <1>6
<1>8. IsLoop(kept, Len(dbs), Seq(Entry), <<>>, Round)
  <2> HIDE DEF kept
  <2>1. kept = [n \in 0 .. Len(dbs) |-> kept[n]] /\ kept[0] = <<>>
    BY <1>1, <1>6
  <2>2. ASSUME NEW n \in 1 .. Len(dbs), kept[n - 1] \in Seq(Entry)
        PROVE  kept[n] = Round[<<kept[n - 1], n>>]
    <3>1. kept[n] = IF dbs[n].id = d THEN kept[n - 1] ELSE Append(kept[n - 1], dbs[n])
      BY <1>1, <1>7
    <3> QED
      BY <1>3, <2>2, <3>1
  <2> QED
    BY <1>1, <1>2, <2>1, <2>2, LoopTyped
<1>9. Kept(dbs, d, kept)
  <2> HIDE DEF kept
  <2>1. ASSUME NEW n \in 1 .. Len(dbs)
        PROVE  kept[n] = IF dbs[n].id = d THEN kept[n - 1] ELSE Append(kept[n - 1], dbs[n])
    BY <1>1, <1>7
  <2> QED
    BY <1>8, <2>1 DEF IsLoop, Kept
<1>10. Without(dbs, d) = kept[Len(dbs)]
  BY DEF Without
<1> QED
  BY <1>9, <1>10

\* A list that is longer by one entry, or by another list, has its entries too.
LEMMA Ranges ==
  ASSUME NEW s \in Seq(Entry)
  PROVE  /\ \A e \in Entry : Range(Append(s, e)) = Range(s) \cup {e}
         /\ \A t \in Seq(Entry) : Range(s \o t) = Range(s) \cup Range(t)
<1>1. ASSUME NEW e \in Entry PROVE Range(Append(s, e)) = Range(s) \cup {e}
  <2>1. /\ DOMAIN Append(s, e) = 1 .. Len(s) + 1 /\ DOMAIN s = 1 .. Len(s) /\ Len(s) \in Nat
        /\ \A i \in 1 .. Len(s) : Append(s, e)[i] = s[i]
        /\ Append(s, e)[Len(s) + 1] = e
    OBVIOUS
  <2>2. 1 .. Len(s) + 1 = 1 .. Len(s) \cup {Len(s) + 1}
    BY <2>1
  <2> QED
    BY <2>1, <2>2 DEF Range
<1>2. ASSUME NEW t \in Seq(Entry) PROVE Range(s \o t) = Range(s) \cup Range(t)
  <2> DEFINE u == s \o t
  <2>1. /\ DOMAIN u = 1 .. Len(s) + Len(t) /\ DOMAIN s = 1 .. Len(s) /\ DOMAIN t = 1 .. Len(t)
        /\ \A i \in 1 .. Len(s) : u[i] = s[i]
        /\ \A i \in Len(s) + 1 .. Len(s) + Len(t) : u[i] = t[i - Len(s)]
        /\ Len(s) \in Nat /\ Len(t) \in Nat
    OBVIOUS
  <2> HIDE DEF u
  <2>2. ASSUME NEW i \in DOMAIN u PROVE u[i] \in Range(s) \cup Range(t)
    <3>1. CASE i \in DOMAIN s
      BY <2>1, <3>1 DEF Range
    <3>2. CASE i \in Len(s) + 1 .. Len(s) + Len(t)
      <4>1. i - Len(s) \in DOMAIN t /\ u[i] = t[i - Len(s)]
        BY <2>1, <3>2
      <4> QED
        BY <4>1 DEF Range
    <3> QED
      BY <2>1, <3>1, <3>2
  <2>3. ASSUME NEW i \in DOMAIN s PROVE i \in DOMAIN u /\ u[i] = s[i]
    BY <2>1
  <2>4. ASSUME NEW i \in DOMAIN t PROVE i + Len(s) \in DOMAIN u /\ u[i + Len(s)] = t[i]
    BY <2>1
  <2>5. Range(u) = Range(s) \cup Range(t)
    BY <2>2, <2>3, <2>4 DEF Range
  <2> QED
    BY <2>5 DEF u
<1> QED
  BY <1>1, <1>2

\* An entry whose ID is new makes no two equal.
LEMMA AppendDiffers ==
  ASSUME NEW s \in Seq(Entry), AllDiffer(s), NEW e \in Entry,
         \A f \in Range(s) : f.id # e.id
  PROVE  AllDiffer(Append(s, e))
<1>1. /\ DOMAIN Append(s, e) = 1 .. Len(s) + 1 /\ DOMAIN s = 1 .. Len(s) /\ Len(s) \in Nat
      /\ \A i \in 1 .. Len(s) : Append(s, e)[i] = s[i]
      /\ Append(s, e)[Len(s) + 1] = e
  OBVIOUS
<1>2. \A i \in DOMAIN s : s[i].id # e.id
  BY DEF Range
<1> QED
  BY <1>1, <1>2 DEF AllDiffer

\* `db remove` keeps every entry but those of the ID, and makes no two equal.
LEMMA WithoutKeeps ==
  ASSUME NEW dbs \in Seq(Entry), NEW d
  PROVE  /\ Without(dbs, d) \in Seq(Entry)
         /\ Range(Without(dbs, d)) = {e \in Range(dbs) : e.id # d}
         /\ AllDiffer(dbs) => AllDiffer(Without(dbs, d))
<1> DEFINE len == Len(dbs)
<1>1. PICK k : Kept(dbs, d, k) /\ Without(dbs, d) = k[len]
  BY WithoutIsLoop
<1>2. len \in Nat /\ DOMAIN dbs = 1 .. len /\ \A n \in 1 .. len : dbs[n] \in Entry
  OBVIOUS
<1> HIDE DEF len
<1>3. \A n \in 0 .. len : k[n] \in Seq(Entry)
  BY <1>1 DEF Kept, len
<1>4. ASSUME NEW n \in 1 .. len
      PROVE  k[n] = IF dbs[n].id = d THEN k[n - 1] ELSE Append(k[n - 1], dbs[n])
  BY <1>1 DEF Kept, len
<1> DEFINE Upto(n) == {dbs[i] : i \in {j \in 1 .. n : dbs[j].id # d}}
<1> DEFINE Good == {n \in 0 .. len : /\ Range(k[n]) = Upto(n)
                                     /\ AllDiffer(dbs) => AllDiffer(k[n])}
<1>5. 0 \in Good
  <2>1. k[0] = <<>>
    BY <1>1 DEF Kept
  <2>2. Range(<<>>) = {} /\ AllDiffer(<<>>)
    BY DEF Range, AllDiffer
  <2>3. Upto(0) = {}
    OBVIOUS
  <2> QED
    BY <1>2, <2>1, <2>2, <2>3
<1>6. ASSUME NEW n \in 1 .. len, n - 1 \in Good
      PROVE  n \in Good
  <2>1. n - 1 \in 0 .. len /\ k[n - 1] \in Seq(Entry) /\ dbs[n] \in Entry
    BY <1>2, <1>3
  <2>2. Range(k[n - 1]) = Upto(n - 1) /\ (AllDiffer(dbs) => AllDiffer(k[n - 1]))
    BY <1>6
  <2>3. 1 .. n = 1 .. n - 1 \cup {n}
    BY <1>2
  <2>4. CASE dbs[n].id = d
    <3>1. k[n] = k[n - 1]
      BY <1>4, <2>4
    <3>2. Upto(n) = Upto(n - 1)
      BY <2>3, <2>4
    <3>3. Range(k[n]) = Upto(n) /\ (AllDiffer(dbs) => AllDiffer(k[n]))
      <4> HIDE DEF Upto
      <4> QED
        BY <2>2, <3>1, <3>2
    <3> QED
      BY <3>3
  <2>5. CASE dbs[n].id # d
    <3>1. k[n] = Append(k[n - 1], dbs[n])
      BY <1>4, <2>5
    <3>2. Upto(n) = Upto(n - 1) \cup {dbs[n]}
      BY <2>3, <2>5
    <3>3. Range(k[n]) = Upto(n)
      BY <2>1, <2>2, <3>1, <3>2, Ranges
    <3>4. ASSUME AllDiffer(dbs) PROVE AllDiffer(k[n])
      <4>1. \A i \in 1 .. n - 1 : i \in DOMAIN dbs /\ n \in DOMAIN dbs /\ i # n
        BY <1>2
      <4>2. \A i \in 1 .. n - 1 : dbs[i].id # dbs[n].id
        BY <3>4, <4>1 DEF AllDiffer
      <4>3. \A e \in Upto(n - 1) : e.id # dbs[n].id
        BY <4>2
      <4> QED
        BY <2>1, <2>2, <3>1, <3>4, <4>3, AppendDiffers
    <3> QED
      BY <1>2, <3>3, <3>4
  <2> QED
    BY <2>4, <2>5
<1>7. len \in Good
  <2> HIDE DEF Good
  <2>1. \A n \in 0 .. len : n \in Good
    BY <1>2, <1>5, <1>6, Rounds
  <2> QED
    BY <1>2, <2>1
<1>8. Upto(len) = {e \in Range(dbs) : e.id # d}
  BY <1>2 DEF Range
<1> QED
  BY <1>1, <1>2, <1>3, <1>7, <1>8

\* The scheduler takes what a list says, all of it, if every ID is there once.
LEMMA AllScheduled ==
  ASSUME NEW dbs \in Seq(Entry), AllDiffer(dbs)
  PROVE  Scheduled(dbs) = Range(dbs)
<1>1. ASSUME NEW i \in DOMAIN dbs PROVE GetDatabaseByID(dbs, dbs[i].id) = dbs[i]
  <2>1. dbs[i].id = dbs[i].id /\ \A j \in 1 .. i - 1 : dbs[j].id # dbs[i].id
    <3>1. i \in 1 .. Len(dbs) /\ DOMAIN dbs = 1 .. Len(dbs) /\ Len(dbs) \in Nat
      OBVIOUS
    <3>2. \A j \in 1 .. i - 1 : j \in DOMAIN dbs /\ j # i
      BY <3>1
    <3> QED
      BY <3>2 DEF AllDiffer
  <2>2. \A k \in DOMAIN dbs : dbs[k].id = dbs[i].id => k = i
    BY DEF AllDiffer
  <2>3. First(dbs, dbs[i].id) = i
    BY <2>1, <2>2 DEF First
  <2> QED
    BY <2>3 DEF GetDatabaseByID
<1> QED
  BY <1>1 DEF Scheduled, IDs, Range

-----------------------------------------------------------------------------
(* The commands.                                                           *)

\* Without an overlap one command at a time edits.
AloneInv ==
  ~blind => \A b, c \in Command : cmd[b].pc # "idle" /\ cmd[c].pc # "idle" => b = c

\* ... and what it truncated is empty until it has written it.
SavingInv == ~blind => \A c \in Command : cmd[c].pc = "writing" => file = Empty

\* Nothing that is saved or about to be has an ID twice.
DifferInv ==
  doubled \/ /\ AllDiffer(file.dbs)
             /\ \A c \in Command : cmd[c].pc # "idle" => AllDiffer(cmd[c].new.dbs)

\* A command is about to save what the user was told with its edit in it, if no save
\* broke off or the configuration is made anew.
PendingInv ==
  ~blind => \A c \in Command :
    cmd[c].pc # "idle" /\ (torn => cmd[c].anew) =>
      Range(cmd[c].new.dbs) = {e \in told : e.id \notin cmd[c].removed} \cup cmd[c].added

\* What comes of a save that broke off has no storage type, unless the environment or
\* an init gives it one.
UntypedInv ==
  ~blind /\ ~env /\ torn =>
    /\ ~file.typed
    /\ \A c \in Command : cmd[c].pc # "idle" /\ ~cmd[c].anew => ~cmd[c].new.typed

ConfigInv ==
  TypeOK /\ AloneInv /\ SavingInv /\ DifferInv /\ EditsAreKept /\ PendingInv /\ UntypedInv

\* What an edit makes of the file that it was given.
Makes(f, new, added, removed, anew) ==
  IF anew THEN removed = ID /\ added = Range(new.dbs)
  ELSE /\ new.typed = (f.typed \/ env)
       /\ Range(new.dbs) = {e \in Range(f.dbs) : e.id \notin removed} \cup added

\* An edit of a configuration that uses no ID twice makes one that does not, or it is
\* recorded.
Recorded(f, new) ==
  /\ doubled' \in BOOLEAN /\ (doubled => doubled')
  /\ AllDiffer(f.dbs) /\ ~doubled' => AllDiffer(new.dbs)

Edited(c, f, new, added, removed, anew) ==
  Edits(c, f, new, added, removed, anew) /\ Makes(f, new, added, removed, anew)
    /\ Recorded(f, new)

\* The list of a configuration, replaced.
LEMMA LoadedWith ==
  ASSUME TypeOK, NEW f \in Config, NEW dbs \in Seq(Entry)
  PROVE  LET new == [Loaded(f) EXCEPT !.dbs = dbs] IN
         new \in Config /\ new.dbs = dbs /\ new.typed = (f.typed \/ env)
  BY DEF TypeOK, Config, Loaded

\* What `db add` makes.
LEMMA DbAddMakes ==
  ASSUME TypeOK, NEW c \in Command, NEW f \in Config, NEW e \in Entry, DbAdd(c, f, e)
  PROVE  \E new \in Config : Edited(c, f, new, {e}, {}, FALSE)
<1> DEFINE new == [Loaded(f) EXCEPT !.dbs = Append(f.dbs, e)]
<1>1. f.dbs \in Seq(Entry) /\ Append(f.dbs, e) \in Seq(Entry) /\ Loaded(f).dbs = f.dbs
  BY DEF Config, Loaded
<1>2. new \in Config /\ new.dbs = Append(f.dbs, e) /\ new.typed = (f.typed \/ env)
  BY <1>1, LoadedWith
<1>3. Edits(c, f, new, {e}, {}, FALSE) /\ doubled' = doubled
  BY <1>1 DEF DbAdd
<1> HIDE DEF new
<1>4. Makes(f, new, {e}, {}, FALSE)
  BY <1>1, <1>2, Ranges DEF Makes
<1>5. \A g \in Range(f.dbs) : g.id # e.id
  BY DEF DbAdd, IDs, Range
<1>6. Recorded(f, new)
  BY <1>1, <1>2, <1>3, <1>5, AppendDiffers DEF Recorded, TypeOK
<1> QED
  BY <1>2, <1>3, <1>4, <1>6 DEF Edited

\* What `db remove` makes.
LEMMA DbRemoveMakes ==
  ASSUME TypeOK, NEW c \in Command, NEW f \in Config, NEW d \in ID, DbRemove(c, f, d)
  PROVE  \E new \in Config : Edited(c, f, new, {}, {d}, FALSE)
<1> DEFINE new == [Loaded(f) EXCEPT !.dbs = Without(f.dbs, d)]
<1>1. f.dbs \in Seq(Entry) /\ Loaded(f).dbs = f.dbs
  BY DEF Config, Loaded
<1>2. new \in Config /\ new.dbs = Without(f.dbs, d) /\ new.typed = (f.typed \/ env)
  BY <1>1, LoadedWith, WithoutKeeps
<1>3. Edits(c, f, new, {}, {d}, FALSE) /\ doubled' = doubled
  BY <1>1 DEF DbRemove
<1> HIDE DEF new
<1>4. Makes(f, new, {}, {d}, FALSE)
  BY <1>1, <1>2, WithoutKeeps DEF Makes
<1>5. Recorded(f, new)
  BY <1>1, <1>2, <1>3, WithoutKeeps DEF Recorded, TypeOK
<1> QED
  BY <1>2, <1>3, <1>4, <1>5 DEF Edited

\* What `db discover` makes.
LEMMA DbDiscoverMakes ==
  ASSUME TypeOK, NEW c \in Command, NEW f \in Config, NEW more \in More,
         DbDiscover(c, f, more)
  PROVE  \E new \in Config, added \in SUBSET Entry : Edited(c, f, new, added, {}, FALSE)
<1> DEFINE dbs == f.dbs \o more
<1> DEFINE new == [Loaded(f) EXCEPT !.dbs = dbs]
<1>1. f.dbs \in Seq(Entry) /\ more \in Seq(Entry)
  <2>1. PICK n \in 0 .. MaxDbs : more \in [1 .. n -> Entry]
    BY DEF More, Some
  <2>2. n \in Nat
    BY ConstantsOK
  <2> QED
    BY <2>1, <2>2 DEF Config
<1>2. dbs \in Seq(Entry) /\ Range(more) \in SUBSET Entry
  BY <1>1 DEF Range
<1>3. Edits(c, f, new, Range(more), {}, FALSE)
      /\ doubled' = (doubled \/ (AllDiffer(f.dbs) /\ ~AllDiffer(dbs)))
  BY DEF DbDiscover
<1>4. Range(dbs) = Range(f.dbs) \cup Range(more)
  BY <1>1, Ranges
<1> HIDE DEF dbs
<1>5. new \in Config /\ new.dbs = dbs /\ new.typed = (f.typed \/ env)
  BY <1>2, LoadedWith
<1> HIDE DEF new
<1>6. Makes(f, new, Range(more), {}, FALSE)
  BY <1>4, <1>5 DEF Makes
<1>7. Recorded(f, new)
  BY <1>3, <1>5 DEF Recorded, TypeOK
<1> QED
  BY <1>2, <1>3, <1>5, <1>6, <1>7 DEF Edited

\* What `init` makes, whatever the file is.
LEMMA RunInitMakes ==
  ASSUME TypeOK, NEW c \in Command, NEW found \in Found, RunInit(c, found)
  PROVE  \E new \in Config, added \in SUBSET Entry : Edited(c, file, new, added, ID, TRUE)
<1> DEFINE dbs == [i \in DOMAIN found |-> [id |-> DiscoveredID[found[i]], of |-> found[i]]]
<1> DEFINE new == [typed |-> TRUE, dbs |-> dbs]
<1>1. dbs \in Seq(Entry)
  <2>1. PICK n \in 0 .. MaxDbs : found \in [1 .. n -> Target]
    BY DEF Found, Some
  <2>2. \A i \in 1 .. n : [id |-> DiscoveredID[found[i]], of |-> found[i]] \in Entry
    BY <2>1, ConstantsOK DEF Entry
  <2>3. dbs \in [1 .. n -> Entry] /\ n \in Nat
    BY <2>1, <2>2, ConstantsOK
  <2> QED
    BY <2>3
<1>2. Edits(c, file, new, Range(dbs), ID, TRUE) /\ doubled' = (doubled \/ ~AllDiffer(dbs))
  BY DEF RunInit
<1> HIDE DEF dbs
<1>3. new \in Config /\ new.dbs = dbs /\ Range(dbs) \in SUBSET Entry
  BY <1>1 DEF Config, Range
<1> HIDE DEF new
<1>4. Makes(file, new, Range(dbs), ID, TRUE) /\ Recorded(file, new)
  BY <1>2, <1>3 DEF Makes, Recorded, TypeOK
<1> QED
  BY <1>2, <1>3, <1>4 DEF Edited

\* What any edit makes, of the file or of another one.
LEMMA EditMakes ==
  ASSUME TypeOK, NEW c \in Command, MakeEdit(c)
  PROVE  \E f \in Elsewhere \cup {file}, new \in Config, added \in SUBSET Entry,
            removed \in SUBSET ID, anew \in BOOLEAN : Edited(c, f, new, added, removed, anew)
<1>1. Given \subseteq Elsewhere \cup {file} /\ Elsewhere \cup {file} \subseteq Config
  BY ElsewhereOK DEF Given, TypeOK
<1>2. ASSUME NEW f \in Given, NEW e \in Entry, DbAdd(c, f, e)
      PROVE  \E new \in Config : Edited(c, f, new, {e}, {}, FALSE)
  BY <1>1, <1>2, DbAddMakes
<1>3. ASSUME NEW f \in Given, NEW d \in ID, DbRemove(c, f, d)
      PROVE  \E new \in Config : Edited(c, f, new, {}, {d}, FALSE)
  BY <1>1, <1>3, DbRemoveMakes
<1>4. ASSUME NEW f \in Given, NEW more \in More, DbDiscover(c, f, more)
      PROVE  \E new \in Config, added \in SUBSET Entry : Edited(c, f, new, added, {}, FALSE)
  BY <1>1, <1>4, DbDiscoverMakes
<1>5. ASSUME NEW found \in Found, RunInit(c, found)
      PROVE  \E new \in Config, added \in SUBSET Entry :
               Edited(c, file, new, added, ID, TRUE)
  BY <1>5, RunInitMakes
<1>6. \A e \in Entry : {e} \in SUBSET Entry
  OBVIOUS
<1>7. \A d \in ID : {d} \in SUBSET ID
  OBVIOUS
<1>8. {} \in SUBSET Entry /\ {} \in SUBSET ID /\ ID \in SUBSET ID
  OBVIOUS
<1> QED
  BY <1>1, <1>2, <1>3, <1>4, <1>5, <1>6, <1>7, <1>8 DEF MakeEdit
\* An edit keeps the invariant: it starts from what the file says, unless that makes it
\* blind.
LEMMA EditKeeps ==
  ASSUME ConfigInv, NEW c \in Command, MakeEdit(c)
  PROVE  ConfigInv'
<1> USE DEF ConfigInv
<1>1. PICK f \in Elsewhere \cup {file}, new \in Config, added \in SUBSET Entry,
           removed \in SUBSET ID, anew \in BOOLEAN : Edited(c, f, new, added, removed, anew)
  BY EditMakes
<1> DEFINE mine == [pc |-> "edited", new |-> new, added |-> added, removed |-> removed,
                    anew |-> anew]
<1>2. /\ cmd[c].pc = "idle" /\ cmd' = [cmd EXCEPT ![c] = mine]
      /\ blind' = (blind \/ f # file \/ \E b \in Command : cmd[b].pc # "idle")
      /\ UNCHANGED <<env, readable, file, told, torn>>
  BY <1>1 DEF Edited, Edits
<1>3. Makes(f, new, added, removed, anew) /\ Recorded(f, new)
  BY <1>1 DEF Edited
<1>4. mine \in Edit /\ cmd'[c] = mine /\ \A b \in Command : b # c => cmd'[b] = cmd[b]
  BY <1>2 DEF Edit, TypeOK
<1> HIDE DEF mine
<1>5. cmd'[c].pc = "edited" /\ cmd'[c].new = new /\ cmd'[c].added = added
      /\ cmd'[c].removed = removed /\ cmd'[c].anew = anew
  BY <1>4 DEF mine
<1>6. TypeOK'
  BY <1>2, <1>3, <1>4 DEF TypeOK, Recorded
<1>7. ~blind' => ~blind /\ f = file /\ \A b \in Command : cmd[b].pc = "idle"
  BY <1>2
<1>8. AloneInv' /\ SavingInv'
  BY <1>4, <1>5, <1>7 DEF AloneInv, SavingInv
<1>9. DifferInv'
  <2>1. ~doubled => AllDiffer(f.dbs)
    BY ElsewhereOK DEF DifferInv
  <2>2. ~doubled' => ~doubled /\ AllDiffer(new.dbs)
    BY <1>3, <2>1 DEF Recorded, TypeOK
  <2> QED
    BY <1>2, <1>4, <1>5, <2>2 DEF DifferInv
<1>10. EditsAreKept'
  BY <1>2, <1>7 DEF EditsAreKept
<1>11. PendingInv'
  <2> SUFFICES ASSUME ~blind', torn => anew
               PROVE  Range(new.dbs) = {e \in told : e.id \notin removed} \cup added
    BY <1>2, <1>4, <1>5, <1>7 DEF PendingInv
  <2>1. CASE anew
    <3>1. \A e \in told : e.id \in ID
      BY DEF TypeOK, Entry
    <3> QED
      BY <1>3, <2>1, <3>1 DEF Makes
  <2>2. CASE ~anew
    <3>1. Range(file.dbs) = told
      BY <1>7, <2>2 DEF EditsAreKept
    <3> QED
      BY <1>3, <1>7, <2>2, <3>1 DEF Makes
  <2> QED
    BY <2>1, <2>2
<1>12. UntypedInv'
  BY <1>2, <1>3, <1>4, <1>5, <1>7 DEF UntypedInv, Makes
<1> QED
  BY <1>6, <1>8, <1>9, <1>10, <1>11, <1>12

\* Where a save begins.
LEMMA TruncateKeeps ==
  ASSUME ConfigInv, NEW c \in Command, Truncate(c)
  PROVE  ConfigInv'
<1> USE DEF ConfigInv
<1>1. /\ cmd[c].pc = "edited" /\ cmd' = [cmd EXCEPT ![c].pc = "writing"]
      /\ readable' = TRUE /\ file' = Empty /\ UNCHANGED <<env, told, blind, torn, doubled>>
  BY DEF Truncate
<1>2. /\ cmd' \in [Command -> Edit]
      /\ cmd'[c].pc = "writing" /\ cmd'[c].new = cmd[c].new /\ cmd'[c].added = cmd[c].added
      /\ cmd'[c].removed = cmd[c].removed /\ cmd'[c].anew = cmd[c].anew
      /\ \A b \in Command : b # c => cmd'[b] = cmd[b]
  BY <1>1 DEF TypeOK, Edit
<1>3. Empty \in Config /\ AllDiffer(Empty.dbs) /\ ~Empty.typed
  BY DEF Empty, Config, AllDiffer
<1>4. TypeOK'
  BY <1>1, <1>2, <1>3 DEF TypeOK
<1>5. \A b \in Command : cmd'[b].pc # "idle" => cmd[b].pc # "idle"
  BY <1>1, <1>2
<1>6. AloneInv' /\ SavingInv' /\ EditsAreKept'
  BY <1>1, <1>2, <1>5 DEF AloneInv, SavingInv, EditsAreKept
<1>7. \A b \in Command : /\ cmd'[b].new = cmd[b].new /\ cmd'[b].added = cmd[b].added
                         /\ cmd'[b].removed = cmd[b].removed /\ cmd'[b].anew = cmd[b].anew
  BY <1>2
<1>8. DifferInv' /\ UntypedInv'
  BY <1>1, <1>3, <1>5, <1>7 DEF DifferInv, UntypedInv
<1>9. PendingInv'
  BY <1>1, <1>5, <1>7 DEF PendingInv
<1> QED
  BY <1>4, <1>6, <1>8, <1>9

\* A command that is at rest again has nothing to save.
LEMMA AtRestOK ==
  ASSUME TypeOK, NEW c \in Command, cmd' = [cmd EXCEPT ![c] = AtRest]
  PROVE  /\ cmd' \in [Command -> Edit] /\ cmd'[c].pc = "idle"
         /\ \A b \in Command : b # c => cmd'[b] = cmd[b]
<1>1. AtRest \in Edit /\ AtRest.pc = "idle"
  BY DEF AtRest, Edit, Empty, Config
<1> QED
  BY <1>1 DEF TypeOK

\* Where it ends: the file says what the user is told.
LEMMA WriteKeeps ==
  ASSUME ConfigInv, NEW c \in Command, Write(c)
  PROVE  ConfigInv'
<1> USE DEF ConfigInv
<1>1. /\ cmd[c].pc = "writing" /\ cmd' = [cmd EXCEPT ![c] = AtRest]
      /\ file' = cmd[c].new /\ torn' = (torn /\ ~cmd[c].anew)
      /\ told' = IF blind THEN {}
                 ELSE {e \in told : e.id \notin cmd[c].removed} \cup cmd[c].added
      /\ UNCHANGED <<env, blind, doubled>>
  BY DEF Write
<1>2. readable' \in BOOLEAN
  BY DEF Write
<1>3. /\ cmd' \in [Command -> Edit] /\ cmd'[c].pc = "idle"
      /\ \A b \in Command : b # c => cmd'[b] = cmd[b]
  BY <1>1, AtRestOK
<1>4. cmd[c] \in Edit
  BY DEF TypeOK
<1>5. TypeOK'
  BY <1>1, <1>2, <1>3, <1>4 DEF TypeOK, Edit
<1>6. ~blind => \A b \in Command : cmd'[b].pc = "idle"
  BY <1>1, <1>3 DEF AloneInv
<1>7. AloneInv' /\ SavingInv' /\ PendingInv'
  BY <1>1, <1>6 DEF AloneInv, SavingInv, PendingInv
<1>8. DifferInv'
  BY <1>1, <1>3 DEF DifferInv
<1>9. EditsAreKept'
  <2>1. ~blind /\ ~torn' => (torn => cmd[c].anew)
    BY <1>1, <1>4 DEF Edit, TypeOK
  <2>2. ~blind /\ ~torn' => Range(file'.dbs) = told'
    BY <1>1, <2>1 DEF PendingInv
  <2> QED
    BY <1>1, <2>2 DEF EditsAreKept
<1>10. UntypedInv'
  BY <1>1, <1>6 DEF UntypedInv
<1> QED
  BY <1>5, <1>7, <1>8, <1>9, <1>10

\* A command that breaks off leaves the file as it is, truncated or not.
LEMMA BreakOffKeeps ==
  ASSUME ConfigInv, NEW c \in Command, BreakOff(c)
  PROVE  ConfigInv'
<1> USE DEF ConfigInv
<1>1. /\ cmd[c].pc # "idle" /\ cmd' = [cmd EXCEPT ![c] = AtRest]
      /\ torn' = (torn \/ cmd[c].pc = "writing")
      /\ UNCHANGED <<env, readable, file, told, blind, doubled>>
  BY DEF BreakOff
<1>2. /\ cmd' \in [Command -> Edit] /\ cmd'[c].pc = "idle"
      /\ \A b \in Command : b # c => cmd'[b] = cmd[b]
  BY <1>1, AtRestOK
<1>3. TypeOK'
  BY <1>1, <1>2 DEF TypeOK
<1>4. ~blind => \A b \in Command : cmd'[b].pc = "idle" /\ (b # c => cmd[b].pc = "idle")
  BY <1>1, <1>2 DEF AloneInv
<1>5. AloneInv' /\ SavingInv' /\ PendingInv'
  BY <1>1, <1>4 DEF AloneInv, SavingInv, PendingInv
<1>6. DifferInv'
  BY <1>1, <1>2 DEF DifferInv
<1>7. EditsAreKept'
  BY <1>1, <1>4 DEF EditsAreKept
<1>8. UntypedInv'
  <2>1. ~blind /\ cmd[c].pc = "writing" => ~file.typed
    BY DEF SavingInv, Empty
  <2> QED
    BY <1>1, <1>4, <2>1 DEF UntypedInv
<1> QED
  BY <1>3, <1>5, <1>6, <1>7, <1>8

\* The invariant holds from the start and after every step.
THEOREM ConfigInvariant == Spec => []ConfigInv
<1>1. Init => ConfigInv
  <2> SUFFICES ASSUME Init PROVE ConfigInv
    OBVIOUS
  <2>1. AtRest \in Edit /\ AtRest.pc = "idle" /\ Empty \in Config
    BY DEF AtRest, Edit, Empty, Config
  <2>2. AllDiffer(Empty.dbs) /\ Range(Empty.dbs) = {}
    BY DEF Empty, AllDiffer, Range
  <2>3. \A c \in Command : cmd[c] = AtRest
    BY DEF Init
  <2> QED
    BY <2>1, <2>2, <2>3 DEF Init, ConfigInv, TypeOK, AloneInv, SavingInv, DifferInv,
       EditsAreKept, PendingInv, UntypedInv
<1>2. ConfigInv /\ [Next]_vars => ConfigInv'
  <2> SUFFICES ASSUME ConfigInv, [Next]_vars PROVE ConfigInv'
    OBVIOUS
  <2>1. ASSUME NEW c \in Command, MakeEdit(c) \/ Truncate(c) \/ Write(c) \/ BreakOff(c)
        PROVE  ConfigInv'
    BY <2>1, EditKeeps, TruncateKeeps, WriteKeeps, BreakOffKeeps
  <2>2. CASE UNCHANGED vars
    BY <2>2 DEF vars, ConfigInv, TypeOK, AloneInv, SavingInv, DifferInv, EditsAreKept,
       PendingInv, UntypedInv
  <2> QED
    BY <2>1, <2>2 DEF Next
<1> QED
  BY <1>1, <1>2, PTL DEF Spec

\* Every variable keeps its type.
THEOREM TypeInvariant == Spec => []TypeOK
<1>1. ConfigInv => TypeOK
  BY DEF ConfigInv
<1> QED
  BY <1>1, ConfigInvariant, PTL

\* What the user was told is configured is what the file says, unless edits overlap, start
\* from another file, or break off.
THEOREM EditsAreKeptTheorem == Spec => []EditsAreKept
<1>1. ConfigInv => EditsAreKept
  BY DEF ConfigInv
<1> QED
  BY <1>1, ConfigInvariant, PTL

\* No command makes two databases share an ID, but for an answer to `db discover` and what
\* init finds.
THEOREM IDsStayDifferentTheorem == Spec => []IDsStayDifferent
<1>1. ConfigInv => IDsStayDifferent
  BY DEF ConfigInv, DifferInv, IDsStayDifferent
<1> QED
  BY <1>1, ConfigInvariant, PTL

\* A daemon that starts and gets to work schedules every database the user was told of: a
\* save that broke off, or is under way, has left no storage type.
THEOREM NothingDroppedTheorem == Spec => []NothingSilentlyDropped
<1>1. ConfigInv => NothingSilentlyDropped
  <2> SUFFICES ASSUME ConfigInv, ~blind, ~doubled, Accepted,
                      env => ~torn /\ \A c \in Command : cmd[c].pc # "writing"
               PROVE  told \subseteq Scheduled(file.dbs)
    BY DEF NothingSilentlyDropped
  <2>1. ~torn /\ \A c \in Command : cmd[c].pc # "writing"
    <3>1. CASE env
      BY <3>1
    <3>2. CASE ~env
      <4>1. file.typed
        BY <3>2 DEF Accepted, Loaded, ConfigInv, TypeOK, Config
      <4>2. file # Empty
        BY <4>1 DEF Empty
      <4> QED
        BY <3>2, <4>1, <4>2 DEF ConfigInv, UntypedInv, SavingInv
    <3> QED
      BY <3>1, <3>2
  <2>2. Range(file.dbs) = told
    BY <2>1 DEF ConfigInv, EditsAreKept
  <2>3. file.dbs \in Seq(Entry) /\ AllDiffer(file.dbs)
    BY DEF ConfigInv, TypeOK, Config, DifferInv
  <2> QED
    BY <2>2, <2>3, AllScheduled
<1> QED
  BY <1>1, ConfigInvariant, PTL
=============================================================================
