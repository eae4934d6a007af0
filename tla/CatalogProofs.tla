---------------------------- MODULE CatalogProofs ----------------------------
(***************************************************************************)
(* Proofs about Catalog: keys are in a total order, so a listing that is   *)
(* not empty has a first key; a longer page starts like a shorter one; and *)
(* what is downloaded under an ID has the name of that ID's database.      *)
(***************************************************************************)
EXTENDS Catalog, FiniteSetTheorems, Prefixes

\* A key is made of three numbers.
LEMMA KeyNumbers ==
  ASSUME NEW k \in Object
  PROVE  DayOf(k) \in Nat /\ k.name \in Nat /\ k.sec \in Nat
<1>1. k.name \in Nat /\ k.sec \in Nat
  BY ConstantsOK DEF Object, DbName
<1>2. k.sec \div Day \in Nat
  BY <1>1, ConstantsOK
<1> QED
  BY <1>1, <1>2 DEF DayOf

\* Of two different keys one sorts before the other, and not both.
LEMMA Total ==
  ASSUME NEW k \in Object, NEW l \in Object
  PROVE  /\ SameKey(k, l) \/ Before(k, l) \/ Before(l, k)
         /\ ~(Before(k, l) /\ Before(l, k))
  BY KeyNumbers DEF Before, SameKey

\* The order of keys is transitive.
LEMMA Transitive ==
  ASSUME NEW k \in Object, NEW l \in Object, NEW j \in Object, Before(j, k), Before(k, l)
  PROVE  Before(j, l)
  BY KeyNumbers DEF Before

\* One object for each key.
OnePerKey(S) == \A k, l \in S : SameKey(k, l) => k = l

\* A set of objects has a first one: that of the first day, of the first name, of the
\* first second.
LEMMA FirstExists ==
  ASSUME NEW S \in SUBSET Object, S # {}, OnePerKey(S)
  PROVE  \E k \in S : \A l \in S : l = k \/ Before(k, l)
<1> DEFINE Days == {DayOf(k) : k \in S}
<1>1. PICK day \in Days : \A d \in Days : day <= d
  <2>1. Days \in SUBSET Nat /\ Days # {}
    BY KeyNumbers
  <2> HIDE DEF Days
  <2> QED
    BY <2>1, Smallest
<1> DEFINE Names == {k.name : k \in {k \in S : DayOf(k) = day}}
<1>2. PICK name \in Names : \A n \in Names : name <= n
  <2>1. Names \in SUBSET Nat /\ Names # {}
    BY KeyNumbers
  <2> HIDE DEF Names
  <2> QED
    BY <2>1, Smallest
<1> DEFINE Secs == {k.sec : k \in {k \in S : DayOf(k) = day /\ k.name = name}}
<1>3. PICK sec \in Secs : \A s \in Secs : sec <= s
  <2>1. Secs \in SUBSET Nat /\ Secs # {}
    BY KeyNumbers
  <2> HIDE DEF Secs
  <2> QED
    BY <2>1, Smallest
<1>4. PICK k \in S : DayOf(k) = day /\ k.name = name /\ k.sec = sec
  OBVIOUS
<1>5. ASSUME NEW l \in S PROVE l = k \/ Before(k, l)
  <2>1. k \in Object /\ l \in Object
    OBVIOUS
  <2>2. ~Before(l, k)
    <3>1. day <= DayOf(l)
      BY <1>1
    <3>2. DayOf(l) = day => name <= l.name
      BY <1>2
    <3>3. DayOf(l) = day /\ l.name = name => sec <= l.sec
      BY <1>3
    <3> QED
      BY <3>1, <3>2, <3>3, <1>4, <2>1, KeyNumbers DEF Before
  <2> QED
    BY <2>1, <2>2, Total DEF OnePerKey
<1> QED
  BY <1>4, <1>5

\* The first of a listing, if there is one, is in it and before the others.
LEMMA LatestIsFirst ==
  ASSUME bucket \in SUBSET Object, OnePerKey(bucket), NEW name, NEW limit
  PROVE  LET backups == ListBackups(name, limit) IN
         /\ backups = {} => Latest(name, limit) = None
         /\ backups # {} =>
              /\ Latest(name, limit) \in backups
              /\ \A l \in backups : l = Latest(name, limit) \/ Before(Latest(name, limit), l)
<1> DEFINE backups == ListBackups(name, limit)
<1>1. backups \in SUBSET bucket /\ OnePerKey(backups)
  BY DEF ListBackups, Page, OnePerKey
<1>2. Latest(name, limit) = IF backups = {} THEN None
                            ELSE CHOOSE k \in backups : \A l \in backups : l = k \/ Before(k, l)
  BY DEF Latest
<1> HIDE DEF backups
<1>3. backups # {} => \E k \in backups : \A l \in backups : l = k \/ Before(k, l)
  BY <1>1, FirstExists
<1> SUFFICES /\ backups = {} => Latest(name, limit) = None
             /\ backups # {} =>
                  /\ Latest(name, limit) \in backups
                  /\ \A l \in backups :
                       l = Latest(name, limit) \/ Before(Latest(name, limit), l)
  BY DEF backups
<1> QED
  BY <1>2, <1>3

-----------------------------------------------------------------------------
\* What the user chose by ID, and what was downloaded for it, has the name of that
\* database; and an object has the name of its own.
NamesInv ==
  /\ \A k \in bucket : k.name = NameOf[k.of]
  /\ \A c \in Command :
       /\ cmd[c].pc \in {"chosen", "done"} => cmd[c].choice # None
       /\ cmd[c].pc \in {"chosen", "done"} /\ cmd[c].by = "id" =>
            /\ cmd[c].choice.name = NameOf[cmd[c].db]
            /\ cmd[c].choice.name = NameOf[cmd[c].choice.of]

CatalogInv == TypeOK /\ NamesInv /\ IsFiniteSet(bucket)

\* What is chosen has its type, and if it was chosen by ID the name of that database.
LEMMA ChooseKeeps ==
  ASSUME CatalogInv, NEW c \in Command, NEW by \in {"id", "latest"},
         NEW choice \in bucket \cup {None}, Choose(c, by, choice),
         by = "id" => choice \in bucket /\ choice.of = cmd[c].db
  PROVE  CatalogInv'
<1> USE DEF CatalogInv, TypeOK
<1>1. cmd[c] \in Look /\ choice \in Object \cup {None}
  OBVIOUS
<1> DEFINE pc == IF choice = None THEN "none" ELSE "chosen"
<1>2. [cmd[c] EXCEPT !.pc = pc, !.by = by, !.choice = choice] \in Look
  BY <1>1 DEF Look
<1>3. cmd' = [cmd EXCEPT ![c] = [cmd[c] EXCEPT !.pc = pc, !.by = by, !.choice = choice]]
  BY DEF Choose
<1>4. /\ cmd'[c].pc = pc /\ cmd'[c].by = by /\ cmd'[c].choice = choice /\ cmd'[c].db = cmd[c].db
  BY <1>1, <1>3 DEF Look
<1>5. cmd' \in [Command -> Look] /\ bucket' = bucket
  BY <1>2, <1>3 DEF Choose
<1>6. by = "id" => choice.name = NameOf[cmd[c].db] /\ choice.name = NameOf[choice.of]
  BY DEF NamesInv
<1>7. NamesInv'
  <2>1. \A b \in Command : b # c => cmd'[b] = cmd[b]
    BY <1>3
  <2> QED
    BY <1>4, <1>5, <1>6, <2>1 DEF NamesInv
<1> QED
  BY <1>5, <1>7

\* The bucket's own steps keep its types, its names and one object under a key.
LEMMA BucketKeeps ==
  ASSUME CatalogInv,
         \/ \E d \in DB, sec \in 0 .. MaxSecond : Upload(d, sec)
         \/ \E k \in bucket : Expire(k)
  PROVE  CatalogInv'
<1> USE DEF CatalogInv, TypeOK
<1>1. ASSUME NEW d \in DB, NEW sec \in 0 .. MaxSecond, Upload(d, sec)
      PROVE  CatalogInv'
  <2> DEFINE new == [name |-> NameOf[d], sec |-> sec, of |-> d]
             rest == {k \in bucket : ~SameKey(k, new)}
  <2>1. new \in Object /\ new.name = NameOf[new.of]
    BY DEF Object, DbName
  <2>2. bucket' = rest \cup {new} /\ cmd' = cmd
    BY <1>1 DEF Upload
  <2>3. \A k \in rest : ~SameKey(k, new) /\ ~SameKey(new, k)
    BY DEF SameKey
  <2>4. IsFiniteSet(rest)
    BY FS_Subset
  <2>5. rest \subseteq bucket
    OBVIOUS
  <2> HIDE DEF new, rest
  <2>6. IsFiniteSet(bucket')
    BY <2>2, <2>4, FS_AddElement
  <2>7. NamesInv'
    BY <2>1, <2>2, <2>5 DEF NamesInv
  <2>8. TypeOK'
    BY <2>1, <2>2, <2>3, <2>5
  <2> QED
    BY <2>6, <2>7, <2>8
<1>2. ASSUME NEW k \in bucket, Expire(k)
      PROVE  CatalogInv'
  <2>1. bucket' = bucket \ {k} /\ cmd' = cmd
    BY <1>2 DEF Expire
  <2>2. IsFiniteSet(bucket')
    BY <2>1, FS_Subset
  <2> QED
    BY <2>1, <2>2 DEF NamesInv
<1> QED
  BY <1>1, <1>2

\* What is downloaded has the key, hence the name, of what was chosen.
LEMMA CommandKeeps ==
  ASSUME CatalogInv, NEW c \in Command,
         \/ RestoreLatest(c) \/ VerifyLatest(c) \/ \E k \in bucket : ChooseByID(c, k)
         \/ Download(c) \/ DownloadFails(c)
  PROVE  CatalogInv'
<1> USE DEF CatalogInv
<1>a. bucket \in SUBSET Object /\ OnePerKey(bucket)
  BY DEF TypeOK, OnePerKey
<1>b. cmd \in [Command -> Look] /\ cmd[c] \in Look
  BY DEF TypeOK
<1>1. ASSUME NEW limit, Choose(c, "latest", Latest(NameOf[cmd[c].db], limit))
      PROVE  CatalogInv'
  <2>1. ListBackups(NameOf[cmd[c].db], limit) \subseteq bucket
    BY DEF ListBackups, Page
  <2>2. Latest(NameOf[cmd[c].db], limit) \in bucket \cup {None}
    BY <1>a, <2>1, LatestIsFirst
  <2> QED
    BY <1>1, <2>2, ChooseKeeps
<1>2. ASSUME NEW k \in bucket, ChooseByID(c, k)
      PROVE  CatalogInv'
  BY <1>2, ChooseKeeps DEF ChooseByID
<1>3. CASE Download(c)
  <2>1. PICK k \in bucket : /\ SameKey(k, cmd[c].choice)
                            /\ cmd' = [cmd EXCEPT ![c] = [cmd[c] EXCEPT !.pc = "done", !.choice = k]]
    BY <1>3 DEF Download
  <2>2. [cmd[c] EXCEPT !.pc = "done", !.choice = k] \in Look
    BY <1>a, <1>b DEF Look
  <2>3. cmd' \in [Command -> Look] /\ bucket' = bucket
    BY <1>3, <1>b, <2>1, <2>2 DEF Download
  <2>4. /\ cmd'[c].choice = k /\ cmd'[c].by = cmd[c].by /\ cmd'[c].db = cmd[c].db
    BY <1>b, <2>1 DEF Look
  <2>5. k # None /\ k.name = cmd[c].choice.name /\ k.name = NameOf[k.of]
    BY <1>a, <2>1, NoneOK DEF SameKey, NamesInv
  <2>6. cmd[c].pc = "chosen"
    BY <1>3 DEF Download
  <2>7. \A b \in Command : b # c => cmd'[b] = cmd[b]
    BY <1>b, <2>1
  <2>8. NamesInv'
    <3>1. cmd[c].by = "id" => cmd[c].choice.name = NameOf[cmd[c].db]
      BY <2>6 DEF NamesInv
    <3> QED
      BY <2>3, <2>4, <2>5, <2>7, <3>1 DEF NamesInv
  <2> QED
    BY <2>3, <2>8, <1>a DEF TypeOK
<1>4. CASE DownloadFails(c)
  <2>1. cmd' = [cmd EXCEPT ![c] = [cmd[c] EXCEPT !.pc = "failed"]] /\ bucket' = bucket
    BY <1>4 DEF DownloadFails
  <2>2. [cmd[c] EXCEPT !.pc = "failed"] \in Look
    BY <1>b DEF Look
  <2>3. cmd'[c].pc = "failed"
    BY <1>b, <2>1 DEF Look
  <2>4. \A b \in Command : b # c => cmd'[b] = cmd[b]
    BY <1>b, <2>1
  <2> QED
    BY <1>b, <2>1, <2>2, <2>3, <2>4 DEF TypeOK, NamesInv
<1> QED
  BY <1>1, <1>2, <1>3, <1>4 DEF RestoreLatest, VerifyLatest

\* The inductive invariant: types, names, and a finite bucket.
THEOREM CatalogInvariant == Spec => []CatalogInv
<1>1. Init => CatalogInv
  BY FS_EmptySet DEF Init, CatalogInv, TypeOK, NamesInv, Look
<1>2. CatalogInv /\ [Next]_vars => CatalogInv'
  <2> SUFFICES ASSUME CatalogInv, [Next]_vars PROVE CatalogInv'
    OBVIOUS
  <2>1. CASE UNCHANGED vars
    BY <2>1 DEF vars, CatalogInv, TypeOK, NamesInv
  <2> QED
    BY <2>1, BucketKeeps, CommandKeeps DEF Next
<1> QED
  BY <1>1, <1>2, PTL DEF Spec

-----------------------------------------------------------------------------
\* Catalog keeps its types; the bucket holds one object under a key.
THEOREM TypeInvariant == Spec => []TypeOK
  BY CatalogInvariant, PTL DEF CatalogInv

\* A backup named by its ID is that database's, or that of one with its name.
THEOREM IDTheorem == Spec => []IDStaysTheDatabases
<1>1. CatalogInv => IDStaysTheDatabases
  <2> SUFFICES ASSUME CatalogInv, NEW c \in Command, cmd[c].pc = "done", cmd[c].by = "id",
                      cmd[c].choice.of # cmd[c].db
      PROVE  \E d \in DB \ {cmd[c].db} : NameOf[d] = NameOf[cmd[c].db]
    BY DEF IDStaysTheDatabases
  <2>1. cmd[c].choice \in Object
    BY DEF CatalogInv, TypeOK, NamesInv, Look
  <2>2. cmd[c].choice.of \in DB
    BY <2>1 DEF Object
  <2>3. NameOf[cmd[c].choice.of] = NameOf[cmd[c].db]
    BY DEF CatalogInv, NamesInv
  <2> QED
    BY <2>2, <2>3
<1> QED
  BY <1>1, CatalogInvariant, PTL

\* What sorts before an object of a page is on the page, and a longer page holds a
\* shorter one.
LEMMA PagesStartAlike ==
  ASSUME CatalogInv, NEW k \in Page(VerifyLimit)
  PROVE  /\ k \in Page(RestoreLimit)
         /\ \A l \in bucket : Before(l, k) => l \in Page(VerifyLimit)
<1> DEFINE Sooner(l) == {j \in bucket : Before(j, l)}
<1>a. bucket \subseteq Object /\ k \in bucket /\ Cardinality(Sooner(k)) < VerifyLimit
  BY DEF CatalogInv, TypeOK, Page
<1>b. ASSUME NEW l \in bucket PROVE IsFiniteSet(Sooner(l)) /\ Cardinality(Sooner(l)) \in Nat
  BY FS_Subset, FS_CardinalityType DEF CatalogInv
<1>c. VerifyLimit \in Nat /\ RestoreLimit \in Nat /\ VerifyLimit <= RestoreLimit
  BY ConstantsOK
<1>1. k \in Page(RestoreLimit)
  <2>0. Cardinality(Sooner(k)) \in Nat
    BY <1>a, <1>b
  <2>1. Cardinality(Sooner(k)) < RestoreLimit
    <3> HIDE DEF Sooner
    <3> QED
      BY <1>a, <1>c, <2>0
  <2> QED
    BY <1>a, <2>1 DEF Page
<1>2. ASSUME NEW l \in bucket, Before(l, k) PROVE l \in Page(VerifyLimit)
  <2>1. Sooner(l) \subseteq Sooner(k)
    BY <1>a, <1>2, Transitive
  <2>2. Cardinality(Sooner(l)) <= Cardinality(Sooner(k))
    BY <1>a, <1>b, <2>1, FS_Subset
  <2>0. Cardinality(Sooner(l)) \in Nat /\ Cardinality(Sooner(k)) \in Nat
    BY <1>a, <1>b
  <2>3. Cardinality(Sooner(l)) < VerifyLimit
    <3> HIDE DEF Sooner
    <3> QED
      BY <1>a, <1>c, <2>0, <2>2
  <2> QED
    BY <2>3 DEF Page
<1> QED
  BY <1>1, <1>2

\* The listing of `verify --latest` starts like that of `restore`, whenever it finds
\* anything.
THEOREM AgreesTheorem == Spec => []VerifyAgreesWithRestore
<1>1. CatalogInv => VerifyAgreesWithRestore
  <2> SUFFICES ASSUME CatalogInv, NEW d \in DB, Latest(NameOf[d], VerifyLimit) # None
      PROVE  Latest(NameOf[d], VerifyLimit) = Latest(NameOf[d], RestoreLimit)
    BY DEF VerifyAgreesWithRestore
  <2> DEFINE short == ListBackups(NameOf[d], VerifyLimit)
             long == ListBackups(NameOf[d], RestoreLimit)
             v == Latest(NameOf[d], VerifyLimit)
             w == Latest(NameOf[d], RestoreLimit)
  <2>a. bucket \in SUBSET Object /\ OnePerKey(bucket)
    BY DEF CatalogInv, TypeOK, OnePerKey
  <2>1. v \in short /\ \A l \in short : l = v \/ Before(v, l)
    BY <2>a, LatestIsFirst
  <2>2. v \in long
    BY <2>1, PagesStartAlike DEF ListBackups
  <2>3. w \in long /\ \A l \in long : l = w \/ Before(w, l)
    BY <2>a, <2>2, LatestIsFirst
  <2>4. v \in Object /\ w \in Object /\ w \in bucket
    BY <2>a, <2>1, <2>3 DEF ListBackups, Page
  <2>5. CASE w # v
    <3>1. Before(w, v)
      BY <2>2, <2>3, <2>5
    <3>2. w \in Page(VerifyLimit)
      BY <2>1, <2>4, <3>1, PagesStartAlike DEF ListBackups
    <3>3. w \in short
      BY <2>3, <3>2 DEF ListBackups
    <3>4. Before(v, w)
      BY <2>1, <2>5, <3>3
    <3> QED
      BY <2>4, <3>1, <3>4, Total
  <2> QED
    BY <2>5
<1> QED
  BY <1>1, CatalogInvariant, PTL

=============================================================================
