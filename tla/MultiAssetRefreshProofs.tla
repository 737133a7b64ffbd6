----------------------- MODULE MultiAssetRefreshProofs -----------------------
(***************************************************************************)
(* Theorems about MultiAssetRefresh for any number of requests, any files, *)
(* any earlier imports and any widths.                                     *)
(***************************************************************************)
EXTENDS MultiAssetRefresh, SequenceTheorems, Induction

(***************************************************************************)
(* The imports of a request: one dataset, or what is left of all four.     *)
(***************************************************************************)
Plans ==
    {<<d>> : d \in Datasets} \cup
    {Jobs, <<"market_instruments", "inflation", "bank_products">>,
     <<"inflation", "bank_products">>}

LEMMA DatasetsAre ==
    Datasets = {"market_indices", "market_instruments", "inflation", "bank_products"}
<1>1. DOMAIN Jobs = 1..4
  BY DEF Jobs
<1>2. Datasets = {Jobs[1], Jobs[2], Jobs[3], Jobs[4]}
  BY <1>1 DEF Datasets
<1> QED
  BY <1>2 DEF Jobs

\* The import that may fail halfway, bank products, has none after it, and no
\* import comes twice.
PlanOK(p) ==
    /\ p # <<>> /\ Head(p) \in Datasets /\ Len(p) \in Nat /\ Len(p) >= 1
    /\ DOMAIN p = 1..Len(p) /\ Head(p) = p[1]
    /\ Len(p) > 1 =>
          /\ Tail(p) \in Plans /\ Head(p) # "bank_products"
          /\ \A n \in DOMAIN Tail(p) :
                /\ Tail(p)[n] # Head(p)
                /\ \E m \in DOMAIN p : p[m] = Tail(p)[n]

LEMMA PlanFacts ==
    ASSUME NEW p \in Plans
    PROVE  PlanOK(p)
<1>1. CASE p = Jobs
  <2>1. p = <<"market_indices", "market_instruments", "inflation", "bank_products">>
    BY <1>1 DEF Jobs
  <2>2. Tail(p) = <<"market_instruments", "inflation", "bank_products">>
    BY <2>1
  <2> QED
    BY <2>1, <2>2, DatasetsAre DEF Plans, PlanOK
<1>2. CASE p = <<"market_instruments", "inflation", "bank_products">>
  <2>1. Tail(p) = <<"inflation", "bank_products">>
    BY <1>2
  <2> QED
    BY <1>2, <2>1, DatasetsAre DEF Plans, PlanOK
<1>3. CASE p = <<"inflation", "bank_products">>
  <2>1. Tail(p) = <<"bank_products">>
    BY <1>3
  <2> QED
    BY <1>3, <2>1, DatasetsAre DEF Plans, PlanOK
<1>4. ASSUME NEW d \in Datasets, p = <<d>>
      PROVE  PlanOK(p)
  BY <1>4 DEF PlanOK
<1> QED
  BY <1>1, <1>2, <1>3, <1>4 DEF Plans

(***************************************************************************)
(* Keys.                                                                   *)
(***************************************************************************)
KeyKinds == {"source", "entity", "row"}
IsKey(k) == k[1] \in KeyKinds /\ k[2] \in Datasets

LEMMA KeyFacts ==
    ASSUME NEW d \in Datasets, NEW r, NEW m
    PROVE  /\ SourceKey(d)[1] = "source" /\ SourceKey(d)[2] = d
           /\ EntityKey(d, r, m)[1] = "entity" /\ EntityKey(d, r, m)[2] = d
           /\ RowKey(d, r, m)[1] = "row" /\ RowKey(d, r, m)[2] = d
           /\ IsKey(SourceKey(d)) /\ IsKey(EntityKey(d, r, m)) /\ IsKey(RowKey(d, r, m))
BY DEF SourceKey, EntityKey, RowKey, IsKey, KeyKinds

LEMMA SameRowKey ==
    ASSUME NEW d, NEW r, NEW s, NEW m, NEW n, RowKey(d, r, m) = RowKey(d, s, n)
    PROVE  <<r.entity, r.day>> = <<s.entity, s.day>>
<1>1. RowKey(d, r, m)[3] = RowKey(d, s, n)[3] /\ RowKey(d, r, m)[4] = RowKey(d, s, n)[4]
  OBVIOUS
<1>2. r.entity = s.entity /\ r.day = s.day
  BY <1>1 DEF RowKey
<1> QED
  BY <1>2

LEMMA KeysOfAre ==
    ASSUME NEW d \in Datasets, NEW rows, NEW m, NEW k
    PROVE  /\ k \in KeysOf(d, rows, m) <=>
                 \E n \in DOMAIN rows :
                    k \in {SourceKey(d), EntityKey(d, rows[n], m), RowKey(d, rows[n], m)}
           /\ k \in KeysOf(d, rows, m) => IsKey(k) /\ k[2] = d
BY KeyFacts DEF KeysOf

\* The maker of an entity is one its dataset tells apart.
LEMMA MakerFacts ==
    ASSUME NEW d
    PROVE  /\ Maker("earlier", d) \in Makers(d)
           /\ \A c \in Callers : Maker(c, d) \in Makers(d)
BY DEF Maker, Makers

\* The key of an entity says which dataset, name and maker it has.
Shaped(k) == k[1] = "entity" => k = <<"entity", k[2], k[3], k[4]>> /\ k[4] \in Makers(k[2])

LEMMA KeysShaped ==
    ASSUME NEW d \in Datasets, NEW rows, NEW m \in Makers(d), NEW k \in KeysOf(d, rows, m)
    PROVE  /\ Shaped(k)
           /\ k[1] = "entity" => k[4] = m
<1>1. PICK n \in DOMAIN rows :
          k \in {SourceKey(d), EntityKey(d, rows[n], m), RowKey(d, rows[n], m)}
  BY KeysOfAre
<1>2. CASE k = EntityKey(d, rows[n], m)
  BY <1>2 DEF EntityKey, Shaped
<1>3. CASE k \in {SourceKey(d), RowKey(d, rows[n], m)}
  BY <1>3, KeyFacts DEF Shaped
<1> QED
  BY <1>1, <1>2, <1>3

(***************************************************************************)
(* Files and their rows.                                                   *)
(***************************************************************************)
AllRows == UNION {{f.rows[n] : n \in DOMAIN f.rows} : f \in UNION {Files[d] : d \in Datasets}}

LEMMA FileFacts ==
    ASSUME NEW d \in Datasets, NEW f \in Files[d]
    PROVE  /\ f.rows \in Seq(AllRows)
           /\ \A n \in DOMAIN f.rows : f.rows[n] \in AllRows
           /\ Read(d, f) \in {"ok", "missing", "value", "broken"}
           /\ d # "bank_products" => \A n \in DOMAIN f.rows : f.rows[n].defect # "valid_until"
<1>1. IsFile(f) /\ (d # "bank_products" => \A n \in DOMAIN f.rows : f.rows[n].defect # "valid_until")
  BY ImportAssumption
<1>2. {f.rows[n] : n \in DOMAIN f.rows} \subseteq AllRows
  BY DEF AllRows
<1>3. f.rows \in Seq({f.rows[n] : n \in DOMAIN f.rows})
  BY <1>1 DEF IsFile, IsSequence
<1>4. f.rows \in Seq(AllRows)
  BY <1>2, <1>3
<1>5. Read(d, f) \in {"ok", "missing", "value", "broken"}
  BY <1>1 DEF IsFile, Read
<1> QED
  BY <1>1, <1>2, <1>4, <1>5

LEMMA NothingLeft ==
    /\ Read("inflation", NoFile) = "missing"
    /\ NoFile.rows = <<>>
BY DEF Read, NoFile

(***************************************************************************)
(* Sessions.                                                               *)
(***************************************************************************)
\* Every key an import can add.
AllKeys ==
    UNION {UNION {UNION {KeysOf(d, f.rows, m) : m \in Makers(d)} : f \in Files[d]} : d \in Datasets}

LEMMA AllKeysFacts ==
    /\ \A k \in AllKeys : IsKey(k) /\ Shaped(k)
    /\ \A d \in Datasets : \A f \in Files[d] : \A m \in Makers(d) :
          KeysOf(d, f.rows, m) \subseteq AllKeys
BY KeysOfAre, KeysShaped DEF AllKeys

(***************************************************************************)
(* Sessions.                                                               *)
(***************************************************************************)
Sessions ==
    [jobs : Plans \cup {<<>>}, todo : Seq(AllRows), maker : Callers \cup {"earlier", "one"},
     sent : SUBSET AllKeys,
     added : SUBSET AllKeys, twice : BOOLEAN, loaded : [Datasets -> Int],
     locks : SUBSET Datasets, then : {"open", "entity", "row"}]

\* Nothing has been read or stored in the session.
Fresh(s) ==
    /\ s.todo = <<>> /\ s.sent = {} /\ s.added = {} /\ s.twice = FALSE
    /\ \A d \in Datasets : s.loaded[d] = -1
    /\ s.locks = {}

LEMMA NewSessionFacts ==
    ASSUME NEW p \in Plans \cup {<<>>}
    PROVE  /\ NewSession(p) \in Sessions
           /\ NewSession(p).jobs = p /\ Fresh(NewSession(p))
<1>1. <<>> \in Seq(AllRows)
  OBVIOUS
<1> QED
  BY <1>1 DEF NewSession, Sessions, Fresh

\* One field of a session that keeps its type.
LEMMA SessionFields ==
    ASSUME NEW s \in Sessions
    PROVE  /\ s.jobs \in Plans \cup {<<>>} /\ s.todo \in Seq(AllRows)
           /\ s.sent \subseteq AllKeys /\ s.added \subseteq AllKeys /\ s.twice \in BOOLEAN
           /\ s.loaded \in [Datasets -> Int] /\ s.locks \subseteq Datasets
           /\ s.then \in {"open", "entity", "row"} /\ s.maker \in Callers \cup {"earlier", "one"}
BY DEF Sessions

LEMMA SetJobs ==
    ASSUME NEW s \in Sessions, NEW v \in Plans \cup {<<>>}
    PROVE  LET t == [s EXCEPT !.jobs = v]
           IN  /\ t \in Sessions /\ t.jobs = v
               /\ t.todo = s.todo /\ t.sent = s.sent /\ t.added = s.added /\ t.twice = s.twice
               /\ t.loaded = s.loaded /\ t.locks = s.locks /\ t.then = s.then /\ t.maker = s.maker
BY DEF Sessions

LEMMA SetTodo ==
    ASSUME NEW s \in Sessions, NEW v \in Seq(AllRows)
    PROVE  LET t == [s EXCEPT !.todo = v]
           IN  /\ t \in Sessions /\ t.todo = v
               /\ t.jobs = s.jobs /\ t.sent = s.sent /\ t.added = s.added /\ t.twice = s.twice
               /\ t.loaded = s.loaded /\ t.locks = s.locks /\ t.then = s.then /\ t.maker = s.maker
BY DEF Sessions

LEMMA SetAdded ==
    ASSUME NEW s \in Sessions, NEW v \in SUBSET AllKeys
    PROVE  LET t == [s EXCEPT !.added = v]
           IN  /\ t \in Sessions /\ t.added = v
               /\ t.jobs = s.jobs /\ t.sent = s.sent /\ t.todo = s.todo /\ t.twice = s.twice
               /\ t.loaded = s.loaded /\ t.locks = s.locks /\ t.then = s.then /\ t.maker = s.maker
BY DEF Sessions

LEMMA SetSent ==
    ASSUME NEW s \in Sessions, NEW v \in SUBSET AllKeys
    PROVE  LET t == [s EXCEPT !.sent = v]
           IN  /\ t \in Sessions /\ t.sent = v
               /\ t.jobs = s.jobs /\ t.added = s.added /\ t.todo = s.todo /\ t.twice = s.twice
               /\ t.loaded = s.loaded /\ t.locks = s.locks /\ t.then = s.then /\ t.maker = s.maker
BY DEF Sessions

LEMMA SetTwice ==
    ASSUME NEW s \in Sessions, NEW v \in BOOLEAN
    PROVE  LET t == [s EXCEPT !.twice = v]
           IN  /\ t \in Sessions /\ t.twice = v
               /\ t.jobs = s.jobs /\ t.sent = s.sent /\ t.todo = s.todo /\ t.added = s.added
               /\ t.loaded = s.loaded /\ t.locks = s.locks /\ t.then = s.then /\ t.maker = s.maker
BY DEF Sessions

LEMMA SetLocks ==
    ASSUME NEW s \in Sessions, NEW v \in SUBSET Datasets
    PROVE  LET t == [s EXCEPT !.locks = v]
           IN  /\ t \in Sessions /\ t.locks = v
               /\ t.jobs = s.jobs /\ t.sent = s.sent /\ t.todo = s.todo /\ t.added = s.added
               /\ t.loaded = s.loaded /\ t.twice = s.twice /\ t.then = s.then /\ t.maker = s.maker
BY DEF Sessions

LEMMA SetThen ==
    ASSUME NEW s \in Sessions, NEW v \in {"open", "entity", "row"}
    PROVE  LET t == [s EXCEPT !.then = v]
           IN  /\ t \in Sessions /\ t.then = v
               /\ t.jobs = s.jobs /\ t.sent = s.sent /\ t.todo = s.todo /\ t.added = s.added
               /\ t.loaded = s.loaded /\ t.twice = s.twice /\ t.locks = s.locks /\ t.maker = s.maker
BY DEF Sessions

LEMMA SetMaker ==
    ASSUME NEW s \in Sessions, NEW v \in Callers \cup {"earlier", "one"}
    PROVE  LET t == [s EXCEPT !.maker = v]
           IN  /\ t \in Sessions /\ t.maker = v
               /\ t.jobs = s.jobs /\ t.sent = s.sent /\ t.todo = s.todo /\ t.added = s.added
               /\ t.loaded = s.loaded /\ t.twice = s.twice /\ t.locks = s.locks /\ t.then = s.then
BY DEF Sessions

LEMMA SetLoaded ==
    ASSUME NEW s \in Sessions, NEW d \in Datasets, NEW v \in Int
    PROVE  LET t == [s EXCEPT !.loaded[d] = v]
           IN  /\ t \in Sessions /\ t.loaded[d] = v
               /\ \A x \in Datasets \ {d} : t.loaded[x] = s.loaded[x]
               /\ t.jobs = s.jobs /\ t.sent = s.sent /\ t.todo = s.todo /\ t.added = s.added
               /\ t.twice = s.twice /\ t.locks = s.locks /\ t.then = s.then /\ t.maker = s.maker
BY DEF Sessions

(***************************************************************************)
(* The type invariant, with the sessions and the files read.               *)
(***************************************************************************)
FilesRead == [Callers -> [Datasets -> {NoFile} \cup UNION {Files[d] : d \in Datasets}]]
TypeInv ==
    /\ TypeOK
    /\ session \in [Callers -> Sessions]
    /\ read \in FilesRead
    /\ \A c \in Callers, d \in Datasets : read[c][d] \in Files[d] \cup {NoFile}

Busy == {"source", "entity", "row", "flush", "commit"}

\* How many of the rows r have gone when t is left of them.
Gone(r, t) == Len(r) - Len(t)

LEMMA GoneFacts ==
    ASSUME NEW S, NEW r \in Seq(S), NEW t \in Seq(S), Len(t) <= Len(r)
    PROVE  /\ Gone(r, t) \in Nat /\ Gone(r, t) <= Len(r)
           /\ Len(r) \in Nat /\ Len(t) \in Nat
           /\ DOMAIN r = 1..Len(r) /\ DOMAIN t = 1..Len(t)
           /\ Gone(r, t) = Len(r) <=> t = <<>>
           /\ t # <<>> => Gone(r, t) + 1 \in 1..Len(r) /\ 1 \in 1..Len(t) /\ Head(t) = t[1]
<1>1. Len(r) \in Nat /\ Len(t) \in Nat
  OBVIOUS
<1>2. Gone(r, t) \in Nat /\ Gone(r, t) <= Len(r) /\ (Gone(r, t) = Len(r) <=> Len(t) = 0)
  BY <1>1 DEF Gone
<1>3. Len(t) # 0 => Gone(r, t) + 1 \in 1..Len(r) /\ 1 \in 1..Len(t)
  BY <1>1 DEF Gone
<1>4. DOMAIN r = 1..Len(r) /\ DOMAIN t = 1..Len(t) /\ (t = <<>> <=> Len(t) = 0)
  OBVIOUS
<1>5. t # <<>> => Head(t) = t[1]
  OBVIOUS
<1> QED
  BY <1>1, <1>2, <1>3, <1>4, <1>5

LEMMA GoneNext ==
    ASSUME NEW S, NEW r \in Seq(S), NEW t \in Seq(S), Len(t) <= Len(r), t # <<>>
    PROVE  /\ Tail(t) \in Seq(S) /\ Len(Tail(t)) <= Len(r)
           /\ Gone(r, Tail(t)) = Gone(r, t) + 1
           /\ Tail(t) = <<>> <=> Len(t) = 1
           /\ \A n \in 1..Len(Tail(t)) :
                 /\ Tail(t)[n] = t[n + 1] /\ n + 1 \in 1..Len(t)
                 /\ Gone(r, t) + (n + 1) = Gone(r, Tail(t)) + n
<1>1. /\ Len(Tail(t)) = Len(t) - 1 /\ Tail(t) \in Seq(S)
      /\ \A i \in 1..Len(Tail(t)) : Tail(t)[i] = t[i + 1]
  BY HeadTailProperties
<1>2. Len(r) \in Nat /\ Len(t) \in Nat
  OBVIOUS
<1>3. Tail(t) = <<>> <=> Len(Tail(t)) = 0
  BY <1>1, EmptySeq
<1>4. Gone(r, Tail(t)) = Gone(r, t) + 1 /\ Gone(r, t) \in Int /\ Len(Tail(t)) <= Len(r)
  <2>1. Len(Tail(t)) = Len(t) - 1
    BY <1>1
  <2> QED
    BY <2>1, <1>2 DEF Gone
<1>5. ASSUME NEW n \in 1..Len(Tail(t))
      PROVE  n + 1 \in 1..Len(t) /\ Gone(r, t) + (n + 1) = Gone(r, Tail(t)) + n
  <2>1. Len(Tail(t)) = Len(t) - 1
    BY <1>1
  <2>2. n \in Nat /\ n >= 1 /\ n <= Len(t) - 1
    BY <2>1, <1>2
  <2>3. n + 1 \in 1..Len(t)
    BY <2>2, <1>2
  <2> QED
    BY <2>2, <2>3, <1>4
<1>6. Tail(t) = <<>> <=> Len(t) = 1
  BY <1>1, <1>2, <1>3
<1> QED
  BY <1>1, <1>4, <1>5, <1>6

(***************************************************************************)
(* A session at work on the file f of the dataset d, at p, while K is what *)
(* is committed: how far it is, which keys its records have by now, and    *)
(* what it may have added.  These are facts about values, so that a step   *)
(* of a request is a lemma about two sessions.                             *)
(***************************************************************************)
Stage(s, f) == Gone(f.rows, s.todo)
Have(s, K) == K \cup s.sent \cup s.added

Place(p, s, f) ==
    /\ Len(s.todo) <= Len(f.rows)
    /\ \A n \in 1..Len(s.todo) : s.todo[n] = f.rows[Stage(s, f) + n]
    /\ p = "commit" <=> s.todo = <<>>
    /\ p = "flush" => s.then \in {"entity", "row"}

Both(d, r, m, S) == EntityKey(d, r, m) \in S /\ RowKey(d, r, m) \in S
Kept(p, s, d, f, K) ==
    /\ \A n \in 1..Stage(s, f) :
          /\ SourceKey(d) \in Have(s, K)
          /\ \E m \in Makers(d) : Both(d, f.rows[n], m, Have(s, K))
    /\ s.loaded[d] >= 0 => SourceKey(d) \in Have(s, K)
    /\ p \in {"entity", "row", "flush"} \/ Stage(s, f) > 0 => s.loaded[d] >= 0
    /\ p = "row" \/ (p = "flush" /\ s.then = "row") =>
          s.maker \in Makers(d) /\ EntityKey(d, s.todo[1], s.maker) \in Have(s, K)

Own(p, s, d, f) ==
    /\ \A k \in s.sent \cup s.added : k[2] = d
    /\ s.sent \cup s.added # {} => s.loaded[d] >= 0
    /\ \A x \in Datasets : s.loaded[x] >= 0 => x = d
    /\ s.sent # {} => d \in s.locks
    /\ s.sent \cap s.added = {}
    /\ p # "flush" => \A k \in s.added : k[1] # "entity"

Twice(p, s, d, f) ==
    /\ d \in FlushEach => ~s.twice /\ (p = "row" => s.added = {})
    /\ s.twice => RepeatsKey(d, f.rows)
    /\ \A k \in s.added : k[1] = "row" =>
          \E n \in 1..Stage(s, f) : \E m \in Makers(d) : k = RowKey(d, f.rows[n], m)

At(p, s, d, f, K) ==
    /\ f \in Files[d] /\ Read(d, f) = "ok"
    /\ s \in Sessions /\ s.jobs \in Plans /\ Head(s.jobs) = d
    /\ Place(p, s, f) /\ Kept(p, s, d, f, K) /\ Own(p, s, d, f) /\ Twice(p, s, d, f)

LEMMA StageFacts ==
    ASSUME NEW d \in Datasets, NEW f \in Files[d], NEW s \in Sessions, NEW p, Place(p, s, f)
    PROVE  /\ Stage(s, f) \in Nat /\ Stage(s, f) <= Len(f.rows)
           /\ Len(f.rows) \in Nat /\ Len(s.todo) \in Nat
           /\ f.rows \in Seq(AllRows) /\ s.todo \in Seq(AllRows)
           /\ DOMAIN f.rows = 1..Len(f.rows)
           /\ Stage(s, f) = Len(f.rows) <=> s.todo = <<>>
           /\ s.todo # <<>> =>
                 /\ Head(s.todo) = s.todo[1] /\ s.todo[1] = f.rows[Stage(s, f) + 1]
                 /\ Stage(s, f) + 1 \in 1..Len(f.rows)
<1>1. f.rows \in Seq(AllRows) /\ s.todo \in Seq(AllRows) /\ Len(s.todo) <= Len(f.rows)
  BY FileFacts, SessionFields DEF Place
<1> QED
  BY <1>1, GoneFacts DEF Place, Stage

LEMMA AtGrows ==
    ASSUME NEW p, NEW s, NEW d, NEW f, NEW K, NEW L, K \subseteq L, At(p, s, d, f, K)
    PROVE  At(p, s, d, f, L)
<1>1. Have(s, K) \subseteq Have(s, L)
  BY DEF Have
<1>2. Kept(p, s, d, f, L)
  BY <1>1 DEF At, Kept, Both
<1> QED
  BY <1>2 DEF At

LEMMA AtOpen ==
    ASSUME NEW d \in Datasets, NEW f \in Files[d], Read(d, f) = "ok", NEW K,
           NEW s \in Sessions, s.jobs \in Plans, Head(s.jobs) = d, Fresh(s)
    PROVE  At(IF f.rows = <<>> THEN "commit" ELSE "source", [s EXCEPT !.todo = f.rows], d, f, K)
<1> DEFINE t == [s EXCEPT !.todo = f.rows]
           p == IF f.rows = <<>> THEN "commit" ELSE "source"
<1>1. f.rows \in Seq(AllRows)
  BY FileFacts
<1>2. /\ t \in Sessions /\ t.todo = f.rows /\ t.jobs = s.jobs /\ t.sent = {} /\ t.added = {}
      /\ t.twice = FALSE /\ t.loaded = s.loaded
  BY <1>1, SetTodo DEF Fresh
<1>3. \A x \in Datasets : t.loaded[x] = -1
  BY <1>2 DEF Fresh
<1>4. p \in {"source", "commit"} /\ (p = "commit" <=> f.rows = <<>>)
  OBVIOUS
<1> HIDE DEF t, p
<1>5. Stage(t, f) = 0 /\ Len(f.rows) \in Nat
  <2>1. \A r \in Seq(AllRows) : Len(r) \in Nat /\ Gone(r, r) = 0
    BY DEF Gone
  <2> QED
    BY <1>1, <1>2, <2>1 DEF Stage
<1>6. Place(p, t, f)
  BY <1>2, <1>4, <1>5 DEF Place
<1>7. Kept(p, t, d, f, K)
  BY <1>3, <1>4, <1>5 DEF Kept
<1>8. Own(p, t, d, f)
  BY <1>2, <1>3 DEF Own
<1>9. Twice(p, t, d, f)
  BY <1>2, <1>4 DEF Twice
<1>10. At(p, t, d, f, K)
  BY <1>2, <1>6, <1>7, <1>8, <1>9 DEF At
<1> QED
  BY <1>10 DEF t, p

\* A source that is known, or the one that has just been read.
LEMMA AtSourceKnown ==
    ASSUME NEW d \in Datasets, NEW f, NEW K, NEW s, NEW t \in Sessions,
           At("source", s, d, f, K), s.loaded[d] >= 0 \/ SourceKey(d) \in K \cup s.sent,
           t.jobs = s.jobs, t.todo = s.todo, t.sent = s.sent, t.added = s.added,
           t.twice = s.twice, t.locks = s.locks, t.loaded[d] \in Nat,
           \A x \in Datasets \ {d} : t.loaded[x] = s.loaded[x]
    PROVE  At("entity", t, d, f, K)
<1>1. Stage(t, f) = Stage(s, f) /\ Have(t, K) = Have(s, K)
  BY DEF Stage, Have
<1>2. Place("entity", t, f)
  BY <1>1 DEF At, Place
<1>3. Kept("entity", t, d, f, K)
  BY <1>1 DEF At, Kept, Have
<1>4. Own("entity", t, d, f)
  BY DEF At, Own
<1>5. Twice("entity", t, d, f)
  BY <1>1 DEF At, Twice
<1> QED
  BY <1>2, <1>3, <1>4, <1>5 DEF At

LEMMA AtSourceNew ==
    ASSUME NEW d \in Datasets, NEW f, NEW K, NEW s, NEW t \in Sessions,
           At("source", s, d, f, K), ~(s.loaded[d] >= 0), SourceKey(d) \notin K \cup s.sent,
           t.jobs = s.jobs, t.todo = s.todo, t.sent = s.sent,
           t.added = s.added \cup {SourceKey(d)},
           t.twice = s.twice, t.locks = s.locks, t.loaded[d] = 0, t.then = "entity",
           \A x \in Datasets \ {d} : t.loaded[x] = s.loaded[x]
    PROVE  At("flush", t, d, f, K)
<1>1. Stage(t, f) = Stage(s, f) /\ Have(s, K) \subseteq Have(t, K) /\ SourceKey(d) \in Have(t, K)
  BY DEF Stage, Have
<1>2. Place("flush", t, f)
  BY <1>1 DEF At, Place
<1>3. Kept("flush", t, d, f, K)
  BY <1>1 DEF At, Kept, Both
<1>4. SourceKey(d)[2] = d /\ SourceKey(d)[1] # "row"
  BY KeyFacts
<1>5. Own("flush", t, d, f)
  BY <1>4 DEF At, Own
<1>6. Twice("flush", t, d, f)
  BY <1>1, <1>4 DEF At, Twice
<1> QED
  BY <1>2, <1>3, <1>5, <1>6 DEF At

\* The entity, that of m: n has its key if it is new.
LEMMA AtEntity ==
    ASSUME NEW d \in Datasets, NEW f, NEW K, NEW s, NEW t \in Sessions, NEW n,
           At("entity", s, d, f, K), NEW m \in Makers(d), t.maker = m,
           n = {k \in {EntityKey(d, Head(s.todo), m)} : k \notin K \cup s.sent},
           t.jobs = s.jobs, t.todo = s.todo, t.sent = s.sent, t.added = s.added \cup n,
           t.twice = s.twice, t.locks = s.locks, t.loaded = s.loaded, t.then = "row"
    PROVE  At(IF n # {} \/ d \in FlushEach THEN "flush" ELSE "row", t, d, f, K)
<1> DEFINE p == IF n # {} \/ d \in FlushEach THEN "flush" ELSE "row"
           key == EntityKey(d, Head(s.todo), m)
<1>0. p \in {"flush", "row"} /\ (p = "row" => n = {} /\ d \notin FlushEach)
  OBVIOUS
<1>1. /\ s.todo # <<>> /\ Head(s.todo) = s.todo[1]
      /\ f \in Files[d] /\ s \in Sessions
  BY StageFacts DEF At, Place
<1>2. key[2] = d /\ key[1] # "row" /\ n \subseteq {key} /\ n \cap s.sent = {}
  BY KeyFacts
<1>3. Stage(t, f) = Stage(s, f) /\ Have(s, K) \subseteq Have(t, K) /\ key \in Have(t, K)
  BY DEF Stage, Have
<1>4. s.loaded[d] >= 0
  BY DEF At, Kept
<1> HIDE DEF p, key
<1>5. Place(p, t, f)
  BY <1>0, <1>1, <1>3 DEF At, Place
<1>6. key = EntityKey(d, t.todo[1], t.maker)
  BY <1>1 DEF key
<1>7. Kept(p, t, d, f, K)
  <2>1. Kept("entity", s, d, f, K)
    BY DEF At
  <2> QED
    BY <2>1, <1>0, <1>3, <1>4, <1>6 DEF Kept, Both
<1>8. Own(p, t, d, f)
  <2>1. Own("entity", s, d, f)
    BY DEF At
  <2> QED
    BY <2>1, <1>0, <1>2, <1>4 DEF Own
<1>9. Twice(p, t, d, f)
  <2>1. Twice("entity", s, d, f)
    BY DEF At
  <2> QED
    BY <2>1, <1>0, <1>2, <1>3 DEF Twice
<1>10. At(p, t, d, f, K)
  BY <1>5, <1>7, <1>8, <1>9 DEF At
<1> QED
  BY <1>10 DEF p

\* The row: n has its key if it is new.
LEMMA AtRow ==
    ASSUME NEW d \in Datasets, NEW f, NEW K, NEW s, NEW t \in Sessions, NEW n,
           At("row", s, d, f, K),
           n = {k \in {RowKey(d, Head(s.todo), s.maker)} : k \notin K \cup s.sent},
           t.jobs = s.jobs, t.todo = Tail(s.todo), t.sent = s.sent, t.added = s.added \cup n,
           t.twice = (s.twice \/ n \cap s.added # {}), t.locks = s.locks,
           t.loaded[d] = s.loaded[d] + 1,
           \A x \in Datasets \ {d} : t.loaded[x] = s.loaded[x]
    PROVE  At(IF Len(s.todo) = 1 THEN "commit" ELSE "source", t, d, f, K)
<1> DEFINE p == IF Len(s.todo) = 1 THEN "commit" ELSE "source"
           key == RowKey(d, Head(s.todo), s.maker)
           m == Stage(s, f) + 1
<1>0. p \in {"commit", "source"} /\ (p = "commit" <=> Len(s.todo) = 1)
  OBVIOUS
<1>1. f \in Files[d] /\ s \in Sessions /\ Place("row", s, f) /\ s.todo # <<>>
  BY DEF At, Place
<1>2. /\ Stage(s, f) \in Nat /\ m \in 1..Len(f.rows) /\ DOMAIN f.rows = 1..Len(f.rows)
      /\ Head(s.todo) = s.todo[1] /\ s.todo[1] = f.rows[m]
      /\ f.rows \in Seq(AllRows) /\ s.todo \in Seq(AllRows)
  BY <1>1, StageFacts
<1>2a. Len(s.todo) <= Len(f.rows)
  BY <1>1 DEF Place
<1>3. /\ Stage(t, f) = m /\ Len(t.todo) <= Len(f.rows)
      /\ t.todo = <<>> <=> Len(s.todo) = 1
      /\ \A i \in 1..Len(t.todo) :
            /\ t.todo[i] = s.todo[i + 1] /\ i + 1 \in 1..Len(s.todo)
            /\ Stage(s, f) + (i + 1) = Stage(t, f) + i
  <2>1. s.todo # <<>> /\ t.todo = Tail(s.todo)
    BY <1>1
  <2>2. Stage(s, f) = Gone(f.rows, s.todo) /\ Stage(t, f) = Gone(f.rows, Tail(s.todo))
    BY <2>1 DEF Stage
  <2>3. f.rows \in Seq(AllRows) /\ s.todo \in Seq(AllRows)
    BY <1>2
  <2> DEFINE r == f.rows
             u == s.todo
  <2>4. r \in Seq(AllRows) /\ u \in Seq(AllRows) /\ Len(u) <= Len(r) /\ u # <<>>
    BY <1>2a, <2>1, <2>3
  <2> HIDE DEF r, u
  <2>5. /\ Len(Tail(u)) <= Len(r)
        /\ Gone(r, Tail(u)) = Gone(r, u) + 1
        /\ Tail(u) = <<>> <=> Len(u) = 1
        /\ \A i \in 1..Len(Tail(u)) :
              /\ Tail(u)[i] = u[i + 1] /\ i + 1 \in 1..Len(u)
              /\ Gone(r, u) + (i + 1) = Gone(r, Tail(u)) + i
    BY <2>4, GoneNext
  <2> QED
    BY <2>1, <2>2, <2>5 DEF r, u
<1>6. Have(s, K) \subseteq Have(t, K) /\ key \in Have(t, K)
  BY DEF Have
<1>7. key = RowKey(d, f.rows[m], s.maker) /\ key[2] = d /\ key[1] = "row" /\ n \subseteq {key} /\ n \cap s.sent = {}
  BY <1>2, KeyFacts
<1>8. s.loaded[d] >= 0 /\ s.loaded[d] \in Int /\ t.loaded[d] >= 0
  <2>1. s.loaded[d] \in Int
    BY <1>1, SessionFields
  <2>2. s.loaded[d] >= 0
    BY DEF At, Kept
  <2> QED
    BY <2>1, <2>2
<1>9. Place(p, t, f)
  <2>1. \A i \in 1..Len(t.todo) : t.todo[i] = f.rows[Stage(t, f) + i]
    BY <1>1, <1>3 DEF Place
  <2> QED
    BY <1>0, <1>3, <2>1 DEF Place
<1> HIDE DEF p, key, m
<1>10. Kept(p, t, d, f, K)
  <2>1. Kept("row", s, d, f, K) /\ Own("row", s, d, f)
    BY DEF At
  <2>2. /\ s.maker \in Makers(d) /\ Both(d, f.rows[m], s.maker, Have(t, K))
        /\ SourceKey(d) \in Have(t, K)
    BY <2>1, <1>2, <1>6, <1>7, <1>8 DEF Kept, Both
  <2>3. \A n2 \in 1..m : n2 \in 1..Stage(s, f) \/ n2 = m
    BY <1>2 DEF m
  <2>4. \A n2 \in 1..Stage(t, f) :
            /\ SourceKey(d) \in Have(t, K)
            /\ \E y \in Makers(d) : Both(d, f.rows[n2], y, Have(t, K))
    BY <1>3, <1>6, <2>1, <2>2, <2>3 DEF Kept, Both
  <2> QED
    BY <1>0, <1>8, <2>2, <2>4 DEF Kept
<1>11. Own(p, t, d, f)
  <2>1. Own("row", s, d, f)
    BY DEF At
  <2> QED
    BY <2>1, <1>7, <1>8 DEF Own
<1>12. Twice(p, t, d, f)
  <2>1. Twice("row", s, d, f)
    BY DEF At
  <2>2. m \in 1..Stage(t, f) /\ \A i \in 1..Stage(s, f) : i \in 1..Stage(t, f)
    BY <1>2, <1>3 DEF m
  <2>2a. s.maker \in Makers(d)
    BY DEF At, Kept
  <2>3. \A k \in t.added : k[1] = "row" =>
            \E i \in 1..Stage(t, f) : \E y \in Makers(d) : k = RowKey(d, f.rows[i], y)
    BY <2>1, <2>2, <2>2a, <1>7 DEF Twice
  <2>4. ASSUME n \cap s.added # {}
        PROVE  d \notin FlushEach /\ RepeatsKey(d, f.rows)
    <3>1. d \notin FlushEach
      BY <2>1, <2>4 DEF Twice
    <3>2. PICK i \in 1..Stage(s, f), y \in Makers(d) : key = RowKey(d, f.rows[i], y)
      BY <2>1, <2>4, <1>7 DEF Twice
    <3>3. i < m /\ i \in DOMAIN f.rows /\ m \in DOMAIN f.rows
      BY <1>2, <3>2 DEF m
    <3>4. <<f.rows[i].entity, f.rows[i].day>> = <<f.rows[m].entity, f.rows[m].day>>
      <4> DEFINE a == f.rows[i]
                 b == f.rows[m]
      <4>1. RowKey(d, a, y) = RowKey(d, b, s.maker)
        BY <1>7, <3>2
      <4> HIDE DEF a, b
      <4>2. <<a.entity, a.day>> = <<b.entity, b.day>>
        BY <4>1, SameRowKey
      <4> QED
        BY <4>2 DEF a, b
    <3>5. RepeatsKey(d, f.rows)
      <4>1. RepeatsKey(d, f.rows) <=>
                \E a, b \in DOMAIN f.rows :
                    a < b /\ <<f.rows[a].entity, f.rows[a].day>> = <<f.rows[b].entity, f.rows[b].day>>
        BY Zenon DEF RepeatsKey, Repeats
      <4> QED
        BY <3>3, <3>4, <4>1
    <3> QED
      BY <3>1, <3>5
  <2> QED
    BY <1>0, <2>1, <2>3, <2>4 DEF Twice
<1>13. f \in Files[d] /\ Read(d, f) = "ok" /\ t.jobs \in Plans /\ Head(t.jobs) = d
  BY DEF At
<1>14. At(p, t, d, f, K)
  BY <1>9, <1>10, <1>11, <1>12, <1>13 DEF At
<1> QED
  BY <1>14 DEF p

LEMMA AtFlush ==
    ASSUME NEW d \in Datasets, NEW f, NEW K, NEW s, NEW t \in Sessions,
           At("flush", s, d, f, K),
           t.jobs = s.jobs, t.todo = s.todo, t.sent = s.sent \cup s.added, t.added = {},
           t.twice = s.twice, t.locks = s.locks \cup {x \in Datasets : s.loaded[x] >= 0},
           t.loaded = s.loaded, t.maker = s.maker
    PROVE  s.then \in {"entity", "row"} /\ At(s.then, t, d, f, K)
<1>1. Stage(t, f) = Stage(s, f) /\ Have(t, K) = Have(s, K)
  BY DEF Stage, Have
<1>2. s.then \in {"entity", "row"} /\ s.todo # <<>>
  BY DEF At, Place
<1>3. Place(s.then, t, f)
  BY <1>1, <1>2 DEF At, Place
<1>4. Kept("flush", s, d, f, K) /\ Own("flush", s, d, f) /\ Twice("flush", s, d, f)
  BY DEF At
<1>5. Kept(s.then, t, d, f, K)
  BY <1>1, <1>2, <1>4 DEF Kept
<1>6. Own(s.then, t, d, f)
  BY <1>4 DEF Own, Kept
<1>7. Twice(s.then, t, d, f)
  BY <1>1, <1>2, <1>4 DEF Twice
<1> QED
  BY <1>2, <1>3, <1>5, <1>6, <1>7 DEF At

(***************************************************************************)
(* The steps.                                                              *)
(***************************************************************************)
\* What every request's session is, given where the request is.
SessionAt(c) ==
    /\ pc[c] \in {"idle", "done"} => session[c].jobs = <<>> /\ Fresh(session[c])
    /\ pc[c] = "open" => session[c].jobs \in Plans /\ Fresh(session[c])
    /\ pc[c] \in Busy =>
          At(pc[c], session[c], Current(c), read[c][Current(c)], DOMAIN stored)
SessionInv == \A c \in Callers : SessionAt(c)

LEMMA Went ==
    ASSUME TypeInv, NEW c \in Callers, NEW l \in {"idle", "done"} \cup Pending, Goto(c, l)
    PROVE  /\ pc' \in [Callers -> {"idle", "done"} \cup Pending] /\ pc'[c] = l
           /\ \A o \in Callers \ {c} : pc'[o] = pc[o]
BY DEF TypeInv, TypeOK, Goto

LEMMA Updated ==
    ASSUME TypeInv, NEW c \in Callers, NEW new \in Sessions, Update(c, new)
    PROVE  /\ session' \in [Callers -> Sessions] /\ session'[c] = new
           /\ \A o \in Callers \ {c} : session'[o] = session[o]
BY DEF TypeInv, Update

LEMMA ClosingEffect ==
    ASSUME TypeInv, NEW c \in Callers, NEW code \in {200, 424, 500}, Close(c, code)
    PROVE  /\ pc' \in [Callers -> {"idle", "done"} \cup Pending] /\ pc'[c] = "done"
           /\ \A o \in Callers \ {c} : pc'[o] = pc[o]
           /\ session' \in [Callers -> Sessions]
           /\ session'[c].jobs = <<>> /\ Fresh(session'[c])
           /\ \A o \in Callers \ {c} : session'[o] = session[o]
           /\ answer' \in [Callers -> {0, 200, 424, 500}] /\ answer'[c] = code
           /\ \A o \in Callers \ {c} : answer'[o] = answer[o]
<1>1. Goto(c, "done") /\ Update(c, NewSession(<<>>)) /\ answer' = [answer EXCEPT ![c] = code]
  BY DEF Close
<1>2. NewSession(<<>>) \in Sessions /\ NewSession(<<>>).jobs = <<>> /\ Fresh(NewSession(<<>>))
  BY NewSessionFacts
<1>3. /\ answer' \in [Callers -> {0, 200, 424, 500}] /\ answer'[c] = code
      /\ \A o \in Callers \ {c} : answer'[o] = answer[o]
  BY <1>1 DEF TypeInv, TypeOK
<1>4. /\ pc' \in [Callers -> {"idle", "done"} \cup Pending] /\ pc'[c] = "done"
      /\ \A o \in Callers \ {c} : pc'[o] = pc[o]
  BY <1>1, Went
<1>5. /\ session' \in [Callers -> Sessions] /\ session'[c] = NewSession(<<>>)
      /\ \A o \in Callers \ {c} : session'[o] = session[o]
  BY <1>1, <1>2, Updated
<1> QED
  BY <1>2, <1>3, <1>4, <1>5

\* The next import, or the end, from a session s in which nothing is stored.
Went2(c, s) ==
    \/ /\ Len(s.jobs) > 1
       /\ pc'[c] = "open" /\ answer'[c] = answer[c]
       /\ session'[c].jobs = Tail(s.jobs)
    \/ /\ ~(Len(s.jobs) > 1)
       /\ pc'[c] = "done" /\ answer'[c] = 200
       /\ session'[c].jobs = <<>>

LEMMA NextJobEffect ==
    ASSUME TypeInv, NEW c \in Callers, NEW s \in Sessions, s.jobs \in Plans,
           Len(s.jobs) > 1 => Fresh(s), NextJob(c, s)
    PROVE  /\ pc' \in [Callers -> {"idle", "done"} \cup Pending]
           /\ \A o \in Callers \ {c} : pc'[o] = pc[o]
           /\ session' \in [Callers -> Sessions] /\ Fresh(session'[c])
           /\ \A o \in Callers \ {c} : session'[o] = session[o]
           /\ answer' \in [Callers -> {0, 200, 424, 500}]
           /\ \A o \in Callers \ {c} : answer'[o] = answer[o]
           /\ Went2(c, s)
<1>1. CASE ~(Len(s.jobs) > 1)
  <2>1. Close(c, 200)
    BY <1>1 DEF NextJob
  <2> QED
    BY <1>1, <2>1, ClosingEffect DEF Went2
<1>2. CASE Len(s.jobs) > 1
  <2> DEFINE t == [s EXCEPT !.jobs = Tail(s.jobs)]
             u == [t EXCEPT !.todo = <<>>]
  <2>1. Tail(s.jobs) \in Plans
    BY <1>2, PlanFacts DEF PlanOK
  <2>2. /\ t \in Sessions /\ t.jobs = Tail(s.jobs) /\ t.sent = s.sent /\ t.added = s.added
        /\ t.twice = s.twice /\ t.loaded = s.loaded /\ t.locks = s.locks
    BY <2>1, SetJobs
  <2>3. <<>> \in Seq(AllRows)
    OBVIOUS
  <2>4. Goto(c, "open") /\ Update(c, [s EXCEPT !.jobs = Tail(@), !.todo = <<>>]) /\ UNCHANGED answer
    BY <1>2 DEF NextJob
  <2>5. [s EXCEPT !.jobs = Tail(@), !.todo = <<>>] = u
    OBVIOUS
  <2> HIDE DEF t
  <2>6. /\ u \in Sessions /\ u.jobs = t.jobs /\ u.todo = <<>> /\ u.sent = t.sent /\ u.added = t.added
        /\ u.twice = t.twice /\ u.loaded = t.loaded /\ u.locks = t.locks
    BY <2>2, <2>3, SetTodo
  <2> HIDE DEF u
  <2>7. Fresh(u)
    BY <1>2, <2>2, <2>6 DEF Fresh
  <2>8. Update(c, u)
    BY <2>4, <2>5
  <2>9. /\ session' \in [Callers -> Sessions] /\ session'[c] = u
        /\ \A o \in Callers \ {c} : session'[o] = session[o]
    BY <2>6, <2>8, Updated
  <2>10. /\ pc' \in [Callers -> {"idle", "done"} \cup Pending] /\ pc'[c] = "open"
         /\ \A o \in Callers \ {c} : pc'[o] = pc[o]
    <3>1. "open" \in {"idle", "done"} \cup Pending
      BY DEF Pending
    <3> QED
      BY <2>4, <3>1, Went
  <2>11. answer' = answer /\ answer \in [Callers -> {0, 200, 424, 500}]
    BY <2>4 DEF TypeInv, TypeOK
  <2> QED
    BY <1>2, <2>2, <2>6, <2>7, <2>9, <2>10, <2>11 DEF Went2
<1> QED
  BY <1>1, <1>2

LEMMA ResultEffect ==
    ASSUME TypeInv, NEW c \in Callers, NEW d \in Datasets, NEW kind \in Results,
           result' = [result EXCEPT ![c][d] = kind]
    PROVE  /\ result' \in [Callers -> [Datasets -> Results]]
           /\ result'[c][d] = kind
           /\ \A x \in Datasets \ {d} : result'[c][x] = result[c][x]
           /\ \A o \in Callers \ {c} : result'[o] = result[o]
<1>1. result \in [Callers -> [Datasets -> Results]]
  BY DEF TypeInv, TypeOK
<1> QED
  BY <1>1

\* The import fails with a kind of exception: "all" goes on, or the request ends.
Raised(c, kind) ==
    /\ result'[c][Current(c)] = kind
    /\ \A x \in Datasets \ {Current(c)} : result'[c][x] = result[c][x]
    /\ Fresh(session'[c])
    /\ \/ InAll(c) /\ Noted(kind) /\ Went2(c, session[c])
       \/ /\ ~(InAll(c) /\ Noted(kind))
          /\ pc'[c] = "done" /\ session'[c].jobs = <<>>
          /\ answer'[c] = IF Noted(kind) THEN 424 ELSE 500

Typed ==
    /\ pc' \in [Callers -> {"idle", "done"} \cup Pending]
    /\ session' \in [Callers -> Sessions]
    /\ result' \in [Callers -> [Datasets -> Results]]
    /\ answer' \in [Callers -> {0, 200, 424, 500}]

\* The other requests stay where they are.
Alone(c) ==
    \A o \in Callers \ {c} :
        pc'[o] = pc[o] /\ session'[o] = session[o] /\ result'[o] = result[o] /\ answer'[o] = answer[o]

LEMMA RaiseEffect ==
    ASSUME TypeInv, NEW c \in Callers, NEW kind \in Results, session[c].jobs \in Plans,
           Noted(kind) /\ Len(session[c].jobs) > 1 => Fresh(session[c]), Raise(c, kind)
    PROVE  Typed /\ Alone(c) /\ Raised(c, kind)
<1>1. Current(c) \in Datasets
  BY PlanFacts DEF PlanOK, Current
<1>2. result' = [result EXCEPT ![c][Current(c)] = kind]
  BY DEF Raise
<1>3. /\ result' \in [Callers -> [Datasets -> Results]]
      /\ result'[c][Current(c)] = kind
      /\ \A x \in Datasets \ {Current(c)} : result'[c][x] = result[c][x]
      /\ \A o \in Callers \ {c} : result'[o] = result[o]
  <2> DEFINE d == Current(c)
  <2>1. d \in Datasets /\ result' = [result EXCEPT ![c][d] = kind]
    BY <1>1, <1>2
  <2> HIDE DEF d
  <2>2. /\ result' \in [Callers -> [Datasets -> Results]]
        /\ result'[c][d] = kind
        /\ \A x \in Datasets \ {d} : result'[c][x] = result[c][x]
        /\ \A o \in Callers \ {c} : result'[o] = result[o]
    BY <2>1, ResultEffect
  <2> QED
    BY <2>2 DEF d
<1>4. session[c] \in Sessions
  BY DEF TypeInv
<1>5. CASE InAll(c) /\ Noted(kind)
  <2>1. NextJob(c, session[c])
    BY <1>5 DEF Raise
  <2>2. Len(session[c].jobs) > 1 => Fresh(session[c])
    BY <1>5
  <2> QED
    BY <1>3, <1>4, <1>5, <2>1, <2>2, NextJobEffect DEF Typed, Alone, Raised
<1>6. CASE ~(InAll(c) /\ Noted(kind))
  <2> DEFINE code == IF Noted(kind) THEN 424 ELSE 500
  <2>1. code \in {200, 424, 500} /\ Close(c, code)
    BY <1>6 DEF Raise
  <2>2. code = IF Noted(kind) THEN 424 ELSE 500
    OBVIOUS
  <2> HIDE DEF code
  <2> QED
    BY <1>3, <1>6, <2>1, <2>2, ClosingEffect DEF Typed, Alone, Raised
<1> QED
  BY <1>5, <1>6

\* After an exception the session is a new one.
LEMMA RaisedSession ==
    ASSUME NEW c \in Callers, NEW kind, session[c].jobs \in Plans, Raised(c, kind)
    PROVE  SessionAt(c)'
<1>1. Fresh(session'[c])
  BY DEF Raised
<1>2. CASE pc'[c] = "done" /\ session'[c].jobs = <<>>
  BY <1>1, <1>2 DEF SessionAt, Busy, Fresh
<1>3. CASE pc'[c] = "open" /\ session'[c].jobs = Tail(session[c].jobs) /\ Len(session[c].jobs) > 1
  <2>1. session'[c].jobs \in Plans
    BY <1>3, PlanFacts DEF PlanOK
  <2> QED
    BY <1>1, <1>3, <2>1 DEF SessionAt, Busy, Fresh
<1> QED
  BY <1>2, <1>3 DEF Raised, Went2

(***************************************************************************)
(* The steps of a request, by what they do to its imports.                 *)
(***************************************************************************)
Begins(c) ==
    /\ pc[c] = "idle" /\ pc'[c] = "open" /\ session'[c].jobs \in Plans
    /\ UNCHANGED <<Store, read, Outcome, overlapped>>
Reads(c) ==
    /\ pc[c] = "open" /\ read' \in FilesRead
    /\ read'[c][Current(c)] \in Files[Current(c)]
    /\ \A x \in Datasets \ {Current(c)} : read'[c][x] = read[c][x]
    /\ \A o \in Callers \ {c} : read'[o] = read[o]
    /\ overlapped' = overlapped \cup
          {d \in {Current(c)} : \E o \in Callers \ {c} : Importing(o) /\ Current(o) = d}
    /\ UNCHANGED Store
Opens(c) ==
    /\ Reads(c) /\ Read(Current(c), read'[c][Current(c)]) = "ok"
    /\ pc'[c] \in Busy /\ session'[c].jobs = session[c].jobs /\ UNCHANGED Outcome
    /\ session'[c].sent = {} /\ session'[c].added = {}
    /\ ~(session'[c].loaded[Current(c)] >= 0)
\* A step has one key more at most, and an entity only if there is none of its name.
OneMore(s, t, d, K) ==
    \E k : /\ t.sent \cup t.added \subseteq s.sent \cup s.added \cup {k}
           /\ \/ k \in s.sent \cup s.added \/ k[1] # "entity"
              \/ \A m \in Makers(d) : <<"entity", d, k[3], m>> \notin Have(s, K)
\* A step adds, and sends, only what is not committed; it takes the count over
\* from the source, or counts a record.
Progress(s, t, d) ==
    /\ OneMore(s, t, d, DOMAIN stored)
    /\ t.added \cap DOMAIN stored \subseteq s.added
    /\ t.sent \cap DOMAIN stored \subseteq s.sent
    /\ \/ t.loaded[d] = s.loaded[d] /\ t.todo = s.todo
       \/ /\ ~(s.loaded[d] >= 0) /\ t.todo = s.todo
          /\ t.loaded[d] = counts[d] \/ (t.loaded[d] = 0 /\ SourceKey(d) \notin DOMAIN stored)
       \/ /\ s.loaded[d] >= 0 /\ t.loaded[d] = s.loaded[d] + 1
          /\ t.todo = Tail(s.todo) /\ s.todo # <<>>
Works(c) ==
    /\ pc[c] \in Busy /\ pc'[c] \in Busy /\ session'[c].jobs = session[c].jobs
    /\ Progress(session[c], session'[c], Current(c))
    /\ UNCHANGED <<Store, read, Outcome, overlapped>>
Fails(c) ==
    \E kind \in Results \ {"none", "ok"} :
        /\ Raised(c, kind) /\ UNCHANGED Store
        /\ \/ Reads(c) /\ kind = Read(Current(c), read'[c][Current(c)])
           \/ /\ pc[c] \in Busy /\ UNCHANGED <<read, overlapped>>
              /\ \/ kind = "value" /\ ~Acceptable(Current(c), read[c][Current(c)])
                 \/ kind \in {"width", "lost"}
                 \/ kind = "conflict" /\ Violates(c)
Commits(c) ==
    /\ pc[c] = "commit" /\ MayWrite(c) /\ ~Violates(c)
    /\ stored' = [k \in DOMAIN stored \cup (session[c].sent \cup session[c].added) |->
                    IF k \in session[c].sent \cup session[c].added THEN c ELSE stored[k]]
    /\ counts' = [d \in Datasets |-> IF d \in Touched(c) THEN session[c].loaded[d] ELSE counts[d]]
    /\ result'[c][Current(c)] = "ok"
    /\ \A x \in Datasets \ {Current(c)} : result'[c][x] = result[c][x]
    /\ Fresh(session'[c])
    /\ Went2(c, session[c])
    /\ UNCHANGED <<width, read, overlapped>>

LEMMA RequestStep ==
    ASSUME TypeInv, NEW c \in Callers, Request(c)
    PROVE  Typed /\ Alone(c) /\ SessionAt(c)' /\ Begins(c)
<1>1. PICK q \in Requests : Update(c, NewSession(IF q = "all" THEN Jobs ELSE <<q>>))
  BY DEF Request
<1> DEFINE p == IF q = "all" THEN Jobs ELSE <<q>>
<1>2. p \in Plans
  BY ImportAssumption DEF Plans
<1> HIDE DEF p
<1>3. NewSession(p) \in Sessions /\ NewSession(p).jobs = p /\ Fresh(NewSession(p))
  BY <1>2, NewSessionFacts
<1>4. /\ session' \in [Callers -> Sessions] /\ session'[c] = NewSession(p)
      /\ \A o \in Callers \ {c} : session'[o] = session[o]
  BY <1>1, <1>3, Updated DEF p
<1>5. /\ pc' \in [Callers -> {"idle", "done"} \cup Pending] /\ pc'[c] = "open"
      /\ \A o \in Callers \ {c} : pc'[o] = pc[o]
  <2>1. "open" \in {"idle", "done"} \cup Pending /\ Goto(c, "open")
    BY DEF Pending, Request
  <2> QED
    BY <2>1, Went
<1>6. pc[c] = "idle" /\ UNCHANGED <<Store, read, Outcome, overlapped>>
  BY DEF Request
<1>7. result' = result /\ answer' = answer
  BY <1>6 DEF Outcome
<1>8. Typed /\ Alone(c)
  BY <1>4, <1>5, <1>7 DEF Typed, Alone, TypeInv, TypeOK
<1>9. SessionAt(c)'
  BY <1>2, <1>3, <1>4, <1>5 DEF SessionAt, Busy
<1> QED
  BY <1>2, <1>3, <1>4, <1>5, <1>6, <1>8, <1>9 DEF Begins

LEMMA CurrentFacts ==
    ASSUME NEW c \in Callers, session[c].jobs \in Plans
    PROVE  Current(c) \in Datasets /\ Current(c) = Head(session[c].jobs)
BY PlanFacts DEF PlanOK, Current

LEMMA OpenStep ==
    ASSUME TypeInv, SessionInv, NEW c \in Callers, Open(c)
    PROVE  Typed /\ Alone(c) /\ SessionAt(c)' /\ (Opens(c) \/ Fails(c))
<1> DEFINE d == Current(c)
           s == session[c]
<1>1. /\ pc[c] = "open" /\ s.jobs \in Plans /\ Fresh(s) /\ s \in Sessions
      /\ d \in Datasets /\ d = Head(s.jobs)
  <2>1. pc[c] = "open" /\ session[c] \in Sessions
    BY DEF Open, TypeInv
  <2>2. session[c].jobs \in Plans /\ Fresh(session[c])
    BY <2>1 DEF SessionInv, SessionAt
  <2> QED
    BY <2>1, <2>2, CurrentFacts
<1>2. PICK f \in Files[d] :
          /\ read' = [read EXCEPT ![c][d] = f]
          /\ IF Read(d, f) = "ok"
             THEN /\ Update(c, [s EXCEPT !.todo = f.rows])
                  /\ Goto(c, IF f.rows = <<>> THEN "commit" ELSE "source")
                  /\ UNCHANGED Outcome
             ELSE Raise(c, Read(d, f))
  BY DEF Open
<1>3. /\ overlapped' = overlapped \cup
            {x \in {d} : \E o \in Callers \ {c} : Importing(o) /\ Current(o) = x}
      /\ UNCHANGED Store
  BY DEF Open
<1> HIDE DEF d
<1>4. /\ read'[c][d] = f /\ read' \in FilesRead
      /\ \A x \in Datasets \ {d} : read'[c][x] = read[c][x]
      /\ \A o \in Callers \ {c} : read'[o] = read[o]
  <2> DEFINE X == {NoFile} \cup UNION {Files[x] : x \in Datasets}
  <2>1. f \in X /\ read \in [Callers -> [Datasets -> X]] /\ read' = [read EXCEPT ![c][d] = f]
    BY <1>1, <1>2 DEF TypeInv, FilesRead
  <2> HIDE DEF X
  <2>2. /\ read'[c][d] = f /\ read' \in [Callers -> [Datasets -> X]]
        /\ \A x \in Datasets \ {d} : read'[c][x] = read[c][x]
        /\ \A o \in Callers \ {c} : read'[o] = read[o]
    BY <1>1, <2>1
  <2> QED
    BY <2>2 DEF X, FilesRead
<1>5. Reads(c)
  BY <1>1, <1>2, <1>3, <1>4 DEF Reads, d
<1>6. CASE Read(d, f) = "ok"
  <2> DEFINE t == [s EXCEPT !.todo = f.rows]
             p == IF f.rows = <<>> THEN "commit" ELSE "source"
  <2>1. Update(c, t) /\ Goto(c, p) /\ UNCHANGED Outcome
    BY <1>2, <1>6
  <2>2. f.rows \in Seq(AllRows)
    BY <1>1, FileFacts
  <2>3. /\ t \in Sessions /\ t.jobs = s.jobs /\ t.sent = {} /\ t.added = {}
        /\ ~(t.loaded[d] >= 0)
    BY <1>1, <2>2, SetTodo DEF Fresh
  <2>4. At(p, t, d, f, DOMAIN stored)
    BY <1>1, <1>6, AtOpen
  <2>5. p \in {"idle", "done"} \cup Pending /\ p \in Busy /\ p \notin {"idle", "done", "open"}
    BY DEF Pending, Busy
  <2> HIDE DEF t, p
  <2>6. /\ session' \in [Callers -> Sessions] /\ session'[c] = t
        /\ \A o \in Callers \ {c} : session'[o] = session[o]
    BY <2>1, <2>3, Updated
  <2>7. /\ pc' \in [Callers -> {"idle", "done"} \cup Pending] /\ pc'[c] = p
        /\ \A o \in Callers \ {c} : pc'[o] = pc[o]
    BY <2>1, <2>5, Went
  <2>8. result' = result /\ answer' = answer
    BY <2>1 DEF Outcome
  <2>9. Typed /\ Alone(c)
    BY <2>6, <2>7, <2>8 DEF Typed, Alone, TypeInv, TypeOK
  <2>10. d = Head(session'[c].jobs) /\ stored' = stored
    BY <1>1, <1>3, <2>3, <2>6 DEF Store
  <2>11. At(pc'[c], session'[c], Head(session'[c].jobs), read'[c][Head(session'[c].jobs)], DOMAIN stored')
    BY <1>4, <2>4, <2>6, <2>7, <2>10
  <2>12. SessionAt(c)'
    BY <2>5, <2>7, <2>11 DEF SessionAt, Current
  <2>13. Opens(c)
    BY <1>4, <1>5, <1>6, <2>1, <2>3, <2>5, <2>6, <2>7 DEF Opens, d
  <2> QED
    BY <2>9, <2>12, <2>13
<1>7. CASE Read(d, f) # "ok"
  <2> DEFINE kind == Read(d, f)
  <2>1. kind \in {"missing", "value", "broken"}
    BY <1>1, <1>7, FileFacts
  <2>2. kind \in Results \ {"none", "ok"} /\ Raise(c, kind)
    BY <1>2, <1>7, <2>1 DEF Results
  <2>3. kind = Read(Current(c), read'[c][Current(c)])
    BY <1>4 DEF d
  <2> HIDE DEF kind
  <2>4. Typed /\ Alone(c) /\ Raised(c, kind)
    BY <1>1, <2>2, RaiseEffect
  <2>5. SessionAt(c)'
    BY <1>1, <2>4, RaisedSession
  <2>6. Fails(c)
    BY <1>3, <1>5, <2>2, <2>3, <2>4 DEF Fails
  <2> QED
    BY <2>4, <2>5, <2>6
<1> QED
  BY <1>6, <1>7

\* A step within an import, given what it makes of the session.
LEMMA WorkStep ==
    ASSUME TypeInv, NEW c \in Callers, NEW d \in Datasets, d = Current(c), NEW p \in Busy, NEW t \in Sessions,
           pc[c] \in Busy, Goto(c, p), Update(c, t), t.jobs = session[c].jobs,
           UNCHANGED <<Store, read, Outcome, overlapped>>,
           At(p, t, d, read[c][d], DOMAIN stored), Progress(session[c], t, d)
    PROVE  Typed /\ Alone(c) /\ SessionAt(c)' /\ Works(c)
<1>1. p \in {"idle", "done"} \cup Pending /\ p \notin {"idle", "done", "open"}
  BY DEF Pending, Busy
<1>2. /\ session' \in [Callers -> Sessions] /\ session'[c] = t
      /\ \A o \in Callers \ {c} : session'[o] = session[o]
  BY Updated
<1>3. /\ pc' \in [Callers -> {"idle", "done"} \cup Pending] /\ pc'[c] = p
      /\ \A o \in Callers \ {c} : pc'[o] = pc[o]
  BY <1>1, Went
<1>4. result' = result /\ answer' = answer /\ stored' = stored /\ read' = read
  BY DEF Outcome, Store
<1>5. Typed /\ Alone(c)
  BY <1>2, <1>3, <1>4 DEF Typed, Alone, TypeInv, TypeOK
<1>6. d = Head(session'[c].jobs)
  BY <1>2 DEF Current
<1>7. At(pc'[c], session'[c], Head(session'[c].jobs), read'[c][Head(session'[c].jobs)], DOMAIN stored')
  BY <1>2, <1>3, <1>4, <1>6
<1>8. SessionAt(c)'
  BY <1>1, <1>3, <1>7 DEF SessionAt, Current
<1>9. Works(c)
  BY <1>2, <1>3 DEF Works
<1> QED
  BY <1>5, <1>8, <1>9

\* What a step within an import starts from.
LEMMA AtWork ==
    ASSUME TypeInv, SessionInv, NEW c \in Callers, pc[c] \in Busy
    PROVE  /\ session[c] \in Sessions /\ session[c].jobs \in Plans
           /\ Current(c) \in Datasets /\ Current(c) = Head(session[c].jobs)
           /\ At(pc[c], session[c], Current(c), read[c][Current(c)], DOMAIN stored)
           /\ read[c][Current(c)] \in Files[Current(c)]
<1>1. At(pc[c], session[c], Current(c), read[c][Current(c)], DOMAIN stored)
  BY DEF SessionInv, SessionAt
<1>2. /\ session[c] \in Sessions /\ session[c].jobs \in Plans
      /\ read[c][Current(c)] \in Files[Current(c)]
  BY <1>1 DEF At
<1> QED
  BY <1>1, <1>2, CurrentFacts

\* Nothing is added.
LEMMA SameKeys ==
    ASSUME NEW s, NEW t, NEW d, NEW K, t.sent \cup t.added \subseteq s.sent \cup s.added
    PROVE  OneMore(s, t, d, K)
<1>1. <<"source">>[1] # "entity"
  OBVIOUS
<1> QED
  BY <1>1 DEF OneMore

LEMMA SourceStep ==
    ASSUME TypeInv, SessionInv, NEW c \in Callers, Source(c)
    PROVE  Typed /\ Alone(c) /\ SessionAt(c)' /\ Works(c)
<1> DEFINE d == Current(c)
           s == session[c]
           f == read[c][d]
           K == DOMAIN stored
<1>1. pc[c] = "source" /\ UNCHANGED <<Store, read, Outcome, overlapped>>
  BY DEF Source
<1>2. pc[c] \in Busy
  BY <1>1 DEF Busy
<1>3. /\ s \in Sessions /\ s.jobs \in Plans /\ d \in Datasets /\ f \in Files[d]
      /\ At("source", s, d, f, K)
  BY <1>1, <1>2, AtWork
<1>4. counts[d] \in Nat /\ s.loaded \in [Datasets -> Int] /\ s.added \in SUBSET AllKeys
  BY <1>3, SessionFields DEF TypeInv, TypeOK
<1>5. CASE /\ Loaded(c) \/ Seen(c, SourceKey(d))
           /\ Update(c, IF Loaded(c) THEN s ELSE [s EXCEPT !.loaded[d] = counts[d]])
           /\ Goto(c, "entity")
  <2> DEFINE t == IF Loaded(c) THEN s ELSE [s EXCEPT !.loaded[d] = counts[d]]
  <2>1. Loaded(c) <=> s.loaded[d] >= 0
    BY DEF Loaded
  <2>2. Seen(c, SourceKey(d)) <=> SourceKey(d) \in K \cup s.sent
    BY DEF Seen
  <2>3. Update(c, t) /\ Goto(c, "entity") /\ (s.loaded[d] >= 0 \/ SourceKey(d) \in K \cup s.sent)
    BY <1>5, <2>1, <2>2
  <2> HIDE DEF d, f, K
  <2>4. /\ t \in Sessions /\ t.jobs = s.jobs /\ t.todo = s.todo /\ t.sent = s.sent
        /\ t.added = s.added /\ t.twice = s.twice /\ t.locks = s.locks /\ t.loaded[d] \in Nat
        /\ \A x \in Datasets \ {d} : t.loaded[x] = s.loaded[x]
    <3>1. CASE Loaded(c)
      <4>1. s.loaded[d] \in Nat
        BY <1>3, <1>4, <2>1, <3>1
      <4> QED
        BY <1>3, <3>1, <4>1
    <3>2. CASE ~Loaded(c)
      <4>1. counts[d] \in Int
        BY <1>4
      <4> QED
        BY <1>3, <1>4, <3>2, <4>1, SetLoaded
    <3> QED
      BY <3>1, <3>2
  <2>4a. t.loaded[d] = s.loaded[d] \/ (~(s.loaded[d] >= 0) /\ t.loaded[d] = counts[d])
    <3>1. counts[d] \in Int
      BY <1>4
    <3> QED
      BY <1>3, <2>1, <3>1, SetLoaded
  <2> HIDE DEF t, s
  <2>5. At("entity", t, d, f, K)
    BY <1>3, <2>3, <2>4, AtSourceKnown
  <2>6. "entity" \in Busy
    BY DEF Busy
  <2>7. Progress(s, t, d)
    <3>1. t.loaded[d] = s.loaded[d] \/ (~(s.loaded[d] >= 0) /\ t.loaded[d] = counts[d])
      BY <2>4a
    <3> QED
      BY <2>4, <3>1, SameKeys DEF Progress
  <2>8. t.jobs = session[c].jobs /\ Progress(session[c], t, d)
    BY <2>4, <2>7 DEF s
  <2> QED
    BY <1>1, <1>2, <1>3, <2>3, <2>4, <2>5, <2>6, <2>8, WorkStep DEF d, f, K
<1>6. CASE /\ ~Loaded(c) /\ ~Seen(c, SourceKey(d))
           /\ Update(c, [s EXCEPT !.loaded[d] = 0, !.added = @ \cup {SourceKey(d)}, !.then = "entity"])
           /\ Goto(c, "flush")
  <2> DEFINE a == s.added \cup {SourceKey(d)}
             t == [s EXCEPT !.loaded[d] = 0]
             u == [t EXCEPT !.added = a]
             v == [u EXCEPT !.then = "entity"]
  <2>1. ~(s.loaded[d] >= 0) /\ SourceKey(d) \notin K \cup s.sent
    BY <1>6 DEF Loaded, Seen
  <2>2. [s EXCEPT !.loaded[d] = 0, !.added = @ \cup {SourceKey(d)}, !.then = "entity"] = v
    OBVIOUS
  <2>3. Update(c, v) /\ Goto(c, "flush")
    BY <1>6, <2>2
  <2> HIDE DEF d, f, K
  <2>4. a \in SUBSET AllKeys
    <3>1. f.rows \in Seq(AllRows) /\ s.todo # <<>> /\ Place("source", s, f)
      BY <1>3, FileFacts DEF At, Place
    <3>2. Stage(s, f) + 1 \in DOMAIN f.rows
      BY <1>3, <3>1, StageFacts
    <3>3. SourceKey(d) \in KeysOf(d, f.rows, Maker("earlier", d))
      BY <1>3, <3>2, KeysOfAre
    <3> QED
      BY <1>3, <1>4, <3>3, AllKeysFacts, MakerFacts
  <2>5. /\ t \in Sessions /\ t.loaded[d] = 0 /\ t.jobs = s.jobs /\ t.sent = s.sent
        /\ t.added = s.added /\ t.todo = s.todo /\ t.twice = s.twice /\ t.locks = s.locks
        /\ \A x \in Datasets \ {d} : t.loaded[x] = s.loaded[x]
    BY <1>3, SetLoaded
  <2> HIDE DEF t, a
  <2>6. /\ u \in Sessions /\ u.added = a /\ u.jobs = t.jobs /\ u.sent = t.sent /\ u.todo = t.todo
        /\ u.twice = t.twice /\ u.loaded = t.loaded /\ u.locks = t.locks
    BY <2>4, <2>5, SetAdded
  <2> HIDE DEF u
  <2>7. /\ v \in Sessions /\ v.then = "entity" /\ v.jobs = u.jobs /\ v.sent = u.sent /\ v.todo = u.todo
        /\ v.added = u.added /\ v.loaded = u.loaded /\ v.twice = u.twice /\ v.locks = u.locks
    BY <2>6, SetThen
  <2> HIDE DEF v
  <2>8. /\ v.jobs = s.jobs /\ v.todo = s.todo /\ v.sent = s.sent /\ v.twice = s.twice
        /\ v.added = s.added \cup {SourceKey(d)} /\ v.locks = s.locks /\ v.loaded[d] = 0
        /\ \A x \in Datasets \ {d} : v.loaded[x] = s.loaded[x]
    BY <2>5, <2>6, <2>7 DEF a
  <2> HIDE DEF s
  <2>9. At("flush", v, d, f, K)
    BY <1>3, <2>1, <2>7, <2>8, AtSourceNew
  <2>10. "flush" \in Busy
    BY DEF Busy
  <2>10a. Progress(s, v, d)
    <3>1. OneMore(s, v, d, K)
      BY <1>3, <2>8, KeyFacts DEF OneMore
    <3> QED
      BY <2>1, <2>8, <3>1 DEF Progress, K
  <2>11. v.jobs = session[c].jobs /\ Progress(session[c], v, d)
    BY <2>8, <2>10a DEF s
  <2> QED
    BY <1>1, <1>2, <1>3, <2>3, <2>7, <2>9, <2>10, <2>11, WorkStep DEF d, f, K
<1> QED
  BY <1>5, <1>6 DEF Source

\* The key of the record an import is at is one of its file's.
LEMMA RecordKeys ==
    ASSUME NEW d \in Datasets, NEW f, NEW s, NEW p, NEW K, At(p, s, d, f, K), s.todo # <<>>,
           NEW m \in Makers(d)
    PROVE  /\ EntityKey(d, Head(s.todo), m) \in AllKeys /\ RowKey(d, Head(s.todo), m) \in AllKeys
           /\ \E n \in DOMAIN f.rows : Head(s.todo) = f.rows[n]
<1>1. f \in Files[d] /\ s \in Sessions /\ Place(p, s, f)
  BY DEF At
<1>2. /\ Stage(s, f) + 1 \in DOMAIN f.rows /\ Head(s.todo) = f.rows[Stage(s, f) + 1]
  BY <1>1, StageFacts
<1>3. PICK n \in DOMAIN f.rows : Head(s.todo) = f.rows[n]
  BY <1>2
<1>4. /\ EntityKey(d, f.rows[n], m) \in KeysOf(d, f.rows, m)
      /\ RowKey(d, f.rows[n], m) \in KeysOf(d, f.rows, m)
  BY KeysOfAre
<1> QED
  BY <1>1, <1>3, <1>4, AllKeysFacts

LEMMA EntityStep ==
    ASSUME TypeInv, SessionInv, NEW c \in Callers, Entity(c)
    PROVE  Typed /\ Alone(c) /\ SessionAt(c)' /\ Works(c)
<1>0. PICK m \in Found(c) :
        LET new == {k \in {EntityKey(Current(c), Record(c), m)} : ~Seen(c, k)}
        IN  /\ Update(c, [session[c] EXCEPT !.added = @ \cup new, !.then = "row", !.maker = m])
            /\ Goto(c, IF new # {} \/ Current(c) \in FlushEach THEN "flush" ELSE "row")
  BY DEF Entity
<1> DEFINE d == Current(c)
           s == session[c]
           f == read[c][d]
           K == DOMAIN stored
           n == {k \in {EntityKey(d, Head(s.todo), m)} : k \notin K \cup s.sent}
           p == IF n # {} \/ d \in FlushEach THEN "flush" ELSE "row"
           a == s.added \cup n
           t == [s EXCEPT !.added = a]
           v == [t EXCEPT !.then = "row"]
           u == [v EXCEPT !.maker = m]
<1>1. pc[c] = "entity" /\ UNCHANGED <<Store, read, Outcome, overlapped>>
  BY DEF Entity
<1>2. pc[c] \in Busy
  BY <1>1 DEF Busy
<1>3. /\ s \in Sessions /\ s.jobs \in Plans /\ d \in Datasets /\ f \in Files[d]
      /\ At("entity", s, d, f, K)
  BY <1>1, <1>2, AtWork
<1>3a. /\ m \in Makers(d) /\ m \in Callers \cup {"earlier", "one"}
       /\ \/ EntityKey(d, Head(s.todo), m) \in K \cup s.sent
          \/ \A x \in Makers(d) : EntityKey(d, Head(s.todo), x) \notin K \cup s.sent
  BY <1>0, MakerFacts DEF Found, Seen, Record, Makers
<1>4. n = {k \in {EntityKey(Current(c), Record(c), m)} : ~Seen(c, k)}
  BY DEF Seen, Record
<1>5. /\ Update(c, [s EXCEPT !.added = @ \cup n, !.then = "row", !.maker = m])
      /\ Goto(c, p)
  BY <1>0, <1>4
<1>6. [s EXCEPT !.added = @ \cup n, !.then = "row", !.maker = m] = u
  OBVIOUS
<1>7. a \in SUBSET AllKeys
  <2>1. s.todo # <<>>
    BY <1>3 DEF At, Place
  <2>2. EntityKey(d, Head(s.todo), m) \in AllKeys
    BY <1>3, <1>3a, <2>1, RecordKeys
  <2> QED
    BY <1>3, <2>2, SessionFields
<1>8. n = {k \in {EntityKey(d, Head(s.todo), m)} : k \notin K \cup s.sent}
  OBVIOUS
<1>8a. p = IF n # {} \/ d \in FlushEach THEN "flush" ELSE "row"
  OBVIOUS
<1> HIDE DEF d, f, K, n, p
<1>9. /\ t \in Sessions /\ t.added = a /\ t.jobs = s.jobs /\ t.sent = s.sent /\ t.todo = s.todo
      /\ t.twice = s.twice /\ t.loaded = s.loaded /\ t.locks = s.locks
  BY <1>3, <1>7, SetAdded
<1> HIDE DEF t, a
<1>9a. /\ v \in Sessions /\ v.then = "row" /\ v.jobs = t.jobs /\ v.sent = t.sent /\ v.todo = t.todo
       /\ v.added = t.added /\ v.loaded = t.loaded /\ v.twice = t.twice /\ v.locks = t.locks
  BY <1>9, SetThen
<1> HIDE DEF v
<1>10. /\ u \in Sessions /\ u.maker = m /\ u.then = v.then /\ u.jobs = v.jobs /\ u.sent = v.sent
       /\ u.todo = v.todo /\ u.added = v.added /\ u.loaded = v.loaded /\ u.twice = v.twice
       /\ u.locks = v.locks
  BY <1>3a, <1>9a, SetMaker
<1>11. Update(c, u) /\ Goto(c, p)
  BY <1>5, <1>6
<1> HIDE DEF u
<1>12. /\ u.jobs = s.jobs /\ u.todo = s.todo /\ u.sent = s.sent /\ u.added = s.added \cup n
       /\ u.twice = s.twice /\ u.locks = s.locks /\ u.loaded = s.loaded /\ u.then = "row"
  BY <1>9, <1>9a, <1>10 DEF a
<1> HIDE DEF s
<1>13. At(p, u, d, f, K)
  BY <1>3, <1>3a, <1>8, <1>8a, <1>10, <1>12, AtEntity
<1>13a. OneMore(s, u, d, K)
  <2> DEFINE key == EntityKey(d, Head(s.todo), m)
  <2>1. CASE n = {}
    BY <1>12, <2>1, SameKeys
  <2>2. CASE n # {}
    <3>1. n = {key} /\ key \notin K \cup s.sent
      BY <1>8, <2>2
    <3>2. key = <<"entity", d, key[3], m>> /\ \A x \in Makers(d) : EntityKey(d, Head(s.todo), x) = <<"entity", d, key[3], x>>
      BY DEF EntityKey
    <3>3. \A x \in Makers(d) : <<"entity", d, key[3], x>> \notin K \cup s.sent
      BY <1>3a, <3>1, <3>2
    <3>4. \A x \in Makers(d) : <<"entity", d, key[3], x>> \notin s.added
      <4>1. \A k \in s.added : k[1] # "entity"
        BY <1>3 DEF At, Own
      <4>2. \A x \in Makers(d) : <<"entity", d, key[3], x>>[1] = "entity"
        OBVIOUS
      <4> HIDE DEF key
      <4> QED
        BY <4>1, <4>2
    <3>5. \A x \in Makers(d) : <<"entity", d, key[3], x>> \notin Have(s, K)
      BY <3>3, <3>4 DEF Have
    <3> HIDE DEF key
    <3> QED
      BY <1>12, <3>1, <3>5 DEF OneMore
  <2> QED
    BY <2>1, <2>2
<1>13b. Progress(s, u, d)
  BY <1>8, <1>12, <1>13a DEF Progress, K
<1>14. p \in Busy /\ u.jobs = session[c].jobs /\ Progress(session[c], u, d)
  BY <1>8a, <1>12, <1>13b DEF Busy, s
<1> QED
  BY <1>1, <1>2, <1>3, <1>10, <1>11, <1>13, <1>14, WorkStep DEF d, f, K

LEMMA RowStep ==
    ASSUME TypeInv, SessionInv, NEW c \in Callers, StoreRow(c)
    PROVE  Typed /\ Alone(c) /\ SessionAt(c)' /\ Works(c)
<1> DEFINE d == Current(c)
           s == session[c]
           f == read[c][d]
           K == DOMAIN stored
           n == {k \in {RowKey(d, Head(s.todo), s.maker)} : k \notin K \cup s.sent}
           p == IF Len(s.todo) = 1 THEN "commit" ELSE "source"
           a == s.added \cup n
           w == (s.twice \/ n \cap s.added # {})
           l == s.loaded[d] + 1
           r == Tail(s.todo)
           t == [s EXCEPT !.added = a]
           u == [t EXCEPT !.twice = w]
           v == [u EXCEPT !.loaded[d] = l]
           x == [v EXCEPT !.todo = r]
<1>1. pc[c] = "row" /\ UNCHANGED <<Store, read, Outcome, overlapped>>
  BY DEF StoreRow
<1>2. pc[c] \in Busy
  BY <1>1 DEF Busy
<1>3. /\ s \in Sessions /\ s.jobs \in Plans /\ d \in Datasets /\ f \in Files[d]
      /\ At("row", s, d, f, K)
  BY <1>1, <1>2, AtWork
<1>4. n = {k \in {RecordKey(c)} : ~Existing(c)}
  BY DEF Seen, Record, Existing, RecordKey
<1>5. /\ Update(c, [s EXCEPT !.added = @ \cup n, !.twice = @ \/ n \cap s.added # {},
                             !.loaded[d] = @ + 1, !.todo = Tail(@)])
      /\ Goto(c, p)
  BY <1>4 DEF StoreRow
<1>6. [s EXCEPT !.added = @ \cup n, !.twice = @ \/ n \cap s.added # {},
                !.loaded[d] = @ + 1, !.todo = Tail(@)] = x
  OBVIOUS
<1>7. s.todo # <<>> /\ s.todo \in Seq(AllRows) /\ s.added \in SUBSET AllKeys
      /\ s.twice \in BOOLEAN /\ s.loaded \in [Datasets -> Int]
  BY <1>3, SessionFields DEF At, Place
<1>8. a \in SUBSET AllKeys
  <2>0. s.maker \in Makers(d)
    BY <1>3 DEF At, Kept
  <2>1. RowKey(d, Head(s.todo), s.maker) \in AllKeys
    BY <1>3, <1>7, <2>0, RecordKeys
  <2> QED
    BY <1>7, <2>1
<1>9. w \in BOOLEAN /\ l \in Int /\ r \in Seq(AllRows)
  BY <1>3, <1>7
<1>10. /\ n = {k \in {RowKey(d, Head(s.todo), s.maker)} : k \notin K \cup s.sent}
       /\ p = IF Len(s.todo) = 1 THEN "commit" ELSE "source"
  OBVIOUS
<1> HIDE DEF d, f, K, n, p, w, l, r
<1>11. /\ t \in Sessions /\ t.added = a /\ t.jobs = s.jobs /\ t.sent = s.sent /\ t.todo = s.todo
       /\ t.twice = s.twice /\ t.loaded = s.loaded /\ t.locks = s.locks
  BY <1>3, <1>8, SetAdded
<1> HIDE DEF t, a
<1>12. /\ u \in Sessions /\ u.twice = w /\ u.jobs = t.jobs /\ u.sent = t.sent /\ u.todo = t.todo
       /\ u.added = t.added /\ u.loaded = t.loaded /\ u.locks = t.locks
  BY <1>9, <1>11, SetTwice
<1> HIDE DEF u
<1>13. /\ v \in Sessions /\ v.loaded[d] = l /\ v.jobs = u.jobs /\ v.sent = u.sent /\ v.todo = u.todo
       /\ v.added = u.added /\ v.twice = u.twice /\ v.locks = u.locks
       /\ \A y \in Datasets \ {d} : v.loaded[y] = u.loaded[y]
  BY <1>3, <1>9, <1>12, SetLoaded
<1> HIDE DEF v
<1>14. /\ x \in Sessions /\ x.todo = r /\ x.jobs = v.jobs /\ x.sent = v.sent /\ x.added = v.added
       /\ x.twice = v.twice /\ x.loaded = v.loaded /\ x.locks = v.locks
  BY <1>9, <1>13, SetTodo
<1>15. Update(c, x) /\ Goto(c, p)
  BY <1>5, <1>6
<1> HIDE DEF x
<1>16. /\ x.jobs = s.jobs /\ x.todo = Tail(s.todo) /\ x.sent = s.sent /\ x.added = s.added \cup n
       /\ x.twice = (s.twice \/ n \cap s.added # {}) /\ x.locks = s.locks
       /\ x.loaded[d] = s.loaded[d] + 1
       /\ \A y \in Datasets \ {d} : x.loaded[y] = s.loaded[y]
  BY <1>11, <1>12, <1>13, <1>14 DEF a, w, l, r
<1> HIDE DEF s
<1>17. At(p, x, d, f, K)
  BY <1>3, <1>10, <1>14, <1>16, AtRow
<1>18. Progress(s, x, d)
  <2>1. s.loaded[d] >= 0
    BY <1>3 DEF At, Kept
  <2>2. OneMore(s, x, d, K)
    BY <1>3, <1>10, <1>16, KeyFacts DEF OneMore
  <2> QED
    BY <1>7, <1>10, <1>16, <2>1, <2>2 DEF Progress, K
<1>19. p \in Busy /\ x.jobs = session[c].jobs /\ Progress(session[c], x, d)
  BY <1>10, <1>16, <1>18 DEF Busy, s
<1> QED
  BY <1>1, <1>2, <1>3, <1>14, <1>15, <1>17, <1>19, WorkStep DEF d, f, K

LEMMA FlushStep ==
    ASSUME TypeInv, SessionInv, NEW c \in Callers, Flush(c)
    PROVE  Typed /\ Alone(c) /\ SessionAt(c)' /\ Works(c)
<1> DEFINE d == Current(c)
           s == session[c]
           f == read[c][d]
           K == DOMAIN stored
           a == s.sent \cup s.added
           l == s.locks \cup {y \in Datasets : s.loaded[y] >= 0}
           t == [s EXCEPT !.sent = a]
           u == [t EXCEPT !.added = {}]
           v == [u EXCEPT !.locks = l]
<1>1. pc[c] = "flush" /\ UNCHANGED <<Store, read, Outcome, overlapped>>
  BY DEF Flush
<1>2. pc[c] \in Busy
  BY <1>1 DEF Busy
<1>3. /\ s \in Sessions /\ s.jobs \in Plans /\ d \in Datasets /\ f \in Files[d]
      /\ At("flush", s, d, f, K)
  BY <1>1, <1>2, AtWork
<1>4. Update(c, Flushed(c)) /\ Goto(c, s.then) /\ s.added \cap DOMAIN stored = {}
  BY DEF Flush, Violates
<1>5. Flushed(c) = v
  BY DEF Flushed, Touched
<1>6. a \in SUBSET AllKeys /\ {} \in SUBSET AllKeys /\ l \in SUBSET Datasets
  BY <1>3, SessionFields
<1> HIDE DEF d, f, K, l
<1>7. /\ t \in Sessions /\ t.sent = a /\ t.jobs = s.jobs /\ t.added = s.added /\ t.todo = s.todo
      /\ t.twice = s.twice /\ t.loaded = s.loaded /\ t.locks = s.locks /\ t.maker = s.maker
  BY <1>3, <1>6, SetSent
<1> HIDE DEF t, a
<1>8. /\ u \in Sessions /\ u.added = {} /\ u.jobs = t.jobs /\ u.sent = t.sent /\ u.todo = t.todo
      /\ u.twice = t.twice /\ u.loaded = t.loaded /\ u.locks = t.locks /\ u.maker = t.maker
  BY <1>6, <1>7, SetAdded
<1> HIDE DEF u
<1>9. /\ v \in Sessions /\ v.locks = l /\ v.jobs = u.jobs /\ v.sent = u.sent /\ v.todo = u.todo
      /\ v.added = u.added /\ v.loaded = u.loaded /\ v.twice = u.twice /\ v.maker = u.maker
  BY <1>6, <1>8, SetLocks
<1>10. Update(c, v)
  BY <1>4, <1>5
<1> HIDE DEF v
<1>11. /\ v.jobs = s.jobs /\ v.todo = s.todo /\ v.sent = s.sent \cup s.added /\ v.added = {}
       /\ v.twice = s.twice /\ v.locks = s.locks \cup {x \in Datasets : s.loaded[x] >= 0}
       /\ v.loaded = s.loaded /\ v.maker = s.maker
  BY <1>7, <1>8, <1>9 DEF a, l
<1>12. /\ s.then \in Busy /\ v.jobs = session[c].jobs /\ At(s.then, v, d, f, K)
       /\ Progress(session[c], v, d)
  <2> HIDE DEF s
  <2>0. Progress(s, v, d)
    BY <1>4, <1>11, SameKeys DEF Progress
  <2>1. s.then \in {"entity", "row"} /\ At(s.then, v, d, f, K)
    BY <1>3, <1>9, <1>11, AtFlush
  <2> QED
    BY <2>0, <2>1, <1>11 DEF Busy, s
<1> QED
  BY <1>1, <1>2, <1>3, <1>4, <1>9, <1>10, <1>12, WorkStep DEF d, f, K

\* A bank product's valid_until: "all" has no import after it.
LEMMA RowFailsStep ==
    ASSUME TypeInv, SessionInv, NEW c \in Callers, StoreRowFails(c)
    PROVE  Typed /\ Alone(c) /\ SessionAt(c)' /\ Fails(c)
<1> DEFINE d == Current(c)
           s == session[c]
           f == read[c][d]
<1>1. /\ pc[c] = "row" /\ Raise(c, "value") /\ Head(s.todo).defect = "valid_until"
      /\ UNCHANGED <<Store, read, overlapped>>
  BY DEF StoreRowFails, Record
<1>2. pc[c] \in Busy
  BY <1>1 DEF Busy
<1>3. /\ s \in Sessions /\ s.jobs \in Plans /\ d \in Datasets /\ f \in Files[d] /\ d = Head(s.jobs)
      /\ At("row", s, d, f, DOMAIN stored)
  BY <1>1, <1>2, AtWork
<1>4. s.todo # <<>>
  BY <1>3 DEF At, Place
<1>5. PICK n \in DOMAIN f.rows : Head(s.todo) = f.rows[n]
  <2>1. Maker("earlier", d) \in Makers(d)
    BY MakerFacts
  <2> HIDE DEF d, s, f
  <2> QED
    BY <1>3, <1>4, <2>1, RecordKeys, SMTT(60)
<1>6. f.rows[n].defect = "valid_until"
  BY <1>1, <1>5
<1>7. d = "bank_products"
  BY <1>3, <1>6, FileFacts
<1>8. ~(Len(s.jobs) > 1)
  BY <1>3, <1>7, PlanFacts DEF PlanOK
<1>9. ~Acceptable(d, f)
  BY <1>6 DEF Acceptable
<1>10. Typed /\ Alone(c) /\ Raised(c, "value")
  BY <1>1, <1>3, <1>8, RaiseEffect DEF Results
<1>11. SessionAt(c)'
  BY <1>3, <1>10, RaisedSession
<1>12. Fails(c)
  <2>1. "value" \in Results \ {"none", "ok"}
    BY DEF Results
  <2> QED
    BY <1>1, <1>2, <1>9, <1>10, <2>1 DEF Fails
<1> QED
  BY <1>10, <1>11, <1>12

LEMMA DatabaseFailsStep ==
    ASSUME TypeInv, SessionInv, NEW c \in Callers, FlushRefused(c) \/ LoseConnection(c)
    PROVE  Typed /\ Alone(c) /\ SessionAt(c)' /\ Fails(c)
<1>1. PICK kind \in {"width", "conflict", "lost"} :
          Raise(c, kind) /\ (kind = "conflict" => Violates(c))
  BY DEF FlushRefused, LoseConnection
<1>2. pc[c] \in {"flush", "commit"} /\ UNCHANGED <<Store, read, overlapped>>
  BY DEF FlushRefused, LoseConnection, Flushing
<1>3. pc[c] \in Busy
  BY <1>2 DEF Busy
<1>4. session[c].jobs \in Plans
  BY <1>3, AtWork
<1>5. kind \in Results \ {"none", "ok"} /\ ~Noted(kind)
  BY DEF Results, Noted
<1>6. Typed /\ Alone(c) /\ Raised(c, kind)
  BY <1>1, <1>4, <1>5, RaiseEffect
<1>7. SessionAt(c)'
  BY <1>4, <1>6, RaisedSession
<1>8. Fails(c)
  BY <1>1, <1>2, <1>3, <1>5, <1>6 DEF Fails
<1> QED
  BY <1>6, <1>7, <1>8

LEMMA CommitStep ==
    ASSUME TypeInv, SessionInv, NEW c \in Callers, Commit(c)
    PROVE  Typed /\ Alone(c) /\ SessionAt(c)' /\ Commits(c)
<1> DEFINE d == Current(c)
           s == session[c]
           j == s.jobs
<1>1. /\ pc[c] = "commit" /\ MayWrite(c) /\ ~Violates(c)
      /\ stored' = [k \in DOMAIN stored \cup (s.sent \cup s.added) |->
                      IF k \in s.sent \cup s.added THEN c ELSE stored[k]]
      /\ counts' = [x \in Datasets |-> IF x \in Touched(c) THEN s.loaded[x] ELSE counts[x]]
      /\ result' = [result EXCEPT ![c][d] = "ok"]
      /\ NextJob(c, NewSession(j))
      /\ UNCHANGED <<width, read, overlapped>>
  BY DEF Commit, Flushing
<1>2. pc[c] \in Busy
  BY <1>1 DEF Busy
<1>3. j \in Plans /\ d \in Datasets
  BY <1>2, AtWork
<1> HIDE DEF d, j
<1>4. /\ result' \in [Callers -> [Datasets -> Results]]
      /\ result'[c][d] = "ok"
      /\ \A x \in Datasets \ {d} : result'[c][x] = result[c][x]
      /\ \A o \in Callers \ {c} : result'[o] = result[o]
  <2>1. "ok" \in Results
    BY DEF Results
  <2> QED
    BY <1>1, <1>3, <2>1, ResultEffect
<1>5. NewSession(j) \in Sessions /\ NewSession(j).jobs = j /\ Fresh(NewSession(j))
  BY <1>3, NewSessionFacts
<1>6. /\ pc' \in [Callers -> {"idle", "done"} \cup Pending]
      /\ \A o \in Callers \ {c} : pc'[o] = pc[o]
      /\ session' \in [Callers -> Sessions] /\ Fresh(session'[c])
      /\ \A o \in Callers \ {c} : session'[o] = session[o]
      /\ answer' \in [Callers -> {0, 200, 424, 500}]
      /\ \A o \in Callers \ {c} : answer'[o] = answer[o]
      /\ Went2(c, NewSession(j))
  <2> DEFINE n == NewSession(j)
  <2>1. n \in Sessions /\ n.jobs \in Plans /\ Fresh(n) /\ NextJob(c, n)
    BY <1>1, <1>3, <1>5
  <2>2. Went2(c, NewSession(j)) <=> Went2(c, n)
    OBVIOUS
  <2> HIDE DEF n
  <2> QED
    BY <2>1, <2>2, NextJobEffect
<1>7. Went2(c, s)
  BY <1>5, <1>6 DEF Went2, j
<1>8. Typed /\ Alone(c)
  BY <1>4, <1>6 DEF Typed, Alone
<1>9. Commits(c)
  BY <1>1, <1>4, <1>6, <1>7 DEF Commits, d
<1>10. SessionAt(c)'
  <2>1. Len(j) > 1 => Tail(j) \in Plans
    BY <1>3, PlanFacts DEF PlanOK
  <2> QED
    BY <2>1, <1>6, <1>7 DEF SessionAt, Busy, Went2, j, Fresh
<1> QED
  BY <1>8, <1>9, <1>10

\* Every step of a request is one of these five.
Moves(c) == Begins(c) \/ Opens(c) \/ Works(c) \/ Fails(c) \/ Commits(c)

LEMMA Steps ==
    ASSUME TypeInv, SessionInv, NEW c \in Callers, Request(c) \/ Step(c) \/ LoseConnection(c)
    PROVE  Typed /\ Alone(c) /\ SessionAt(c)' /\ Moves(c)
BY RequestStep, OpenStep, SourceStep, EntityStep, RowStep, FlushStep, RowFailsStep,
   DatabaseFailsStep, CommitStep DEF Step, Moves

\* What a step reads, and that nothing committed is ever removed.
LEMMA Surroundings ==
    ASSUME TypeInv, SessionInv, NEW c \in Callers, Moves(c)
    PROVE  /\ \A o \in Callers \ {c} : read'[o] = read[o]
           /\ read' = read \/ (Current(c) \in Datasets /\ Reads(c))
           /\ DOMAIN stored \subseteq DOMAIN stored'
           /\ Commits(c) \/ UNCHANGED Store
           /\ width' = width
<1>1. CASE Begins(c) \/ Works(c)
  BY <1>1 DEF Begins, Works, Store
<1>2. CASE Opens(c) \/ Fails(c)
  <2>1. pc[c] = "open" => Current(c) \in Datasets
    BY CurrentFacts DEF SessionInv, SessionAt
  <2>2. UNCHANGED Store /\ (Reads(c) \/ read' = read)
    BY <1>2 DEF Opens, Fails, Reads
  <2> QED
    BY <2>1, <2>2 DEF Store, Reads
<1>3. CASE Commits(c)
  BY <1>3 DEF Commits
<1> QED
  BY <1>1, <1>2, <1>3 DEF Moves

LEMMA ReadTyped ==
    ASSUME TypeInv, SessionInv, NEW c \in Callers, Moves(c)
    PROVE  /\ read' \in FilesRead
           /\ \A o \in Callers, d \in Datasets : read'[o][d] \in Files[d] \cup {NoFile}
<1>1. CASE read' = read
  BY <1>1 DEF TypeInv
<1>2. CASE Current(c) \in Datasets /\ Reads(c)
  <2> DEFINE d == Current(c)
  <2>1. d \in Datasets /\ read' \in FilesRead
    BY <1>2 DEF Reads
  <2>2. /\ read'[c][d] \in Files[d]
        /\ \A x \in Datasets \ {d} : read'[c][x] = read[c][x]
        /\ \A o \in Callers \ {c} : read'[o] = read[o]
    BY <1>2 DEF Reads
  <2>3. \A o \in Callers, x \in Datasets : read[o][x] \in Files[x] \cup {NoFile}
    BY DEF TypeInv
  <2> HIDE DEF d
  <2> QED
    BY <2>1, <2>2, <2>3
<1> QED
  BY <1>1, <1>2, Surroundings

LEMMA StoreTyped ==
    ASSUME TypeInv, SessionInv, NEW c \in Callers, Moves(c)
    PROVE  /\ \A k \in DOMAIN stored' : IsKey(k)
           /\ counts' \in [Datasets -> Nat] /\ width' \in Widths
           /\ overlapped' \subseteq Datasets
<1>0. /\ \A k \in DOMAIN stored : IsKey(k)
      /\ counts \in [Datasets -> Nat] /\ width \in Widths /\ overlapped \subseteq Datasets
  BY DEF TypeInv, TypeOK, IsKey, KeyKinds
<1>1. overlapped' \subseteq Datasets
  <2>1. CASE overlapped' = overlapped
    BY <2>1, <1>0
  <2>2. CASE Reads(c)
    <3>1. Current(c) \in Datasets
      BY <2>2, CurrentFacts DEF SessionInv, SessionAt, Reads
    <3> QED
      BY <1>0, <2>2, <3>1 DEF Reads
  <2> QED
    BY <2>1, <2>2 DEF Moves, Begins, Opens, Works, Fails, Commits
<1>2. width' = width
  BY Surroundings
<1>3. CASE UNCHANGED Store
  BY <1>0, <1>1, <1>2, <1>3 DEF Store
<1>4. CASE Commits(c)
  <2>1. session[c] \in Sessions
    BY DEF TypeInv
  <2>2. session[c].sent \cup session[c].added \subseteq AllKeys /\ session[c].loaded \in [Datasets -> Int]
    BY <2>1, SessionFields
  <2>3. \A k \in DOMAIN stored' : IsKey(k)
    BY <1>0, <1>4, <2>2, AllKeysFacts DEF Commits
  <2>4. \A d \in Datasets : (IF d \in Touched(c) THEN session[c].loaded[d] ELSE counts[d]) \in Nat
    BY <1>0, <2>2 DEF Touched
  <2>5. counts' \in [Datasets -> Nat]
    BY <1>4, <2>4 DEF Commits
  <2> QED
    BY <1>0, <1>1, <1>2, <2>3, <2>5
<1> QED
  BY <1>3, <1>4, Surroundings

LEMMA InitTyped == Init => TypeInv /\ SessionInv
<1> SUFFICES ASSUME Init
             PROVE  TypeInv /\ SessionInv
  OBVIOUS
<1>1. PICK past \in Before :
          /\ stored = [k \in Earlier(past) |-> "earlier"]
          /\ counts = [d \in Datasets |-> Len(past[d])]
  BY DEF Init
<1>2. \A k \in DOMAIN stored : k[1] \in {"source", "entity", "row"} /\ k[2] \in Datasets
  BY <1>1, KeysOfAre DEF IsKey, KeyKinds, Earlier
<1>3. \A d \in Datasets : Len(past[d]) \in Nat
  BY ImportAssumption DEF IsSequence
<1>4. counts \in [Datasets -> Nat]
  BY <1>1, <1>3
<1>5. NewSession(<<>>) \in Sessions /\ NewSession(<<>>).jobs = <<>> /\ Fresh(NewSession(<<>>))
  BY NewSessionFacts
<1>6. \A c \in Callers : session[c] = NewSession(<<>>) /\ pc[c] = "idle"
  BY DEF Init
<1>7. session \in [Callers -> Sessions]
  BY <1>5 DEF Init
<1>8. TypeOK
  <2>1. \A c \in Callers : session[c].locks \subseteq Datasets
    BY <1>5, <1>6, SessionFields
  <2> QED
    BY <1>2, <1>4, <2>1 DEF Init, TypeOK, Results
<1>9. read \in FilesRead /\ \A c \in Callers, d \in Datasets : read[c][d] \in Files[d] \cup {NoFile}
  BY DEF Init, FilesRead
<1>10. SessionInv
  BY <1>5, <1>6 DEF SessionInv, SessionAt, Busy
<1> QED
  BY <1>7, <1>8, <1>9, <1>10 DEF TypeInv

LEMMA MoveStep ==
    ASSUME TypeInv, SessionInv, NEW c \in Callers, Request(c) \/ Step(c) \/ LoseConnection(c)
    PROVE  TypeInv' /\ SessionInv'
<1>1. Typed /\ Alone(c) /\ SessionAt(c)' /\ Moves(c)
  BY Steps
<1>2. TypeOK'
  <2>1. \A o \in Callers : session'[o].locks \subseteq Datasets
    BY <1>1, SessionFields DEF Typed
  <2> QED
    BY <1>1, <2>1, StoreTyped DEF Typed, TypeOK, IsKey, KeyKinds
<1>3. TypeInv'
  BY <1>1, <1>2, ReadTyped DEF TypeInv, Typed, FilesRead
<1>4. ASSUME NEW o \in Callers, o # c
      PROVE  SessionAt(o)'
  <2>1. /\ pc'[o] = pc[o] /\ session'[o] = session[o] /\ read'[o] = read[o]
        /\ DOMAIN stored \subseteq DOMAIN stored'
    BY <1>1, <1>4, Surroundings DEF Alone
  <2>2. SessionAt(o)
    BY DEF SessionInv
  <2>3. CASE pc[o] \in Busy
    <3>1. At(pc[o], session[o], Current(o), read[o][Current(o)], DOMAIN stored)
      BY <2>2, <2>3 DEF SessionAt
    <3>2. At(pc[o], session[o], Current(o), read[o][Current(o)], DOMAIN stored')
      BY <2>1, <3>1, AtGrows
    <3> QED
      BY <2>1, <2>3, <3>2 DEF SessionAt, Busy, Current
  <2>4. CASE pc[o] \notin Busy
    BY <2>1, <2>2, <2>4 DEF SessionAt, Fresh
  <2> QED
    BY <2>3, <2>4
<1> QED
  BY <1>1, <1>3, <1>4 DEF SessionInv

LEMMA TypeStep == TypeInv /\ SessionInv /\ [Next]_vars => TypeInv' /\ SessionInv'
<1> SUFFICES ASSUME TypeInv, SessionInv, [Next]_vars
             PROVE  TypeInv' /\ SessionInv'
  OBVIOUS
<1>1. CASE UNCHANGED vars
  <2>1. TypeInv'
    BY <1>1 DEF vars, TypeInv, TypeOK
  <2>2. SessionInv'
    BY <1>1 DEF vars, SessionInv, SessionAt, Current
  <2> QED
    BY <2>1, <2>2
<1> QED
  BY <1>1, MoveStep DEF Next, Answered

LEMMA TypeInvariant == Spec => [](TypeInv /\ SessionInv)
BY InitTyped, TypeStep, PTL DEF Spec

\* Every variable keeps its type, whatever files are read and whatever fails.
THEOREM TypeCorrect == Spec => []TypeOK
<1>1. TypeInv => TypeOK
  BY DEF TypeInv
<1> QED
  BY <1>1, TypeInvariant, PTL

(***************************************************************************)
(* What became of the imports, and the answer.                             *)
(***************************************************************************)
Costly == Results \ {"none", "ok", "missing", "value"}
ResultAt(c) ==
    /\ pc[c] = "idle" => \A d \in Datasets : result[c][d] = "none"
    /\ pc[c] \notin {"idle", "done"} =>
          \A n \in DOMAIN session[c].jobs : result[c][session[c].jobs[n]] = "none"
    /\ pc[c] = "done" <=> answer[c] # 0
    /\ \A d \in Datasets : result[c][d] \in {"missing", "value"} => ~Acceptable(d, read[c][d])
    /\ \A d \in Datasets : result[c][d] \in Costly => answer[c] = 500
    /\ answer[c] = 424 => \E d \in Datasets : \A x \in Datasets : result[c][x] # "none" <=> x = d
    /\ answer[c] = 500 => \E d \in Datasets : result[c][d] \in Costly
ResultInv == \A c \in Callers : ResultAt(c)

LEMMA PlanElements ==
    ASSUME NEW p \in Plans, NEW n \in DOMAIN p
    PROVE  p[n] \in Datasets
<1>1. CASE p = Jobs
  BY <1>1 DEF Datasets
<1>2. CASE p = <<"market_instruments", "inflation", "bank_products">>
  BY <1>2, DatasetsAre
<1>3. CASE p = <<"inflation", "bank_products">>
  BY <1>3, DatasetsAre
<1>4. ASSUME NEW d \in Datasets, p = <<d>>
      PROVE  p[n] \in Datasets
  BY <1>4
<1> QED
  BY <1>1, <1>2, <1>3, <1>4 DEF Plans

\* A request that is not idle and has not answered has an import to come, and
\* what it has still to import has no result yet.
LEMMA CurrentNone ==
    ASSUME TypeInv, SessionInv, ResultInv, NEW c \in Callers, pc[c] \notin {"idle", "done"}
    PROVE  /\ session[c].jobs \in Plans /\ Current(c) \in Datasets
           /\ result[c][Current(c)] = "none" /\ answer[c] = 0
<1>1. pc[c] \in Busy \/ pc[c] = "open"
  BY DEF TypeInv, TypeOK, Pending, Busy
<1>2. session[c].jobs \in Plans
  <2>1. CASE pc[c] \in Busy
    BY <2>1, AtWork
  <2>2. CASE pc[c] = "open"
    BY <2>2 DEF SessionInv, SessionAt
  <2> QED
    BY <1>1, <2>1, <2>2
<1>3. Current(c) \in Datasets /\ Current(c) = session[c].jobs[1] /\ 1 \in DOMAIN session[c].jobs
  BY <1>2, PlanFacts DEF PlanOK, Current
<1> QED
  BY <1>2, <1>3 DEF ResultInv, ResultAt

\* The imports to come of a request that goes on to the next one.
LEMMA NextNone ==
    ASSUME TypeInv, SessionInv, ResultInv, NEW c \in Callers, pc[c] \notin {"idle", "done"},
           \A x \in Datasets \ {Current(c)} : result'[c][x] = result[c][x],
           Went2(c, session[c])
    PROVE  \/ /\ pc'[c] = "open" /\ answer'[c] = 0
              /\ \A n \in DOMAIN session'[c].jobs : result'[c][session'[c].jobs[n]] = "none"
           \/ pc'[c] = "done" /\ answer'[c] = 200
<1>1. session[c].jobs \in Plans /\ answer[c] = 0
  BY CurrentNone
<1>2. CASE Len(session[c].jobs) > 1
  <2>1. pc'[c] = "open" /\ answer'[c] = 0 /\ session'[c].jobs = Tail(session[c].jobs)
    BY <1>1, <1>2 DEF Went2
  <2>2. ASSUME NEW n \in DOMAIN session'[c].jobs
        PROVE  result'[c][session'[c].jobs[n]] = "none"
    <3> DEFINE p == session[c].jobs
    <3>1. /\ Tail(p)[n] # Head(p) /\ \E m \in DOMAIN p : p[m] = Tail(p)[n]
      BY <1>1, <1>2, <2>1, PlanFacts DEF PlanOK
    <3>2. PICK m \in DOMAIN p : p[m] = Tail(p)[n]
      BY <3>1
    <3>3. p[m] \in Datasets \ {Current(c)}
      BY <1>1, <3>1, <3>2, PlanElements DEF Current
    <3>4. result[c][p[m]] = "none"
      BY DEF ResultInv, ResultAt
    <3> QED
      BY <2>1, <3>2, <3>3, <3>4
  <2> QED
    BY <2>1, <2>2
<1>3. CASE ~(Len(session[c].jobs) > 1)
  BY <1>3 DEF Went2
<1> QED
  BY <1>2, <1>3

LEMMA ResultBegins ==
    ASSUME TypeInv, SessionInv, ResultInv, NEW c \in Callers, Typed, Begins(c)
    PROVE  ResultAt(c)'
<1>1. /\ pc[c] = "idle" /\ pc'[c] = "open" /\ session'[c].jobs \in Plans
      /\ result' = result /\ read' = read /\ answer' = answer
  BY DEF Begins, Outcome
<1>2. ResultAt(c)
  BY DEF ResultInv
<1>3. \A n \in DOMAIN session'[c].jobs : result'[c][session'[c].jobs[n]] = "none"
  BY <1>1, <1>2, PlanElements DEF ResultAt
<1> QED
  BY <1>1, <1>2, <1>3 DEF ResultAt

LEMMA ResultOpens ==
    ASSUME TypeInv, SessionInv, ResultInv, NEW c \in Callers, Typed, Opens(c) \/ Works(c)
    PROVE  ResultAt(c)'
<1>1. /\ pc[c] \notin {"idle", "done"} /\ pc'[c] \notin {"idle", "done"}
      /\ session'[c].jobs = session[c].jobs /\ result' = result /\ answer' = answer
      /\ \A x \in Datasets \ {Current(c)} : read'[c][x] = read[c][x]
  BY DEF Opens, Reads, Works, Outcome, Busy
<1>2. ResultAt(c)
  BY DEF ResultInv
<1>3. result[c][Current(c)] = "none"
  BY <1>1, CurrentNone
<1>4. \A d \in Datasets : result'[c][d] \in {"missing", "value"} => ~Acceptable(d, read'[c][d])
  BY <1>1, <1>2, <1>3 DEF ResultAt
<1> QED
  BY <1>1, <1>2, <1>4 DEF ResultAt

LEMMA ResultFails ==
    ASSUME TypeInv, SessionInv, ResultInv, NEW c \in Callers, Typed, Fails(c)
    PROVE  ResultAt(c)'
<1> DEFINE d == Current(c)
<1>1. PICK kind \in Results \ {"none", "ok"} :
        /\ Raised(c, kind)
        /\ \/ Reads(c) /\ kind = Read(d, read'[c][d])
           \/ /\ pc[c] \in Busy /\ UNCHANGED <<read, overlapped>>
              /\ \/ kind = "value" /\ ~Acceptable(d, read[c][d])
                 \/ kind \in {"width", "lost"}
                 \/ kind = "conflict" /\ Violates(c)
  BY DEF Fails
<1>2. pc[c] \notin {"idle", "done"}
  BY <1>1 DEF Reads, Busy
<1>3. ResultAt(c) /\ d \in Datasets /\ result[c][d] = "none" /\ answer[c] = 0
  BY <1>2, CurrentNone DEF ResultInv
<1>4. \A x \in Datasets \ {d} : read'[c][x] = read[c][x] /\ result'[c][x] = result[c][x]
  BY <1>1 DEF Reads, Raised
<1>5. kind \in {"missing", "value"} => ~Acceptable(d, read'[c][d])
  BY <1>1 DEF Acceptable
<1>6. result'[c][d] = kind
  BY <1>1 DEF Raised
<1>7. \A x \in Datasets : result'[c][x] \in {"missing", "value"} => ~Acceptable(x, read'[c][x])
  <2> HIDE DEF d
  <2> QED
    BY <1>3, <1>4, <1>5, <1>6 DEF ResultAt
<1>8. \A x \in Datasets \ {d} : result'[c][x] \notin Costly
  BY <1>3, <1>4 DEF ResultAt
<1>9. kind \in Costly <=> ~Noted(kind)
  BY DEF Costly, Noted, Results
<1>10. CASE InAll(c) /\ Noted(kind) /\ Went2(c, session[c])
  <2>1. \/ /\ pc'[c] = "open" /\ answer'[c] = 0
           /\ \A n \in DOMAIN session'[c].jobs : result'[c][session'[c].jobs[n]] = "none"
        \/ pc'[c] = "done" /\ answer'[c] = 200
    BY <1>2, <1>4, <1>10, NextNone
  <2>2. \A x \in Datasets : result'[c][x] \notin Costly
    BY <1>6, <1>8, <1>9, <1>10
  <2> HIDE DEF d
  <2> QED
    BY <1>7, <2>1, <2>2 DEF ResultAt
<1>11. CASE /\ ~(InAll(c) /\ Noted(kind))
            /\ pc'[c] = "done" /\ answer'[c] = IF Noted(kind) THEN 424 ELSE 500
  <2>1. CASE Noted(kind)
    <3>1. ~InAll(c) /\ answer'[c] = 424
      BY <1>11, <2>1
    <3>2. \A x \in Datasets \ {d} : result'[c][x] = "none"
      BY <1>4, <3>1 DEF InAll
    <3>3. \A x \in Datasets : result'[c][x] # "none" <=> x = d
      BY <1>6, <3>2
    <3>4. \A x \in Datasets : result'[c][x] \notin Costly
      BY <1>6, <1>8, <1>9, <2>1
    <3> HIDE DEF d
    <3> QED
      BY <1>3, <1>7, <1>11, <3>1, <3>3, <3>4 DEF ResultAt
  <2>2. CASE ~Noted(kind)
    <3>1. answer'[c] = 500 /\ result'[c][d] \in Costly
      BY <1>6, <1>9, <1>11, <2>2
    <3> HIDE DEF d
    <3> QED
      BY <1>3, <1>7, <1>11, <3>1 DEF ResultAt
  <2> QED
    BY <2>1, <2>2
<1> QED
  BY <1>1, <1>10, <1>11 DEF Raised

LEMMA ResultCommits ==
    ASSUME TypeInv, SessionInv, ResultInv, NEW c \in Callers, Typed, Commits(c)
    PROVE  ResultAt(c)'
<1> DEFINE d == Current(c)
<1>1. /\ pc[c] = "commit" /\ read' = read /\ result'[c][d] = "ok" /\ Went2(c, session[c])
      /\ \A x \in Datasets \ {d} : result'[c][x] = result[c][x]
  BY DEF Commits
<1>2. ResultAt(c) /\ d \in Datasets /\ answer[c] = 0
  BY <1>1, CurrentNone DEF ResultInv
<1>3. \/ /\ pc'[c] = "open" /\ answer'[c] = 0
         /\ \A n \in DOMAIN session'[c].jobs : result'[c][session'[c].jobs[n]] = "none"
      \/ pc'[c] = "done" /\ answer'[c] = 200
  BY <1>1, NextNone
<1>4. "ok" \notin Costly
  BY DEF Costly
<1> HIDE DEF d
<1>5. /\ \A x \in Datasets : result'[c][x] \in {"missing", "value"} => ~Acceptable(x, read'[c][x])
      /\ \A x \in Datasets : result'[c][x] \notin Costly
  BY <1>1, <1>2, <1>4 DEF ResultAt
<1> QED
  BY <1>3, <1>5 DEF ResultAt

LEMMA ResultInit == Init => ResultInv
<1> SUFFICES ASSUME Init
             PROVE  ResultInv
  OBVIOUS
<1>1. \A c \in Callers : pc[c] = "idle" /\ answer[c] = 0 /\ \A d \in Datasets : result[c][d] = "none"
  BY DEF Init
<1> QED
  BY <1>1 DEF ResultInv, ResultAt, Costly

\* A request is not disturbed by the others.
LEMMA ResultOthers ==
    ASSUME ResultInv, NEW c \in Callers, Alone(c), NEW o \in Callers, o # c, read'[o] = read[o]
    PROVE  ResultAt(o)'
<1>1. ResultAt(o)
  BY DEF ResultInv
<1>2. /\ pc'[o] = pc[o] /\ session'[o] = session[o] /\ result'[o] = result[o] /\ answer'[o] = answer[o]
  BY DEF Alone
<1> QED
  BY <1>1, <1>2 DEF ResultAt

LEMMA ResultStep ==
    TypeInv /\ SessionInv /\ ResultInv /\ [Next]_vars => ResultInv'
<1> SUFFICES ASSUME TypeInv, SessionInv, ResultInv, [Next]_vars
             PROVE  ResultInv'
  OBVIOUS
<1>1. CASE UNCHANGED vars
  BY <1>1 DEF vars, ResultInv, ResultAt
<1>2. ASSUME NEW c \in Callers, Request(c) \/ Step(c) \/ LoseConnection(c)
      PROVE  ResultInv'
  <2>1. Typed /\ Alone(c) /\ Moves(c)
    BY <1>2, Steps
  <2>2. ResultAt(c)'
    BY <2>1, ResultBegins, ResultOpens, ResultFails, ResultCommits DEF Moves
  <2>3. \A o \in Callers \ {c} : ResultAt(o)'
    BY <2>1, Surroundings, ResultOthers
  <2> QED
    BY <2>2, <2>3 DEF ResultInv
<1> QED
  BY <1>1, <1>2 DEF Next, Answered

LEMMA ResultInvariant == Spec => []ResultInv
BY ResultInit, ResultStep, TypeInvariant, PTL DEF Spec

LEMMA ResultsIndependent == TypeInv /\ ResultInv => Independent
<1> SUFFICES ASSUME TypeInv, ResultInv, NEW c \in Callers
             PROVE  LET asked == {d \in Datasets : result[c][d] # "none"}
                    IN  /\ answer[c] = 200 =>
                              \A d \in asked : Acceptable(d, read[c][d]) => result[c][d] = "ok"
                        /\ answer[c] = 424 => Cardinality(asked) = 1
                        /\ answer[c] = 500 => \E d \in asked : result[c][d] \notin {"ok", "missing", "value"}
  BY DEF Independent
<1> DEFINE asked == {d \in Datasets : result[c][d] # "none"}
<1>1. ResultAt(c) /\ \A d \in Datasets : result[c][d] \in Results
  BY DEF ResultInv, TypeInv, TypeOK
<1>2. ASSUME answer[c] = 200, NEW d \in asked, Acceptable(d, read[c][d])
      PROVE  result[c][d] = "ok"
  BY <1>1, <1>2 DEF ResultAt, Costly
<1>3. ASSUME answer[c] = 424
      PROVE  Cardinality(asked) = 1
  <2>1. PICK d \in Datasets : \A x \in Datasets : result[c][x] # "none" <=> x = d
    BY <1>1, <1>3 DEF ResultAt
  <2>2. asked = {d}
    BY <2>1
  <2> QED
    BY <2>2, FS_Singleton
<1>4. ASSUME answer[c] = 500
      PROVE  \E d \in asked : result[c][d] \notin {"ok", "missing", "value"}
  BY <1>1, <1>4 DEF ResultAt, Costly
<1> QED
  BY <1>2, <1>3, <1>4

\* One import of "all" that is refused takes no other one with it, and a request
\* fails with 500 only for the database or an unreadable file.
THEOREM NoneDragsAnother == Spec => []Independent
BY ResultsIndependent, ResultInvariant, TypeInvariant, PTL

(***************************************************************************)
(* All or nothing.                                                         *)
(***************************************************************************)
HoldsIn(K, d, rows) ==
    \A n \in DOMAIN rows : SourceKey(d) \in K /\ \E m \in Makers(d) : Both(d, rows[n], m, K)

LEMMA HoldsGrows ==
    ASSUME NEW K, NEW L, K \subseteq L, NEW d, NEW rows, HoldsIn(K, d, rows)
    PROVE  HoldsIn(L, d, rows)
BY DEF HoldsIn, Both

WholeInv ==
    \A c \in Callers :
        /\ \A d \in Datasets :
              result[c][d] = "ok" => HoldsIn(DOMAIN stored, d, read[c][d].rows)
        /\ \A k \in DOMAIN stored : stored[k] = c => result[c][k[2]] = "ok"

LEMMA WholeInit == Init => WholeInv
<1> SUFFICES ASSUME Init
             PROVE  WholeInv
  OBVIOUS
<1>1. \A k \in DOMAIN stored : stored[k] \notin Callers
  BY ImportAssumption DEF Init
<1>2. \A c \in Callers, d \in Datasets : result[c][d] = "none"
  BY DEF Init
<1> QED
  BY <1>1, <1>2 DEF WholeInv

\* An import that commits has, or finds, every row of its file, and has none of
\* another dataset.
LEMMA CommitsWhole ==
    ASSUME TypeInv, SessionInv, NEW c \in Callers, Commits(c)
    PROVE  /\ HoldsIn(DOMAIN stored', Current(c), read[c][Current(c)].rows)
           /\ \A k \in session[c].sent \cup session[c].added : k[2] = Current(c)
           /\ Current(c) \in Datasets
<1> DEFINE d == Current(c)
           f == read[c][d]
           s == session[c]
           K == DOMAIN stored
<1>1. pc[c] = "commit" /\ pc[c] \in Busy
  BY DEF Commits, Busy
<1>2. At("commit", s, d, f, K) /\ d \in Datasets /\ s \in Sessions /\ f \in Files[d]
  BY <1>1, AtWork
<1>3. DOMAIN stored' = Have(s, K)
  BY DEF Commits, Have
<1> HIDE DEF d, f, s, K
<1>4. Place("commit", s, f) /\ Kept("commit", s, d, f, K) /\ Own("commit", s, d, f)
  BY <1>2 DEF At
<1>5. Stage(s, f) = Len(f.rows) /\ DOMAIN f.rows = 1..Len(f.rows)
  BY <1>2, <1>4, StageFacts DEF Place
<1>6. HoldsIn(Have(s, K), d, f.rows)
  BY <1>2, <1>4, <1>5 DEF Kept, HoldsIn
<1>7. \A k \in s.sent \cup s.added : k[2] = d
  BY <1>4 DEF Own
<1> QED
  BY <1>2, <1>3, <1>6, <1>7 DEF d, f, s, K

LEMMA WholeStep ==
    TypeInv /\ SessionInv /\ ResultInv /\ WholeInv /\ [Next]_vars => WholeInv'
<1> SUFFICES ASSUME TypeInv, SessionInv, ResultInv, WholeInv, [Next]_vars
             PROVE  WholeInv'
  OBVIOUS
<1>1. CASE UNCHANGED vars
  BY <1>1 DEF vars, WholeInv
<1>2. ASSUME NEW c \in Callers, Request(c) \/ Step(c) \/ LoseConnection(c)
      PROVE  WholeInv'
  <2>1. Typed /\ Alone(c) /\ Moves(c)
    BY <1>2, Steps
  <2>2. /\ \A o \in Callers \ {c} : read'[o] = read[o] /\ result'[o] = result[o]
        /\ DOMAIN stored \subseteq DOMAIN stored'
    BY <2>1, Surroundings DEF Alone
  <2>3. \A k \in DOMAIN stored : k[2] \in Datasets
    BY DEF TypeInv, TypeOK
  <2>4. CASE Begins(c) \/ Works(c)
    <3>1. stored' = stored /\ read' = read /\ result' = result
      BY <2>4 DEF Begins, Works, Store, Outcome
    <3> QED
      BY <3>1 DEF WholeInv
  <2>5. CASE Opens(c) \/ Fails(c)
    <3>1. /\ stored' = stored /\ pc[c] \notin {"idle", "done"}
          /\ \A x \in Datasets \ {Current(c)} : read'[c][x] = read[c][x] /\ result'[c][x] = result[c][x]
          /\ result'[c][Current(c)] # "ok" \/ result' = result
      BY <2>5 DEF Opens, Fails, Reads, Raised, Store, Outcome, Busy
    <3>2. result[c][Current(c)] = "none" /\ Current(c) \in Datasets
      BY <3>1, CurrentNone
    <3>3. ASSUME NEW d \in Datasets, result'[c][d] = "ok"
          PROVE  HoldsIn(DOMAIN stored', d, read'[c][d].rows)
      BY <3>1, <3>2, <3>3 DEF WholeInv
    <3>4. ASSUME NEW k \in DOMAIN stored', stored'[k] = c
          PROVE  result'[c][k[2]] = "ok"
      BY <2>3, <3>1, <3>2, <3>4 DEF WholeInv
    <3> QED
      BY <2>2, <3>1, <3>3, <3>4 DEF WholeInv
  <2>6. CASE Commits(c)
    <3>1. /\ read' = read /\ result'[c][Current(c)] = "ok"
          /\ \A x \in Datasets \ {Current(c)} : result'[c][x] = result[c][x]
          /\ \A k \in DOMAIN stored' :
                \/ k \in session[c].sent \cup session[c].added /\ stored'[k] = c
                \/ k \in DOMAIN stored /\ stored'[k] = stored[k]
      BY <2>6 DEF Commits
    <3>2. /\ HoldsIn(DOMAIN stored', Current(c), read[c][Current(c)].rows)
          /\ \A k \in session[c].sent \cup session[c].added : k[2] = Current(c)
          /\ Current(c) \in Datasets
      BY <2>6, CommitsWhole
    <3>3. ASSUME NEW d \in Datasets, result'[c][d] = "ok"
          PROVE  HoldsIn(DOMAIN stored', d, read'[c][d].rows)
      BY <2>2, <3>1, <3>2, <3>3, HoldsGrows DEF WholeInv
    <3>4. ASSUME NEW k \in DOMAIN stored', stored'[k] = c
          PROVE  result'[c][k[2]] = "ok"
      BY <2>3, <3>1, <3>2, <3>4 DEF WholeInv
    <3>5. ASSUME NEW o \in Callers \ {c}, NEW k \in DOMAIN stored', stored'[k] = o
          PROVE  result'[o][k[2]] = "ok"
      BY <2>2, <3>1, <3>5 DEF WholeInv
    <3>6. ASSUME NEW o \in Callers \ {c}, NEW d \in Datasets, result'[o][d] = "ok"
          PROVE  HoldsIn(DOMAIN stored', d, read'[o][d].rows)
      BY <2>2, <3>6, HoldsGrows DEF WholeInv
    <3> QED
      BY <3>3, <3>4, <3>5, <3>6 DEF WholeInv
  <2> QED
    BY <2>1, <2>4, <2>5, <2>6 DEF Moves
<1> QED
  BY <1>1, <1>2 DEF Next, Answered

LEMMA WholeInvariant == Spec => []WholeInv
BY WholeInit, WholeStep, TypeInvariant, ResultInvariant, PTL DEF Spec

\* An import is all or nothing: of one that succeeded every row is there, and no
\* row is there of one that did not, alone, within "all" and next to others.
THEOREM AllOrNothing == Spec => []WholeFiles
<1>1. TypeInv /\ WholeInv => WholeFiles
  BY DEF TypeInv, TypeOK, WholeInv, WholeFiles, Holds, HoldsIn, Both
<1> QED
  BY <1>1, WholeInvariant, TypeInvariant, PTL

(***************************************************************************)
(* Conflicts.                                                              *)
(***************************************************************************)
Excused(c, d) == d \in overlapped \/ (d \notin FlushEach /\ RepeatsKey(d, read[c][d].rows))
OverlapInv ==
    /\ \A c, o \in Callers :
          c # o /\ pc[c] \in Busy /\ pc[o] \in Busy /\ Current(c) = Current(o) => Current(c) \in overlapped
    /\ \A c \in Callers :
          pc[c] \in Busy /\ session[c].added \cap DOMAIN stored # {} => Current(c) \in overlapped
    /\ \A c \in Callers : \A d \in Datasets : result[c][d] = "conflict" => Excused(c, d)

LEMMA OverlapInit == Init => OverlapInv
BY DEF Init, OverlapInv, Busy

LEMMA OverlapGrows ==
    ASSUME NEW c, Moves(c)
    PROVE  overlapped \subseteq overlapped'
BY DEF Moves, Begins, Opens, Reads, Works, Fails, Commits

\* Where the other requests are.
LEMMA OthersAt ==
    ASSUME NEW c \in Callers, Alone(c), NEW o \in Callers, o # c
    PROVE  pc'[o] = pc[o] /\ session'[o] = session[o] /\ Current(o)' = Current(o)
BY DEF Alone, Current

\* The first two parts: a step of c.
LEMMA OverlapPairs ==
    ASSUME TypeInv, SessionInv, OverlapInv, NEW c \in Callers, Alone(c), Moves(c),
           NEW o \in Callers, o # c, pc'[c] \in Busy, pc'[o] \in Busy, Current(c)' = Current(o)'
    PROVE  Current(c)' \in overlapped'
<1>1. pc[o] \in Busy /\ Current(o)' = Current(o)
  BY OthersAt
<1>2. CASE Works(c)
  <2>1. pc[c] \in Busy /\ Current(c)' = Current(c)
    BY <1>2 DEF Works, Current
  <2> QED
    BY <1>1, <2>1, OverlapGrows DEF OverlapInv
<1>3. CASE Opens(c)
  <2>1. Current(c)' = Current(c)
    BY <1>3 DEF Opens, Current
  <2>2. Importing(o)
    <3>1. session[o].jobs \in Plans
      BY <1>1, AtWork
    <3> QED
      BY <1>1, <3>1, PlanFacts DEF PlanOK, Importing, Busy, Pending
  <2> QED
    BY <1>1, <1>3, <2>1, <2>2 DEF Opens, Reads
<1>4. ~Begins(c) /\ ~Fails(c) /\ ~Commits(c)
  BY DEF Begins, Fails, Raised, Commits, Went2, Busy
<1> QED
  BY <1>2, <1>3, <1>4 DEF Moves

LEMMA OverlapAdded ==
    ASSUME TypeInv, SessionInv, OverlapInv, NEW c \in Callers, Alone(c), Moves(c),
           NEW o \in Callers, pc'[o] \in Busy, session'[o].added \cap DOMAIN stored' # {}
    PROVE  Current(o)' \in overlapped'
<1>1. CASE o = c
  <2>1. CASE Works(c)
    <3>1. /\ pc[c] \in Busy /\ Current(c)' = Current(c) /\ stored' = stored
          /\ session'[c].added \cap DOMAIN stored \subseteq session[c].added
      BY <2>1 DEF Works, Current, Store, Progress
    <3> QED
      BY <1>1, <3>1, OverlapGrows DEF OverlapInv
  <2>2. ~Opens(c) /\ ~Begins(c) /\ ~Fails(c) /\ ~Commits(c)
    BY <1>1 DEF Opens, Begins, Fails, Raised, Commits, Went2, Busy
  <2> QED
    BY <2>1, <2>2 DEF Moves
<1>2. CASE o # c
  <2>1. pc[o] \in Busy /\ session'[o] = session[o] /\ Current(o)' = Current(o)
    BY <1>2, OthersAt
  <2>2. CASE UNCHANGED Store
    <3>1. stored' = stored
      BY <2>2 DEF Store
    <3> QED
      BY <2>1, <3>1, OverlapGrows DEF OverlapInv
  <2>3. CASE Commits(c)
    <3>1. PICK k \in session[o].added : k \in DOMAIN stored'
      BY <2>1
    <3>2. CASE k \in DOMAIN stored
      BY <2>1, <3>1, <3>2, OverlapGrows DEF OverlapInv
    <3>3. CASE k \in session[c].sent \cup session[c].added
      <4>1. k[2] = Current(c) /\ pc[c] \in Busy
        BY <2>3, <3>3, CommitsWhole DEF Commits, Busy
      <4>2. k[2] = Current(o)
        <5>1. At(pc[o], session[o], Current(o), read[o][Current(o)], DOMAIN stored)
          BY <2>1, AtWork
        <5> QED
          BY <3>1, <5>1 DEF At, Own
      <4> QED
        BY <1>2, <2>1, <4>1, <4>2, OverlapGrows DEF OverlapInv
    <3> QED
      BY <2>3, <3>1, <3>2, <3>3 DEF Commits
  <2> QED
    BY <2>2, <2>3, Surroundings
<1> QED
  BY <1>1, <1>2

\* A violated key has a cause.
LEMMA ViolationExcused ==
    ASSUME TypeInv, SessionInv, OverlapInv, NEW c \in Callers, pc[c] \in Busy, Violates(c)
    PROVE  Excused(c, Current(c))
<1> DEFINE d == Current(c)
           s == session[c]
           f == read[c][d]
<1>1. At(pc[c], s, d, f, DOMAIN stored)
  BY AtWork
<1>2. CASE s.twice
  <2>1. d \notin FlushEach /\ RepeatsKey(d, f.rows)
    BY <1>1, <1>2 DEF At, Twice
  <2> QED
    BY <2>1 DEF Excused
<1>3. CASE s.added \cap DOMAIN stored # {}
  BY <1>3 DEF OverlapInv, Excused
<1>4. s.added \cap s.sent = {}
  BY <1>1 DEF At, Own
<1> QED
  BY <1>2, <1>3, <1>4 DEF Violates

LEMMA OverlapResults ==
    ASSUME TypeInv, SessionInv, ResultInv, OverlapInv, NEW c \in Callers, Alone(c), Moves(c),
           NEW o \in Callers, NEW d \in Datasets, result'[o][d] = "conflict"
    PROVE  Excused(o, d)'
<1>1. CASE result[o][d] = "conflict" /\ read'[o][d] = read[o][d]
  <2>1. Excused(o, d) /\ overlapped \subseteq overlapped'
    BY <1>1, OverlapGrows DEF OverlapInv
  <2> QED
    BY <1>1, <2>1 DEF Excused
<1>2. CASE o # c
  BY <1>1, <1>2, Surroundings DEF Alone
<1>3. CASE o = c /\ (Begins(c) \/ Works(c))
  BY <1>1, <1>3 DEF Begins, Works, Outcome
<1>4. CASE o = c /\ Opens(c)
  <2>1. result[c][Current(c)] = "none"
    <3>1. pc[c] \notin {"idle", "done"}
      BY <1>4 DEF Opens, Reads
    <3> QED
      BY <3>1, CurrentNone
  <2> QED
    BY <1>1, <1>4, <2>1 DEF Opens, Reads, Outcome
<1>5. CASE o = c /\ Commits(c)
  BY <1>1, <1>5 DEF Commits
<1>6. CASE o = c /\ Fails(c)
  <2>1. PICK kind \in Results \ {"none", "ok"} :
          /\ Raised(c, kind)
          /\ \/ Reads(c) /\ kind = Read(Current(c), read'[c][Current(c)])
             \/ /\ pc[c] \in Busy /\ UNCHANGED <<read, overlapped>>
                /\ \/ kind = "value" /\ ~Acceptable(Current(c), read[c][Current(c)])
                   \/ kind \in {"width", "lost"}
                   \/ kind = "conflict" /\ Violates(c)
    BY <1>6 DEF Fails
  <2>2. CASE d # Current(c)
    <3>1. result'[c][d] = result[c][d] /\ read'[c][d] = read[c][d]
      BY <2>1, <2>2 DEF Raised, Reads
    <3> QED
      BY <1>1, <1>6, <3>1
  <2>3. CASE d = Current(c)
    <3>1. kind = "conflict"
      BY <1>6, <2>1, <2>3 DEF Raised
    <3>2. CASE Reads(c) /\ kind = Read(d, read'[c][d])
      <4>1. Read(d, read'[c][d]) \in {"ok", "missing", "value", "broken"}
        BY <2>3, <3>2, FileFacts DEF Reads
      <4> QED
        BY <3>1, <3>2, <4>1
    <3>3. CASE pc[c] \in Busy /\ UNCHANGED <<read, overlapped>> /\ Violates(c)
      <4>1. Excused(c, Current(c))
        BY <3>3, ViolationExcused
      <4> QED
        BY <1>6, <2>3, <3>3, <4>1 DEF Excused
    <3> QED
      BY <2>1, <2>3, <3>1, <3>2, <3>3
  <2> QED
    BY <2>2, <2>3
<1> QED
  BY <1>2, <1>3, <1>4, <1>5, <1>6 DEF Moves

LEMMA OverlapStep ==
    TypeInv /\ SessionInv /\ ResultInv /\ OverlapInv /\ [Next]_vars => OverlapInv'
<1> SUFFICES ASSUME TypeInv, SessionInv, ResultInv, OverlapInv, [Next]_vars
             PROVE  OverlapInv'
  OBVIOUS
<1>1. CASE UNCHANGED vars
  BY <1>1 DEF vars, OverlapInv, Excused, Current
<1>2. ASSUME NEW c \in Callers, Request(c) \/ Step(c) \/ LoseConnection(c)
      PROVE  OverlapInv'
  <2>1. Alone(c) /\ Moves(c)
    BY <1>2, Steps
  <2>2. ASSUME NEW a \in Callers, NEW b \in Callers,
               a # b, pc'[a] \in Busy, pc'[b] \in Busy, Current(a)' = Current(b)'
        PROVE  Current(a)' \in overlapped'
    <3>1. CASE a = c
      BY <2>1, <2>2, <3>1, OverlapPairs
    <3>2. CASE b = c
      BY <2>1, <2>2, <3>2, OverlapPairs
    <3>3. CASE a # c /\ b # c
      <4>1. pc[a] \in Busy /\ pc[b] \in Busy /\ Current(a)' = Current(a) /\ Current(b)' = Current(b)
        BY <2>1, <2>2, <3>3, OthersAt
      <4> QED
        BY <2>1, <2>2, <4>1, OverlapGrows DEF OverlapInv
    <3> QED
      BY <3>1, <3>2, <3>3
  <2>3. \A o \in Callers : pc'[o] \in Busy /\ session'[o].added \cap DOMAIN stored' # {} => Current(o)' \in overlapped'
    BY <2>1, OverlapAdded
  <2>4. \A o \in Callers : \A d \in Datasets : result'[o][d] = "conflict" => Excused(o, d)'
    BY <2>1, OverlapResults
  <2> QED
    BY <2>2, <2>3, <2>4 DEF OverlapInv
<1> QED
  BY <1>1, <1>2 DEF Next, Answered

LEMMA OverlapInvariant == Spec => []OverlapInv
BY OverlapInit, OverlapStep, TypeInvariant, ResultInvariant, PTL DEF Spec

(***************************************************************************)
(* Entities that may be there twice.  As long as no two requests import a  *)
(* dataset at a time, what is committed and what one of them has besides   *)
(* has every entity once.                                                  *)
(***************************************************************************)
Lone(d, S) == \A k, l \in S : k[2] = d => ~Twins(k, l)

TwinsInv ==
    /\ \A k \in DOMAIN stored : Shaped(k)
    /\ \A d \in Datasets \ overlapped : Lone(d, DOMAIN stored)
    /\ \A c \in Callers : pc[c] \in Busy /\ Current(c) \notin overlapped =>
          Lone(Current(c), Have(session[c], DOMAIN stored))

LEMMA LoneGrows ==
    ASSUME NEW d, NEW S, Lone(d, S), \A x \in S : Shaped(x), NEW k,
           k \in S \/ k[1] # "entity" \/ \A m \in Makers(d) : <<"entity", d, k[3], m>> \notin S,
           NEW T, T \subseteq S \cup {k}
    PROVE  Lone(d, T)
<1> SUFFICES ASSUME NEW a \in T, NEW b \in T, a[2] = d, Twins(a, b)
             PROVE  FALSE
  BY DEF Lone
<1>1. a[1] = "entity" /\ b[1] = "entity" /\ b[2] = d /\ a[3] = b[3] /\ a # b
  BY DEF Twins
<1>2. ASSUME NEW x \in S, x[1] = "entity", x[2] = d, x[3] = k[3], k[1] = "entity", k \notin S
      PROVE  FALSE
  <2>1. x = <<"entity", d, k[3], x[4]>> /\ x[4] \in Makers(d)
    BY <1>2 DEF Shaped
  <2> QED
    BY <1>2, <2>1
<1>3. ~(a \in S /\ b \in S)
  BY DEF Lone
<1> QED
  BY <1>1, <1>2, <1>3

LEMMA LoneBeside ==
    ASSUME NEW d, NEW S, Lone(d, S), NEW T, \A x \in T : x \in S \/ x[2] # d
    PROVE  Lone(d, T)
BY DEF Lone, Twins

LEMMA TwinsInit == Init => TwinsInv
<1> SUFFICES ASSUME Init
             PROVE  TwinsInv
  OBVIOUS
<1>1. PICK past \in Before : stored = [k \in Earlier(past) |-> "earlier"]
  BY DEF Init
<1>2. ASSUME NEW k \in DOMAIN stored
      PROVE  /\ Shaped(k)
             /\ k[1] = "entity" => k = <<"entity", k[2], k[3], Maker("earlier", k[2])>>
  <2>1. PICK d \in Datasets : k \in KeysOf(d, past[d], Maker("earlier", d))
    BY <1>1 DEF Earlier
  <2>2. k[2] = d
    BY <2>1, KeysOfAre
  <2>3. Shaped(k) /\ (k[1] = "entity" => k[4] = Maker("earlier", d))
    BY <2>1, MakerFacts, KeysShaped
  <2> QED
    BY <2>2, <2>3 DEF Shaped
<1>3. \A k, l \in DOMAIN stored : ~Twins(k, l)
  <2> SUFFICES ASSUME NEW k \in DOMAIN stored, NEW l \in DOMAIN stored, Twins(k, l)
               PROVE  FALSE
    OBVIOUS
  <2>1. k = <<"entity", k[2], k[3], Maker("earlier", k[2])>> /\ k[1] = "entity" /\ l[1] = "entity"
    BY <1>2 DEF Twins
  <2>2. l = <<"entity", l[2], l[3], Maker("earlier", l[2])>> /\ k[2] = l[2] /\ k[3] = l[3] /\ k # l
    BY <1>2 DEF Twins
  <2> QED
    BY <2>1, <2>2
<1>4. \A c \in Callers : pc[c] \notin Busy
  BY DEF Init, Busy
<1> QED
  BY <1>2, <1>3, <1>4 DEF TwinsInv, Lone

\* What a request has sent or added has the shape of a key too.
LEMMA HaveShaped ==
    ASSUME TypeInv, TwinsInv, NEW c \in Callers, NEW k \in Have(session[c], DOMAIN stored)
    PROVE  Shaped(k)
<1>1. session[c].sent \subseteq AllKeys /\ session[c].added \subseteq AllKeys
  BY SessionFields DEF TypeInv
<1> QED
  BY <1>1, AllKeysFacts DEF Have, TwinsInv

LEMMA TwinsCommit ==
    ASSUME TypeInv, SessionInv, OverlapInv, TwinsInv, NEW c \in Callers, Alone(c), Commits(c)
    PROVE  TwinsInv'
<1>1. /\ pc[c] \in Busy /\ overlapped' = overlapped /\ pc'[c] \notin Busy
      /\ DOMAIN stored' = Have(session[c], DOMAIN stored)
  BY DEF Commits, Went2, Busy, Have
<1>2. \A k \in session[c].sent \cup session[c].added : k[2] = Current(c)
  BY CommitsWhole
<1>3. \A k \in DOMAIN stored' : Shaped(k) /\ (k \in DOMAIN stored \/ k[2] = Current(c))
  BY <1>1, <1>2, HaveShaped DEF Have
<1>4. ASSUME NEW d \in Datasets \ overlapped
      PROVE  Lone(d, DOMAIN stored')
  <2>1. CASE d = Current(c)
    BY <1>1, <1>4, <2>1 DEF TwinsInv
  <2>2. CASE d # Current(c)
    <3>1. Lone(d, DOMAIN stored) /\ \A x \in DOMAIN stored' : x \in DOMAIN stored \/ x[2] # d
      BY <1>3, <1>4, <2>2 DEF TwinsInv
    <3> QED
      BY <3>1, LoneBeside
  <2> QED
    BY <2>1, <2>2
<1>5. ASSUME NEW o \in Callers, pc'[o] \in Busy, Current(o)' \notin overlapped'
      PROVE  Lone(Current(o), Have(session[o], DOMAIN stored))'
  <2>1. o # c /\ pc[o] \in Busy /\ session'[o] = session[o] /\ Current(o)' = Current(o)
    BY <1>1, <1>5, OthersAt
  <2> DEFINE d == Current(o)
             S == Have(session[o], DOMAIN stored)
             T == Have(session[o], DOMAIN stored')
  <2>2. Current(c) # d /\ Lone(d, S)
    BY <1>1, <1>5, <2>1 DEF OverlapInv, TwinsInv
  <2>3. \A x \in T : x \in S \/ x[2] # d
    BY <1>3, <2>2 DEF Have
  <2> HIDE DEF S
  <2>4. Lone(d, T)
    <3> HIDE DEF T, d
    <3> QED
      BY <2>2, <2>3, LoneBeside
  <2> QED
    BY <2>1, <2>4
<1> QED
  BY <1>1, <1>3, <1>4, <1>5 DEF TwinsInv

LEMMA TwinsMove ==
    ASSUME TypeInv, SessionInv, OverlapInv, TwinsInv, NEW c \in Callers, Alone(c), Moves(c), ~Commits(c)
    PROVE  TwinsInv'
<1>1. stored' = stored /\ overlapped \subseteq overlapped'
  BY Surroundings, OverlapGrows DEF Store
<1>2. \A d \in Datasets \ overlapped' : Lone(d, DOMAIN stored')
  BY <1>1 DEF TwinsInv
<1>3. ASSUME NEW o \in Callers \ {c}, pc'[o] \in Busy, Current(o)' \notin overlapped'
      PROVE  Lone(Current(o), Have(session[o], DOMAIN stored))'
  <2>1. pc[o] \in Busy /\ session'[o] = session[o] /\ Current(o)' = Current(o)
    BY <1>3, OthersAt
  <2> QED
    BY <1>1, <1>3, <2>1 DEF TwinsInv
<1>4. ASSUME pc'[c] \in Busy, Current(c)' \notin overlapped'
      PROVE  Lone(Current(c), Have(session[c], DOMAIN stored))'
  <2>1. CASE Opens(c)
    <3>1. Current(c)' = Current(c) /\ session'[c].sent = {} /\ session'[c].added = {}
      BY <2>1 DEF Opens, Current
    <3>2. Current(c) \in Datasets
      BY <2>1, CurrentFacts DEF SessionInv, SessionAt, Opens, Reads
    <3>3. Have(session'[c], DOMAIN stored') = DOMAIN stored'
      BY <3>1 DEF Have
    <3> QED
      BY <1>2, <1>4, <3>1, <3>2, <3>3
  <2>2. CASE Works(c)
    <3> DEFINE d == Current(c)
               s == session[c]
               t == session'[c]
               S == Have(s, DOMAIN stored)
               T == Have(t, DOMAIN stored)
    <3>1. pc[c] \in Busy /\ Current(c)' = d /\ OneMore(s, t, d, DOMAIN stored)
      BY <2>2 DEF Works, Current, Progress
    <3>2. Lone(d, S) /\ \A x \in S : Shaped(x)
      BY <1>1, <1>4, <3>1, HaveShaped DEF TwinsInv
    <3>3. PICK k : /\ t.sent \cup t.added \subseteq s.sent \cup s.added \cup {k}
                   /\ \/ k \in s.sent \cup s.added \/ k[1] # "entity"
                      \/ \A m \in Makers(d) : <<"entity", d, k[3], m>> \notin S
      BY <3>1 DEF OneMore
    <3>4. T \subseteq S \cup {k} /\ s.sent \cup s.added \subseteq S
      BY <3>3 DEF Have
    <3>5. k \in S \/ k[1] # "entity" \/ \A m \in Makers(d) : <<"entity", d, k[3], m>> \notin S
      BY <3>3, <3>4
    <3> HIDE DEF d, S, T
    <3>6. Lone(d, T)
      BY <3>2, <3>4, <3>5, LoneGrows
    <3> QED
      BY <1>1, <3>1, <3>6 DEF d, T
  <2>3. ~Begins(c) /\ ~Fails(c)
    BY <1>4 DEF Begins, Fails, Raised, Went2, Busy
  <2> QED
    BY <2>1, <2>2, <2>3 DEF Moves
<1>5. \A k \in DOMAIN stored' : Shaped(k)
  BY <1>1 DEF TwinsInv
<1> QED
  BY <1>2, <1>3, <1>4, <1>5 DEF TwinsInv

LEMMA TwinsStep ==
    TypeInv /\ SessionInv /\ OverlapInv /\ TwinsInv /\ [Next]_vars => TwinsInv'
<1> SUFFICES ASSUME TypeInv, SessionInv, OverlapInv, TwinsInv, [Next]_vars
             PROVE  TwinsInv'
  OBVIOUS
<1>1. CASE UNCHANGED vars
  BY <1>1 DEF vars, TwinsInv, Current
<1>2. ASSUME NEW c \in Callers, Request(c) \/ Step(c) \/ LoseConnection(c)
      PROVE  TwinsInv'
  <2>1. Alone(c) /\ Moves(c)
    BY <1>2, Steps
  <2> QED
    BY <2>1, TwinsCommit, TwinsMove
<1> QED
  BY <1>1, <1>2 DEF Next, Answered

LEMMA TwinsInvariant == Spec => []TwinsInv
BY TwinsInit, TwinsStep, TypeInvariant, OverlapInvariant, PTL DEF Spec

\* "Idempotent persistence" (l.1): a unique key is violated only by imports of a
\* dataset at the same time, or by a file that repeats a natural key in one of
\* the two imports that do not flush every record; and where no key forbids it,
\* a bank has a product twice only after imports at the same time.
THEOREM ImportsAreIdempotent == Spec => []Idempotent
<1>1. TypeInv /\ OverlapInv /\ TwinsInv => Idempotent
  <2> SUFFICES ASSUME TypeInv, OverlapInv, TwinsInv
               PROVE  Idempotent
    OBVIOUS
  <2>1. \A c \in Callers, d \in Datasets : result[c][d] = "conflict" =>
            d \in overlapped \/ (d \notin FlushEach /\ RepeatsKey(d, read[c][d].rows))
    BY DEF OverlapInv, Excused
  <2>2. \A k, l \in DOMAIN stored : Twins(k, l) => k[2] \in overlapped
    BY DEF TypeInv, TypeOK, TwinsInv, Lone
  <2> QED
    BY <2>1, <2>2 DEF Idempotent
<1> QED
  BY <1>1, OverlapInvariant, TypeInvariant, TwinsInvariant, PTL

(***************************************************************************)
(* The sum of the records received.                                        *)
(***************************************************************************)
Total(r, d, S) == MapThenSumSet(LAMBDA c : Len(r[c][d].rows), S)
Lengths(r, d, S) == [c \in S |-> Len(r[c][d].rows)]

Measured(r, d, S) == IsFiniteSet(S) /\ \A c \in S : Len(r[c][d].rows) \in Nat
Totals(r, d, S, g) ==
    /\ g \in [SUBSET S -> Nat] /\ Lengths(r, d, S) \in [S -> Nat]
    /\ SumsUp(g, Lengths(r, d, S), S) /\ Total(r, d, S) = g[S]

LEMMA TotalIs ==
    ASSUME NEW r, NEW d, NEW S, Measured(r, d, S)
    PROVE  \E g : Totals(r, d, S, g)
<1> DEFINE w == Lengths(r, d, S)
           Body(g) == [s \in SUBSET S |-> IF s = {} THEN 0 ELSE Len(r[OneOf(s)][d].rows) + g[s \ {OneOf(s)}]]
           h == CHOOSE g : g = Body(g)
<1>1. w \in [S -> Nat] /\ IsFiniteSet(S)
  BY DEF Lengths, Measured
<1>2. \A g : SumsUp(g, w, S) <=> g = Body(g)
  <2>1. \A s \in (SUBSET S) \ {{}} : w[OneOf(s)] = Len(r[OneOf(s)][d].rows)
    BY DEF OneOf, Lengths
  <2> SUFFICES ASSUME NEW g
               PROVE  [s \in SUBSET S |-> IF s = {} THEN 0 ELSE w[OneOf(s)] + g[s \ {OneOf(s)}]] = Body(g)
    BY DEF SumsUp
  <2> HIDE DEF w
  <2> QED
    BY <2>1
<1>3. PICK g \in [SUBSET S -> Nat] : SumsUp(g, w, S)
  <2> HIDE DEF w
  <2> QED
    BY <1>1, SumExists
<1>4. h = Body(h)
  <2>1. \E f : f = Body(f)
    BY <1>2, <1>3
  <2> HIDE DEF Body
  <2> QED
    BY <2>1, Zenon
<1>5. Total(r, d, S) = h[S]
  BY DEF Total, MapThenSumSet, MapThenFoldSet, OneOf
<1> HIDE DEF w, h
<1>6. SumsUp(h, w, S)
  BY <1>2, <1>4
<1>7. \A s \in SUBSET S : h[s] = g[s]
  BY <1>1, <1>3, <1>6, SumAgrees
<1>8. h \in [SUBSET S -> Nat]
  <2>1. h = [s \in SUBSET S |-> h[s]]
    BY <1>6 DEF SumsUp
  <2> QED
    BY <2>1, <1>7
<1> QED
  BY <1>1, <1>5, <1>6, <1>8 DEF w, Totals

\* A total depends on the lengths alone.
LEMMA TotalSame ==
    ASSUME NEW r, NEW q, NEW d, NEW S, Measured(r, d, S), \A c \in S : q[c][d] = r[c][d]
    PROVE  Total(q, d, S) = Total(r, d, S) /\ Total(r, d, S) \in Nat
<1>1. Measured(q, d, S) /\ Lengths(q, d, S) = Lengths(r, d, S)
  BY DEF Measured, Lengths
<1>2. PICK g : Totals(r, d, S, g)
  BY TotalIs
<1>3. PICK h : Totals(q, d, S, h)
  BY <1>1, TotalIs
<1>4. g[S] = h[S] /\ g[S] \in Nat
  <2> DEFINE w == Lengths(r, d, S)
  <2>1. SumsUp(g, w, S) /\ SumsUp(h, w, S) /\ IsFiniteSet(S) /\ g \in [SUBSET S -> Nat]
    BY <1>1, <1>2, <1>3 DEF Totals, Measured
  <2> HIDE DEF w
  <2> QED
    BY <2>1, SumAgrees
<1> QED
  BY <1>2, <1>3, <1>4 DEF Totals

\* One more request.
LEMMA TotalAdds ==
    ASSUME NEW r, NEW d, NEW S, NEW c, c \notin S, Measured(r, d, S), Len(r[c][d].rows) \in Nat
    PROVE  Total(r, d, S \cup {c}) = Total(r, d, S) + Len(r[c][d].rows)
<1> DEFINE T == S \cup {c}
           v == Lengths(r, d, S)
           w == Lengths(r, d, T)
<1>1. Measured(r, d, T) /\ c \in T /\ T \ {c} = S /\ S \in SUBSET (S \cap T)
  BY FS_AddElement DEF Measured
<1>2. w[c] = Len(r[c][d].rows) /\ \A x \in S : v[x] = w[x]
  BY DEF Lengths
<1>3. PICK h : Totals(r, d, S, h)
  BY TotalIs
<1>4. PICK g : Totals(r, d, T, g)
  <2> HIDE DEF T
  <2> QED
    BY <1>1, TotalIs
<1>5. /\ IsFiniteSet(S) /\ SumsUp(h, v, S) /\ h \in [SUBSET S -> Nat] /\ Total(r, d, S) = h[S]
      /\ IsFiniteSet(T) /\ SumsUp(g, w, T) /\ g \in [SUBSET T -> Nat] /\ Total(r, d, T) = g[T]
      /\ w \in [T -> Nat]
  BY <1>1, <1>3, <1>4 DEF Totals, Measured
<1> HIDE DEF T, v, w
<1>6. g[T] = w[c] + g[T \ {c}]
  <2>1. Sums(g, w, T)
    BY <1>5 DEF Sums
  <2> QED
    BY <1>1, <2>1, SumAdds
<1>7. g[S] = h[S] /\ h[S] \in Nat
  BY <1>1, <1>2, <1>5, SumAgrees
<1>8. g[T] = h[S] + w[c]
  <2>1. w[c] \in Nat /\ g[T] = w[c] + h[S]
    BY <1>1, <1>2, <1>6, <1>7
  <2> QED
    BY <1>7, <2>1
<1> QED
  BY <1>2, <1>5, <1>8 DEF T

LEMMA TotalNone ==
    ASSUME NEW r, NEW d
    PROVE  Total(r, d, {}) = 0
<1>1. Measured(r, d, {})
  BY FS_EmptySet DEF Measured
<1>2. PICK g : Totals(r, d, {}, g)
  BY <1>1, TotalIs
<1> QED
  BY <1>2 DEF Totals, SumsUp

\* The requests that have imported a dataset.
Oks(d) == {c \in Callers : result[c][d] = "ok"}

LEMMA ReceivedIs ==
    ASSUME NEW d
    PROVE  Received(d) = Total(read, d, Oks(d)) /\ Received(d)' = Total(read', d, Oks(d)')
<1>1. Received(d) = Total(read, d, Oks(d))
  BY Zenon DEF Received, Total, Oks
<1>2. Received(d)' = Total(read', d, Oks(d)')
  BY DEF Received, Total, Oks, MapThenSumSet, MapThenFoldSet
<1> QED
  BY <1>1, <1>2

LEMMA RowsCounted ==
    ASSUME TypeInv, NEW c \in Callers, NEW d \in Datasets
    PROVE  Len(read[c][d].rows) \in Nat
<1>1. CASE read[c][d] \in Files[d]
  <2> DEFINE f == read[c][d]
  <2>1. f \in Files[d]
    BY <1>1
  <2> HIDE DEF f
  <2>2. f.rows \in Seq(AllRows)
    BY <2>1, FileFacts
  <2>3. Len(f.rows) \in Nat
    BY <2>2
  <2> QED
    BY <2>3 DEF f
<1>2. CASE read[c][d] = NoFile
  <2>1. NoFile.rows = <<>> /\ Len(<<>>) \in Nat
    BY NothingLeft
  <2> QED
    BY <1>2, <2>1
<1> QED
  BY <1>1, <1>2 DEF TypeInv

\* What a step makes of the records received.
LEMMA ReceivedMoves ==
    ASSUME TypeInv, SessionInv, ResultInv, NEW c \in Callers, Alone(c), Moves(c),
           NEW d \in Datasets, IsFiniteSet(Oks(d))
    PROVE  /\ Received(d) \in Nat /\ IsFiniteSet(Oks(d)')
           /\ ~(Commits(c) /\ d = Current(c)) => Received(d)' = Received(d)
           /\ Commits(c) /\ d = Current(c) => Received(d)' = Received(d) + Len(read[c][d].rows)
<1>1. Measured(read, d, Oks(d))
  BY RowsCounted DEF Measured, Oks
<1>2. Received(d) = Total(read, d, Oks(d)) /\ Received(d)' = Total(read', d, Oks(d)')
  BY ReceivedIs
<1>3. Received(d) \in Nat
  BY <1>1, <1>2, TotalSame
<1>4. \A o \in Callers \ {c} : read'[o] = read[o] /\ result'[o] = result[o]
  BY Surroundings DEF Alone
<1>5. CASE Commits(c) /\ d = Current(c)
  <2>1. read' = read /\ result'[c][d] = "ok" /\ pc[c] \notin {"idle", "done"}
    BY <1>5 DEF Commits
  <2>2. c \notin Oks(d)
    BY <1>5, <2>1, CurrentNone DEF Oks
  <2>3. Oks(d)' = Oks(d) \cup {c}
    BY <1>4, <2>1 DEF Oks
  <2>4. Len(read[c][d].rows) \in Nat
    BY RowsCounted
  <2>5. Total(read, d, Oks(d) \cup {c}) = Total(read, d, Oks(d)) + Len(read[c][d].rows)
    BY <1>1, <2>2, <2>4, TotalAdds
  <2>6. IsFiniteSet(Oks(d)')
    BY <2>3, FS_AddElement
  <2> QED
    BY <1>2, <1>3, <1>5, <2>1, <2>3, <2>5, <2>6
<1>6. CASE ~(Commits(c) /\ d = Current(c))
  <2>1. /\ result'[c][d] = "ok" <=> result[c][d] = "ok"
        /\ result[c][d] = "ok" => read'[c][d] = read[c][d]
    <3>1. CASE Begins(c) \/ Works(c)
      BY <3>1 DEF Begins, Works, Outcome
    <3>2. CASE Commits(c)
      BY <1>6, <3>2 DEF Commits
    <3>3. CASE Opens(c) \/ Fails(c)
      <4>1. /\ pc[c] \notin {"idle", "done"}
            /\ \A x \in Datasets \ {Current(c)} : read'[c][x] = read[c][x] /\ result'[c][x] = result[c][x]
            /\ result'[c][Current(c)] # "ok" \/ result' = result
        BY <3>3 DEF Opens, Fails, Reads, Raised, Outcome, Busy
      <4>2. result[c][Current(c)] = "none"
        BY <4>1, CurrentNone
      <4> QED
        BY <4>1, <4>2
    <3> QED
      BY <3>1, <3>2, <3>3 DEF Moves
  <2>2. Oks(d)' = Oks(d) /\ \A o \in Oks(d) : read'[o][d] = read[o][d]
    BY <1>4, <2>1 DEF Oks
  <2>3. Total(read', d, Oks(d)) = Total(read, d, Oks(d))
    BY <1>1, <2>2, TotalSame
  <2> QED
    BY <1>2, <1>3, <1>6, <2>2, <2>3
<1> QED
  BY <1>5, <1>6

(***************************************************************************)
(* The counts.  They follow what was there before and what has been        *)
(* received; a request that has taken a count over is ahead by the records *)
(* it has stored.  What a session has sent, nobody else has committed,     *)
(* because it holds the lock of the source.                                *)
(***************************************************************************)
Base(past, d) == Len(past[d]) + Received(d)
Follows(n, b, d) == n <= b /\ (d \notin overlapped => n = b)
Takes(c, d) == pc[c] \in Busy /\ Current(c) = d /\ session[c].loaded[d] >= 0

CountsAt(past, d) ==
    /\ IsFiniteSet(Oks(d))
    /\ Follows(counts[d], Base(past, d), d)
    /\ SourceKey(d) \notin DOMAIN stored => counts[d] = 0
    /\ \A k \in KeysOf(d, past[d], Maker("earlier", d)) : k \in DOMAIN stored /\ stored[k] = "earlier"
AheadAt(past, c) ==
    /\ \A d \in Datasets : Takes(c, d) =>
          Follows(session[c].loaded[d], Base(past, d) + Stage(session[c], read[c][d]), d)
    /\ session[c].sent \cap DOMAIN stored = {}
CountInv ==
    \E past \in Before :
        /\ \A d \in Datasets : CountsAt(past, d)
        /\ \A c \in Callers : AheadAt(past, c)

LEMMA PastFacts ==
    ASSUME NEW past \in Before, NEW d \in Datasets
    PROVE  /\ Len(past[d]) \in Nat /\ DOMAIN past[d] = 1..Len(past[d])
BY ImportAssumption DEF IsSequence

LEMMA CountInit == Init => CountInv
<1> SUFFICES ASSUME Init
             PROVE  CountInv
  OBVIOUS
<1>1. PICK past \in Before :
          /\ stored = [k \in Earlier(past) |-> "earlier"]
          /\ counts = [d \in Datasets |-> Len(past[d])]
  BY DEF Init
<1>2. ASSUME NEW d \in Datasets
      PROVE  CountsAt(past, d)
  <2>1. Oks(d) = {}
    BY DEF Init, Oks
  <2>2. Received(d) = 0 /\ IsFiniteSet(Oks(d))
    BY <2>1, ReceivedIs, TotalNone, FS_EmptySet
  <2>3. Len(past[d]) \in Nat /\ DOMAIN past[d] = 1..Len(past[d]) /\ counts[d] = Len(past[d])
    BY <1>1, PastFacts
  <2>4. Follows(counts[d], Base(past, d), d)
    BY <2>2, <2>3 DEF Follows, Base
  <2>5. \A k \in KeysOf(d, past[d], Maker("earlier", d)) : k \in DOMAIN stored /\ stored[k] = "earlier"
    BY <1>1 DEF Earlier
  <2>6. ASSUME SourceKey(d) \notin DOMAIN stored
        PROVE  counts[d] = 0
    <3> SUFFICES ASSUME counts[d] # 0
                 PROVE  FALSE
      OBVIOUS
    <3>1. 1 \in DOMAIN past[d]
      BY <2>3
    <3>2. SourceKey(d) \in KeysOf(d, past[d], Maker("earlier", d))
      BY <3>1, KeysOfAre
    <3> QED
      BY <2>5, <2>6, <3>2
  <2> QED
    BY <2>2, <2>4, <2>5, <2>6 DEF CountsAt
<1>3. ASSUME NEW c \in Callers
      PROVE  AheadAt(past, c)
  <2>1. pc[c] = "idle" /\ session[c] = NewSession(<<>>)
    BY DEF Init
  <2>2. session[c].sent = {}
    BY <2>1, NewSessionFacts DEF Fresh
  <2> QED
    BY <2>1, <2>2 DEF AheadAt, Takes, Busy
<1> QED
  BY <1>2, <1>3 DEF CountInv

\* An import that commits: what it sends, and what it counts.
LEMMA CommitsCount ==
    ASSUME TypeInv, SessionInv, NEW past, NEW c \in Callers, AheadAt(past, c), Commits(c)
    PROVE  LET d == Current(c)
               n == Len(read[c][d].rows)
           IN  /\ d \in Datasets /\ n \in Nat
               /\ \A x \in Datasets \ {d} : counts'[x] = counts[x]
               /\ \/ Follows(counts'[d], Base(past, d) + n, d) /\ SourceKey(d) \in DOMAIN stored'
                  \/ counts'[d] = counts[d] /\ n = 0
               /\ \A k \in DOMAIN stored : k \in DOMAIN stored' /\ stored'[k] = stored[k]
<1> DEFINE d == Current(c)
           f == read[c][d]
           s == session[c]
<1>1. pc[c] = "commit" /\ pc[c] \in Busy /\ ~Violates(c)
  BY DEF Commits, Busy
<1>2. At("commit", s, d, f, DOMAIN stored) /\ d \in Datasets /\ s \in Sessions /\ f \in Files[d]
  BY <1>1, AtWork
<1>3. Touched(c) = {x \in Datasets : s.loaded[x] >= 0}
  BY DEF Touched
<1>4. /\ DOMAIN stored' = Have(s, DOMAIN stored)
      /\ \A x \in Datasets : counts'[x] = IF x \in Touched(c) THEN s.loaded[x] ELSE counts[x]
  BY DEF Commits, Have
<1>5. /\ \A k \in DOMAIN stored : k \in DOMAIN stored' /\ stored'[k] = stored[k]
  <2>1. (s.sent \cup s.added) \cap DOMAIN stored = {}
    BY <1>1 DEF AheadAt, Violates
  <2> QED
    BY <2>1 DEF Commits
<1>6. s.loaded[d] >= 0 => Follows(s.loaded[d], Base(past, d) + Stage(s, f), d)
  BY <1>1, <1>2 DEF AheadAt, Takes
<1> HIDE DEF d, f, s
<1>7. Place("commit", s, f) /\ Kept("commit", s, d, f, DOMAIN stored) /\ Own("commit", s, d, f)
  BY <1>2 DEF At
<1>8. Stage(s, f) = Len(f.rows) /\ Len(f.rows) \in Nat
  BY <1>2, <1>7, StageFacts DEF Place
<1>9. \A x \in Datasets \ {d} : counts'[x] = counts[x]
  BY <1>3, <1>4, <1>7 DEF Own
<1>10. CASE s.loaded[d] >= 0
  <2>1. counts'[d] = s.loaded[d] /\ SourceKey(d) \in DOMAIN stored'
    BY <1>2, <1>3, <1>4, <1>7, <1>10 DEF Kept
  <2> QED
    BY <1>2, <1>5, <1>6, <1>8, <1>9, <1>10, <2>1 DEF d, f
<1>11. CASE ~(s.loaded[d] >= 0)
  <2>1. counts'[d] = counts[d] /\ ~(Stage(s, f) > 0)
    BY <1>2, <1>3, <1>4, <1>7, <1>11 DEF Kept
  <2>2. Len(f.rows) = 0
    BY <1>8, <2>1
  <2> QED
    BY <1>2, <1>5, <1>9, <2>1, <2>2 DEF d, f
<1> QED
  BY <1>10, <1>11

LEMMA CountsMove ==
    ASSUME TypeInv, SessionInv, ResultInv, NEW past \in Before, NEW c \in Callers,
           AheadAt(past, c), Alone(c), Moves(c), NEW d \in Datasets, CountsAt(past, d)
    PROVE  CountsAt(past, d)'
<1>1. /\ Received(d) \in Nat /\ IsFiniteSet(Oks(d)')
      /\ ~(Commits(c) /\ d = Current(c)) => Received(d)' = Received(d)
      /\ Commits(c) /\ d = Current(c) => Received(d)' = Received(d) + Len(read[c][d].rows)
  BY ReceivedMoves DEF CountsAt
<1>2. Len(past[d]) \in Nat /\ counts[d] \in Nat /\ overlapped \subseteq overlapped'
  BY PastFacts, OverlapGrows DEF TypeInv, TypeOK
<1>3. CASE UNCHANGED Store /\ ~Commits(c)
  <2>1. stored' = stored /\ counts' = counts /\ Received(d)' = Received(d)
    BY <1>1, <1>3 DEF Store
  <2> QED
    BY <1>1, <1>2, <2>1 DEF CountsAt, Follows, Base
<1>4. CASE Commits(c)
  <2> DEFINE n == Len(read[c][Current(c)].rows)
  <2>1. /\ n \in Nat
        /\ \A x \in Datasets \ {Current(c)} : counts'[x] = counts[x]
        /\ \/ /\ Follows(counts'[Current(c)], Base(past, Current(c)) + n, Current(c))
              /\ SourceKey(Current(c)) \in DOMAIN stored'
           \/ counts'[Current(c)] = counts[Current(c)] /\ n = 0
        /\ \A k \in DOMAIN stored : k \in DOMAIN stored' /\ stored'[k] = stored[k]
    BY <1>4, CommitsCount
  <2>2. overlapped' = overlapped
    BY <1>4 DEF Commits
  <2>3. \A k \in KeysOf(d, past[d], Maker("earlier", d)) : k \in DOMAIN stored' /\ stored'[k] = "earlier"
    BY <2>1 DEF CountsAt
  <2>4. CASE d # Current(c)
    <3>1. counts'[d] = counts[d] /\ Received(d)' = Received(d)
      BY <1>1, <2>1, <2>4
    <3> QED
      BY <1>1, <1>2, <2>1, <2>2, <2>3, <3>1 DEF CountsAt, Follows, Base
  <2>5. CASE d = Current(c)
    <3>1. n \in Nat /\ Received(d)' = Received(d) + n /\ Base(past, d)' = Base(past, d) + n
      BY <1>1, <1>2, <1>4, <2>1, <2>5 DEF Base
    <3>2. CASE Follows(counts'[d], Base(past, d) + n, d) /\ SourceKey(d) \in DOMAIN stored'
      BY <1>1, <2>2, <2>3, <3>1, <3>2 DEF CountsAt, Follows
    <3>3. CASE counts'[d] = counts[d] /\ n = 0
      <4>1. Base(past, d) \in Nat /\ Base(past, d)' = Base(past, d)
        BY <1>1, <1>2, <3>1, <3>3 DEF Base
      <4> QED
        BY <1>1, <2>1, <2>2, <2>3, <3>3, <4>1 DEF CountsAt, Follows
    <3> QED
      BY <2>1, <2>5, <3>2, <3>3
  <2> QED
    BY <2>4, <2>5
<1> QED
  BY <1>3, <1>4, Surroundings

\* What a count that has been taken over becomes.
LEMMA ProgressFollows ==
    ASSUME NEW d \in Datasets, NEW f \in Files[d], NEW s \in Sessions, NEW t, NEW p, NEW K,
           At(p, s, d, f, K), Progress(s, t, d), NEW b \in Nat, counts[d] \in Nat,
           Follows(counts[d], b, d), SourceKey(d) \notin DOMAIN stored => counts[d] = 0,
           s.loaded[d] >= 0 => Follows(s.loaded[d], b + Stage(s, f), d)
    PROVE  t.loaded[d] >= 0 => Follows(t.loaded[d], b + Stage(t, f), d)
<1>1. s.loaded[d] \in Int /\ s.todo \in Seq(AllRows)
  BY SessionFields
<1>2. Place(p, s, f) /\ Kept(p, s, d, f, K)
  BY DEF At
<1>3. Stage(s, f) \in Nat /\ f.rows \in Seq(AllRows) /\ Len(s.todo) <= Len(f.rows)
  <2>1. Len(s.todo) <= Len(f.rows)
    BY <1>2 DEF Place
  <2> QED
    BY <1>2, <2>1, StageFacts
<1>4. t.todo = s.todo => Stage(t, f) = Stage(s, f)
  BY DEF Stage
<1>5. t.todo = Tail(s.todo) /\ s.todo # <<>> => Stage(t, f) = Stage(s, f) + 1
  BY <1>1, <1>3, GoneNext DEF Stage
<1>6. ~(s.loaded[d] >= 0) => ~(Stage(s, f) > 0)
  BY <1>2 DEF Kept
<1>7. CASE t.loaded[d] = s.loaded[d] /\ t.todo = s.todo
  BY <1>4, <1>7
<1>8. CASE /\ ~(s.loaded[d] >= 0) /\ t.todo = s.todo
           /\ t.loaded[d] = counts[d] \/ (t.loaded[d] = 0 /\ SourceKey(d) \notin DOMAIN stored)
  <2>1. Stage(t, f) = 0 /\ t.loaded[d] = counts[d]
    BY <1>3, <1>4, <1>6, <1>8
  <2> QED
    BY <2>1 DEF Follows
<1>9. CASE /\ s.loaded[d] >= 0 /\ t.loaded[d] = s.loaded[d] + 1
           /\ t.todo = Tail(s.todo) /\ s.todo # <<>>
  <2>1. Stage(t, f) = Stage(s, f) + 1
    BY <1>5, <1>9
  <2>2. Follows(s.loaded[d] + 1, b + (Stage(s, f) + 1), d)
    BY <1>1, <1>3, <1>9 DEF Follows
  <2> QED
    BY <1>9, <2>1, <2>2
<1> QED
  BY <1>7, <1>8, <1>9 DEF Progress

\* A step of c, within an import or into one.
LEMMA AheadWorks ==
    ASSUME TypeInv, SessionInv, NEW past \in Before, NEW c \in Callers,
           AheadAt(past, c), Works(c) \/ Opens(c), \A d \in Datasets : CountsAt(past, d),
           \A d \in Datasets : Received(d) \in Nat /\ Received(d)' = Received(d)
    PROVE  AheadAt(past, c)'
<1> DEFINE s == session[c]
           t == session'[c]
<1>1. CASE Opens(c)
  <2>1. Current(c)' = Current(c)
    BY <1>1 DEF Opens, Current
  <2>2. t.sent = {} /\ \A d \in Datasets : ~Takes(c, d)'
    BY <1>1, <2>1 DEF Opens, Takes
  <2> QED
    BY <2>2 DEF AheadAt
<1>2. CASE Works(c)
  <2>1. /\ pc[c] \in Busy /\ stored' = stored /\ read' = read /\ overlapped' = overlapped
        /\ Progress(s, t, Current(c)) /\ Current(c)' = Current(c)
    BY <1>2 DEF Works, Store, Current
  <2>2. t.sent \cap DOMAIN stored' = {}
    BY <2>1 DEF Progress, AheadAt
  <2>3. ASSUME NEW d \in Datasets, Takes(c, d)'
        PROVE  Follows(session[c].loaded[d], Base(past, d) + Stage(session[c], read[c][d]), d)'
    <3> DEFINE f == read[c][d]
               b == Base(past, d)
    <3>1. d = Current(c) /\ t.loaded[d] >= 0 /\ Progress(s, t, d)
      BY <2>1, <2>3 DEF Takes
    <3>2. /\ s \in Sessions /\ f \in Files[d] /\ At(pc[c], s, d, f, DOMAIN stored)
      BY <2>1, <3>1, AtWork
    <3>3. s.loaded[d] >= 0 => Follows(s.loaded[d], b + Stage(s, f), d)
      BY <2>1, <3>1 DEF AheadAt, Takes
    <3>4. /\ Follows(counts[d], b, d) /\ counts[d] \in Nat
          /\ SourceKey(d) \notin DOMAIN stored => counts[d] = 0
      BY DEF CountsAt, TypeInv, TypeOK
    <3>5. b \in Nat /\ Base(past, d)' = b
      BY PastFacts DEF Base
    <3> HIDE DEF b, f, s, t
    <3>6. Follows(t.loaded[d], b + Stage(t, f), d)
      BY <3>1, <3>2, <3>3, <3>4, <3>5, ProgressFollows
    <3> QED
      BY <2>1, <3>5, <3>6 DEF Follows, f, t
  <2> QED
    BY <2>2, <2>3 DEF AheadAt
<1> QED
  BY <1>1, <1>2

\* The requests of which the step is not.
LEMMA AheadOthers ==
    ASSUME TypeInv, SessionInv, OverlapInv, NEW past \in Before,
           NEW c \in Callers, Alone(c), Moves(c), NEW o \in Callers, o # c, AheadAt(past, o),
           \A d \in Datasets : /\ Received(d) \in Nat /\ Received(d)' \in Nat
                               /\ Received(d)' >= Received(d)
                               /\ ~(Commits(c) /\ d = Current(c)) => Received(d)' = Received(d)
    PROVE  AheadAt(past, o)'
<1>1. /\ pc'[o] = pc[o] /\ session'[o] = session[o] /\ Current(o)' = Current(o)
      /\ read'[o] = read[o] /\ overlapped \subseteq overlapped'
  BY OthersAt, Surroundings, OverlapGrows
<1>2. ASSUME NEW d \in Datasets, Takes(o, d)'
      PROVE  Follows(session[o].loaded[d], Base(past, d) + Stage(session[o], read[o][d]), d)'
  <2> DEFINE n == session[o].loaded[d]
             e == Stage(session[o], read[o][d])
  <2>1. pc[o] \in Busy /\ Current(o) = d /\ Follows(n, Base(past, d) + e, d)
    BY <1>1, <1>2 DEF AheadAt, Takes
  <2>2. n \in Int /\ e \in Nat
    <3>1. At(pc[o], session[o], d, read[o][d], DOMAIN stored)
      BY <2>1, AtWork
    <3>2. session[o] \in Sessions /\ read[o][d] \in Files[d] /\ Place(pc[o], session[o], read[o][d])
      BY <3>1 DEF At
    <3>3. session[o].loaded \in [Datasets -> Int]
      BY <3>2, SessionFields
    <3> QED
      BY <3>2, <3>3, StageFacts
  <2>3. Len(past[d]) \in Nat /\ Received(d) \in Nat /\ Received(d)' \in Nat /\ Received(d)' >= Received(d)
    BY PastFacts
  <2>4. Base(past, d) + e \in Nat /\ Base(past, d)' + e \in Nat /\ Base(past, d) + e <= Base(past, d)' + e
    BY <2>2, <2>3 DEF Base
  <2>5. d \notin overlapped' => Base(past, d)' = Base(past, d)
    <3> SUFFICES ASSUME d \notin overlapped'
                 PROVE  Received(d)' = Received(d)
      BY DEF Base
    <3>1. ~(Commits(c) /\ d = Current(c))
      BY <1>1, <2>1 DEF OverlapInv, Commits, Busy
    <3> QED
      BY <3>1
  <2> HIDE DEF n, e
  <2>6. n <= Base(past, d)' + e /\ (d \notin overlapped' => n = Base(past, d)' + e)
    <3>1. n <= Base(past, d) + e /\ (d \notin overlapped => n = Base(past, d) + e)
      BY <2>1 DEF Follows
    <3> QED
      BY <1>1, <2>2, <2>4, <2>5, <3>1
  <2> QED
    BY <1>1, <2>6 DEF Follows, n, e
<1>3. session[o].sent \cap DOMAIN stored' = {}
  <2> SUFFICES ASSUME NEW k \in session[o].sent, k \in DOMAIN stored'
               PROVE  FALSE
    OBVIOUS
  <2>1. session[o].sent \cap DOMAIN stored = {} /\ pc[o] \in Busy
    <3>1. ~Fresh(session[o])
      BY DEF Fresh
    <3> QED
      BY <3>1 DEF AheadAt, SessionInv, SessionAt, TypeInv, TypeOK, Pending, Busy
  <2>2. Commits(c) /\ k \in session[c].sent \cup session[c].added
    <3>1. stored' # stored
      BY <2>1
    <3>2. Commits(c)
      BY <3>1, Surroundings DEF Store
    <3> QED
      BY <2>1, <3>2 DEF Commits
  <2>3. pc[c] \in Busy /\ MayWrite(c)
    BY <2>2 DEF Commits, Busy
  <2>4. k[2] = Current(c) /\ Current(c) \in Datasets /\ Current(c) \in Touched(c)
    <3>1. At(pc[c], session[c], Current(c), read[c][Current(c)], DOMAIN stored) /\ Current(c) \in Datasets
      BY <2>3, AtWork
    <3> QED
      BY <2>2, <3>1 DEF At, Own, Touched
  <2>5. k[2] = Current(o) /\ Current(o) \in session[o].locks
    <3>1. At(pc[o], session[o], Current(o), read[o][Current(o)], DOMAIN stored)
      BY <2>1, AtWork
    <3> QED
      BY <3>1 DEF At, Own
  <2> QED
    BY <2>3, <2>4, <2>5 DEF MayWrite
<1> QED
  BY <1>1, <1>2, <1>3 DEF AheadAt

LEMMA CountStep ==
    TypeInv /\ SessionInv /\ ResultInv /\ OverlapInv /\ CountInv /\ [Next]_vars => CountInv'
<1> SUFFICES ASSUME TypeInv, SessionInv, ResultInv, OverlapInv, CountInv, [Next]_vars
             PROVE  CountInv'
  OBVIOUS
<1>1. PICK past \in Before :
          /\ \A d \in Datasets : CountsAt(past, d)
          /\ \A c \in Callers : AheadAt(past, c)
  BY DEF CountInv
<1>2. CASE UNCHANGED vars
  <2>1. /\ stored' = stored /\ counts' = counts /\ pc' = pc /\ session' = session /\ read' = read
        /\ result' = result /\ overlapped' = overlapped
    BY <1>2 DEF vars
  <2>2. \A d \in Datasets : Oks(d)' = Oks(d) /\ Received(d)' = Received(d)
    BY <2>1, ReceivedIs DEF Oks
  <2>3. \A d \in Datasets : CountsAt(past, d)'
    BY <1>1, <2>1, <2>2 DEF CountsAt, Follows, Base
  <2>4. \A c \in Callers : AheadAt(past, c)'
    BY <1>1, <2>1, <2>2 DEF AheadAt, Takes, Follows, Base, Current
  <2> QED
    BY <2>3, <2>4 DEF CountInv
<1>3. ASSUME NEW c \in Callers, Request(c) \/ Step(c) \/ LoseConnection(c)
      PROVE  CountInv'
  <2>1. Alone(c) /\ Moves(c) /\ SessionAt(c)'
    BY <1>3, Steps
  <2>2. \A d \in Datasets : CountsAt(past, d)'
    BY <1>1, <2>1, CountsMove
  <2>3. ASSUME NEW d \in Datasets
        PROVE  /\ Received(d) \in Nat /\ Received(d)' \in Nat /\ Received(d)' >= Received(d)
               /\ ~(Commits(c) /\ d = Current(c)) => Received(d)' = Received(d)
    <3> DEFINE n == Len(read[c][d].rows)
    <3>1. /\ Received(d) \in Nat
          /\ ~(Commits(c) /\ d = Current(c)) => Received(d)' = Received(d)
          /\ Commits(c) /\ d = Current(c) => Received(d)' = Received(d) + n
      BY <1>1, <2>1, ReceivedMoves DEF CountsAt
    <3>2. n \in Nat
      BY RowsCounted
    <3> HIDE DEF n
    <3>3. Received(d)' = Received(d) \/ Received(d)' = Received(d) + n
      BY <3>1
    <3>4. Received(d)' \in Nat /\ Received(d)' >= Received(d)
      BY <3>1, <3>2, <3>3
    <3> QED
      BY <3>1, <3>4
  <2>4. \A o \in Callers \ {c} : AheadAt(past, o)'
    BY <1>1, <2>1, <2>3, AheadOthers
  <2>5. AheadAt(past, c)'
    <3>1. CASE Works(c) \/ Opens(c)
      <4>1. ~Commits(c)
        BY <3>1 DEF Works, Opens, Commits, Went2, Busy
      <4> QED
        BY <1>1, <2>3, <3>1, <4>1, AheadWorks
    <3>2. CASE Begins(c) \/ Fails(c) \/ Commits(c)
      <4>1. pc'[c] \notin Busy
        BY <3>2 DEF Begins, Fails, Raised, Commits, Went2, Busy
      <4>2. Fresh(session'[c])
        <5>1. pc'[c] \in {"open", "idle", "done"}
          BY <3>2 DEF Begins, Fails, Raised, Commits, Went2
        <5> QED
          BY <2>1, <5>1 DEF SessionAt
      <4> QED
        BY <4>1, <4>2 DEF AheadAt, Takes, Fresh
    <3> QED
      BY <2>1, <3>1, <3>2 DEF Moves
  <2> QED
    BY <2>2, <2>4, <2>5 DEF CountInv
<1> QED
  BY <1>2, <1>3 DEF Next, Answered

LEMMA CountInvariant == Spec => []CountInv
BY CountInit, CountStep, TypeInvariant, ResultInvariant, OverlapInvariant, PTL DEF Spec

\* record_count (l.96, l.150, l.202, l.258) is what was there before and what the
\* imports that succeeded have received, as long as imports of the dataset do not
\* overlap; if they do, it may fall behind and never runs ahead.
THEOREM CountsFollow == Spec => []CountsReceived
<1>1. CountInv => CountsReceived
  <2> SUFFICES ASSUME CountInv
               PROVE  CountsReceived
    OBVIOUS
  <2>1. PICK past \in Before : \A d \in Datasets : CountsAt(past, d)
    BY DEF CountInv
  <2> QED
    BY <2>1 DEF CountsReceived, CountsAt, Follows, Base, Earlier
<1> QED
  BY <1>1, CountInvariant, PTL
=============================================================================
