-------------------------- MODULE Lifecycle_proofs --------------------------
(***************************************************************************)
(* Theorems about Lifecycle, for every number of buffers.  The programs    *)
(* are sequences put together from parts; what a part does to the          *)
(* resources held, and that the labels its steps lead to fit them, is      *)
(* shown once for each part and carries over to the whole.                 *)
(***************************************************************************)
EXTENDS Lifecycle, SequenceTheorems, TLAPS

(***************************************************************************)
(* The order of release.  Whatever needs a resource has a higher rank.     *)
(***************************************************************************)
Place(what) == CASE what = "db" -> 0 [] what = "db_umem" -> 1 [] what = "buf" -> 2
                 [] what = "buff_umem" -> 3 [] what = "uar" -> 4 [] what = "obj" -> 5

Rank(r) ==
  CASE r = DevList -> 0
    [] r = Ctx -> 1
    [] r = Pd -> 2
    [] r[1] = "mrbuf" -> 3 + NBufs - r[2]
    [] r[1] = "mr" -> 3 + 2 * NBufs - r[2]
    [] r = Thread -> 3 + 2 * NBufs
    [] r = <<"verb", "cq">> -> 4 + 2 * NBufs
    [] r = <<"verb", "qp">> -> 5 + 2 * NBufs
    [] r[1] = "cq" -> 4 + 2 * NBufs + Place(r[2])
    [] r[1] = "qp" -> 10 + 2 * NBufs + Place(r[2])

Falling(u) == \A i, j \in 1..Len(u) : i < j => Rank(u[i]) > Rank(u[j])

(* Labels that give back the resources of S, what needs others first.      *)
Unwinds(u, S) == u \in Seq(Resources) /\ Range(u) = S /\ Falling(u)

(* What stays behind at the labels the failure of a step leads to; a run   *)
(* without a failure ends like one whose traffic failed.                   *)
Leaves(name) ==
  CASE name = "query_port" -> {DevList, Ctx}
    [] name = "memalign" -> {DevList} \cup Range(Mrs(NBufs))
    [] name = "mad_ifc_port" -> {DevList, Thread}
    [] name = "listen" -> Resources
    [] OTHER -> {DevList}

(* A step is right where the resources of `held' are: what it takes has    *)
(* what it needs, and the labels its failure leads to fit them.            *)
Names ==
  {"device_list", "open_device", "query_port", "alloc_pd", "memalign", "reg_mr",
   "query_hca_cap", "sigaction", "pthread_create", "mad_ifc_port", "query_eqn", "create_cq",
   "init_obj", "create_qp", "modify_qp", "query_gid", "listen", "socket",
   "rst2init", "init2rtr", "rtr2rts", "traffic"}

StepType == [name : Names, get : Resources \cup {Nothing}, undo : Seq(Resources)]

Fits(name, undo, held) ==
  /\ name \in Names /\ undo \in Seq(Resources) /\ Falling(undo)
  /\ Range(undo) \subseteq held /\ held \subseteq Range(undo) \cup Leaves(name)
  /\ name = "listen" => Range(undo) = {}

StepRight(s, held) ==
  /\ s \in StepType /\ Fits(s.name, s.undo, held)
  /\ s.get # Nothing => Needs(s.get) \subseteq held

(* A part of a program leads from what is held before it to what is after. *)
Taken(p, i) == {p[j].get : j \in 1..i} \ {Nothing}

Leads(p, before, after) ==
  /\ p \in Seq(StepType) /\ after = before \cup Taken(p, Len(p))
  /\ \A i \in 1..Len(p) : StepRight(p[i], before \cup Taken(p, i - 1))

(***************************************************************************)
(* Resources, their ranks, and sequences of them.                          *)
(***************************************************************************)
LEMMA BufFacts ==
  ASSUME NEW n \in 0..NBufs
  PROVE  /\ Range(Bufs(n)) = {Buf(i) : i \in 1..n} /\ Range(Mrs(n)) = {Mr(i) : i \in 1..n}
         /\ Range(Bufs(n)) \subseteq Resources /\ Range(Mrs(n)) \subseteq Resources
<1>1. NBufs \in Nat
  BY NBufsAssumption
<1>2. \A m \in 0..NBufs : /\ Range(Bufs(m)) = {Buf(i) : i \in 1..m}
                          /\ Range(Mrs(m)) = {Mr(i) : i \in 1..m}
  BY <1>1 DEF Range, Bufs, Mrs
<1>3. {Buf(i) : i \in 1..n} \subseteq {Buf(i) : i \in 1..NBufs}
      /\ {Mr(i) : i \in 1..n} \subseteq {Mr(i) : i \in 1..NBufs}
  BY <1>1
<1> QED
  BY <1>1, <1>2, <1>3 DEF Resources

LEMMA Known ==
  /\ {DevList, Ctx, Pd, Thread, <<"verb", "cq">>, <<"verb", "qp">>} \subseteq Resources
  /\ \A i \in 1..NBufs : Buf(i) \in Resources /\ Mr(i) \in Resources
  /\ \A q \in {"cq", "qp"} : \A k \in 1..6 : <<q, QueueGets[k]>> \in Resources
<1>1. NBufs \in Nat /\ NBufs \in 0..NBufs
  BY NBufsAssumption
<1>2. \A i \in 1..NBufs : Buf(i) \in Resources /\ Mr(i) \in Resources
  BY <1>1, BufFacts
<1>3. \A k \in 1..6 : QueueGets[k] \in Range(QueueGets)
  BY DEF Range, QueueGets
<1>4. \A q \in {"cq", "qp"} : \A k \in 1..6 : <<q, QueueGets[k]>> \in Resources
  BY <1>3 DEF Resources
<1> QED
  BY <1>2, <1>4 DEF Resources

(* There are no others.                                                    *)
LEMMA ResourceCases ==
  ASSUME NEW r \in Resources
  PROVE  \/ r \in {DevList, Ctx, Pd, Thread, <<"verb", "cq">>, <<"verb", "qp">>}
         \/ \E i \in 1..NBufs : r = Buf(i) \/ r = Mr(i)
         \/ \E q \in {"cq", "qp"} :
              \E w \in {"db", "db_umem", "buf", "buff_umem", "uar", "obj"} : r = <<q, w>>
<1>1. Range(QueueGets) = {"db", "db_umem", "buf", "buff_umem", "uar", "obj"}
  BY DEF Range, QueueGets
<1>2. NBufs \in 0..NBufs
  BY NBufsAssumption
<1> QED
  BY <1>1, <1>2, BufFacts DEF Resources

LEMMA Ranks ==
  /\ Rank(DevList) = 0 /\ Rank(Ctx) = 1 /\ Rank(Pd) = 2 /\ Rank(Thread) = 3 + 2 * NBufs
  /\ \A i \in 1..NBufs : Rank(Buf(i)) = 3 + NBufs - i /\ Rank(Mr(i)) = 3 + 2 * NBufs - i
  /\ Rank(<<"verb", "cq">>) = 4 + 2 * NBufs /\ Rank(<<"verb", "qp">>) = 5 + 2 * NBufs
  /\ \A w : /\ Rank(<<"cq", w>>) = 4 + 2 * NBufs + Place(w)
            /\ Rank(<<"qp", w>>) = 10 + 2 * NBufs + Place(w)
<1>1. /\ Rank(DevList) = 0 /\ Rank(Ctx) = 1 /\ Rank(Pd) = 2 /\ Rank(Thread) = 3 + 2 * NBufs
      /\ Rank(<<"verb", "cq">>) = 4 + 2 * NBufs /\ Rank(<<"verb", "qp">>) = 5 + 2 * NBufs
  BY DEF Rank, DevList, Ctx, Pd, Thread
<1>2. ASSUME NEW i \in 1..NBufs
      PROVE  Rank(Buf(i)) = 3 + NBufs - i /\ Rank(Mr(i)) = 3 + 2 * NBufs - i
  BY DEF Rank, DevList, Ctx, Pd, Thread, Buf, Mr
<1>3. ASSUME NEW w
      PROVE  /\ Rank(<<"cq", w>>) = 4 + 2 * NBufs + Place(w)
             /\ Rank(<<"qp", w>>) = 10 + 2 * NBufs + Place(w)
  BY DEF Rank, DevList, Ctx, Pd, Thread
<1> QED
  BY <1>1, <1>2, <1>3

LEMMA Places ==
  /\ Place("db") = 0 /\ Place("db_umem") = 1 /\ Place("buf") = 2
  /\ Place("buff_umem") = 3 /\ Place("uar") = 4 /\ Place("obj") = 5
  BY DEF Place

LEMMA RankTyped ==
  ASSUME NEW r \in Resources
  PROVE  Rank(r) \in Nat
  BY NBufsAssumption, ResourceCases, Ranks, Places

LEMMA NeedsFacts ==
  /\ Needs(DevList) = {} /\ Needs(Ctx) = {} /\ Needs(Pd) = {Ctx} /\ Needs(Thread) = {Ctx}
  /\ Needs(<<"verb", "cq">>) = {Ctx} /\ Needs(<<"verb", "qp">>) = {Pd, <<"verb", "cq">>}
  /\ \A i : Needs(Buf(i)) = {} /\ Needs(Mr(i)) = {Pd, Buf(i)}
  /\ \A q \in {"cq", "qp"} : \A w : Needs(<<q, w>>) = QueueNeeds(q, w)
<1> USE DEF DevList, Ctx, Pd, Thread
<1>1. Needs(DevList) = {} /\ Needs(Ctx) = {}
  BY DEF Needs
<1>2. Needs(Pd) = {Ctx} /\ Needs(Thread) = {Ctx} /\ Needs(<<"verb", "cq">>) = {Ctx}
  BY DEF Needs
<1>3. Needs(<<"verb", "qp">>) = {Pd, <<"verb", "cq">>}
  BY DEF Needs
<1>4. ASSUME NEW i
      PROVE  Needs(Buf(i)) = {} /\ Needs(Mr(i)) = {Pd, Buf(i)}
  BY DEF Needs, Buf, Mr
<1>5. ASSUME NEW q \in {"cq", "qp"}, NEW w
      PROVE  Needs(<<q, w>>) = QueueNeeds(q, w)
  BY DEF Needs
<1> QED
  BY <1>1, <1>2, <1>3, <1>4, <1>5

LEMMA QueueNeedsFacts ==
  ASSUME NEW q
  PROVE  /\ QueueNeeds(q, "db") = {} /\ QueueNeeds(q, "buf") = {}
         /\ QueueNeeds(q, "db_umem") = {Ctx, <<q, "db">>}
         /\ QueueNeeds(q, "buff_umem") = {Ctx, <<q, "buf">>}
         /\ QueueNeeds(q, "uar") = {Ctx}
         /\ QueueNeeds(q, "obj") = {<<q, "db_umem">>, <<q, "buff_umem">>, <<q, "uar">>}
                                     \cup (IF q = "qp" THEN {Pd, <<"cq", "obj">>} ELSE {})
<1>1. /\ QueueNeeds(q, "db") = {} /\ QueueNeeds(q, "buf") = {}
      /\ QueueNeeds(q, "db_umem") = {Ctx, <<q, "db">>}
      /\ QueueNeeds(q, "buff_umem") = {Ctx, <<q, "buf">>}
      /\ QueueNeeds(q, "uar") = {Ctx}
  BY DEF QueueNeeds
<1>2. QueueNeeds(q, "obj") = {<<q, u>> : u \in {"db_umem", "buff_umem", "uar"}}
                              \cup (IF q = "qp" THEN {Pd, <<"cq", "obj">>} ELSE {})
  BY DEF QueueNeeds
<1>3. {<<q, u>> : u \in {"db_umem", "buff_umem", "uar"}}
        = {<<q, "db_umem">>, <<q, "buff_umem">>, <<q, "uar">>}
  OBVIOUS
<1> QED
  BY <1>1, <1>2, <1>3

LEMMA NeedsRanked ==
  ASSUME NEW r \in Resources, NEW n \in Needs(r)
  PROVE  Rank(n) < Rank(r)
<1>0. NBufs \in Nat
  BY NBufsAssumption
<1>1. CASE r \in {DevList, Ctx, Pd, Thread, <<"verb", "cq">>, <<"verb", "qp">>}
  BY <1>0, <1>1, Ranks, NeedsFacts
<1>2. CASE \E i \in 1..NBufs : r = Buf(i) \/ r = Mr(i)
  BY <1>0, <1>2, Ranks, NeedsFacts
<1>3. CASE \E q \in {"cq", "qp"} :
             \E w \in {"db", "db_umem", "buf", "buff_umem", "uar", "obj"} : r = <<q, w>>
  <2>1. PICK q \in {"cq", "qp"}, w \in {"db", "db_umem", "buf", "buff_umem", "uar", "obj"} :
          r = <<q, w>>
    BY <1>3
  <2>2. n \in QueueNeeds(q, w)
    BY <2>1, NeedsFacts
  <2> QED
    BY <1>0, <2>1, <2>2, QueueNeedsFacts, Ranks, Places
<1> QED
  BY <1>1, <1>2, <1>3, ResourceCases

(***************************************************************************)
(* Labels put together: each part gives back what ranks above the next.    *)
(***************************************************************************)
LEMMA UnwindOne ==
  ASSUME NEW r \in Resources
  PROVE  Unwinds(<<r>>, {r})
<1>1. <<r>> \in Seq(Resources) /\ Len(<<r>>) = 1
  OBVIOUS
<1>2. Range(<<r>>) = {r}
  BY DEF Range
<1> QED
  BY <1>1, <1>2 DEF Unwinds, Falling

LEMMA UnwindNone == Unwinds(<<>>, {})
<1>1. <<>> \in Seq(Resources) /\ Len(<<>>) = 0
  BY EmptySeq
<1>2. Range(<<>>) = {}
  BY DEF Range
<1> QED
  BY <1>1, <1>2 DEF Unwinds, Falling

LEMMA UnwindConcat ==
  ASSUME NEW u, NEW S, Unwinds(u, S), NEW v, NEW T, Unwinds(v, T),
         \A s \in S, t \in T : Rank(s) > Rank(t)
  PROVE  Unwinds(u \o v, S \cup T)
<1>1. u \in Seq(Resources) /\ v \in Seq(Resources) /\ Range(u) = S /\ Range(v) = T
  BY DEF Unwinds
<1>2. /\ u \o v \in Seq(Resources) /\ Len(u \o v) = Len(u) + Len(v)
      /\ \A i \in 1..Len(u) + Len(v) :
           (u \o v)[i] = IF i <= Len(u) THEN u[i] ELSE v[i - Len(u)]
      /\ Len(u) \in Nat /\ Len(v) \in Nat
  BY <1>1, ConcatProperties, LenProperties
<1>3. Range(u \o v) = S \cup T
  BY <1>1, RangeConcatenation
<1>4. /\ \A i \in 1..Len(u) : u[i] \in S
      /\ \A i \in 1..Len(v) : v[i] \in T
  BY <1>1, LenProperties DEF Range
<1>5. ASSUME NEW i \in 1..Len(u \o v), NEW j \in 1..Len(u \o v), i < j
      PROVE  Rank((u \o v)[i]) > Rank((u \o v)[j])
  <2>1. CASE j <= Len(u)
    BY <1>2, <1>5, <2>1 DEF Unwinds, Falling
  <2>2. CASE i <= Len(u) /\ j > Len(u)
    <3>1. j - Len(u) \in 1..Len(v) /\ i \in 1..Len(u)
      BY <1>2, <1>5, <2>2
    <3> QED
      BY <1>2, <1>4, <1>5, <2>2, <3>1
  <2>3. CASE i > Len(u)
    <3>1. i - Len(u) \in 1..Len(v) /\ j - Len(u) \in 1..Len(v) /\ i - Len(u) < j - Len(u)
      BY <1>2, <1>5, <2>3
    <3>2. Rank(v[i - Len(u)]) > Rank(v[j - Len(u)])
      BY <3>1 DEF Unwinds, Falling
    <3> QED
      BY <1>2, <1>5, <2>3, <3>1, <3>2
  <2> QED
    BY <1>2, <1>5, <2>1, <2>2, <2>3
<1> QED
  BY <1>2, <1>3, <1>5 DEF Unwinds, Falling

LEMMA UnwindBufs ==
  ASSUME NEW n \in 0..NBufs
  PROVE  Unwinds(Bufs(n), Range(Bufs(n))) /\ Unwinds(Mrs(n), Range(Mrs(n)))
<1>0. NBufs \in Nat /\ 1..n \subseteq 1..NBufs
  BY NBufsAssumption
<1>1. /\ Bufs(n) \in [1..n -> Resources] /\ \A i \in 1..n : Bufs(n)[i] = Buf(i)
      /\ Mrs(n) \in [1..n -> Resources] /\ \A i \in 1..n : Mrs(n)[i] = Mr(i)
  BY <1>0, Known DEF Bufs, Mrs
<1>2. /\ Bufs(n) \in Seq(Resources) /\ Len(Bufs(n)) = n
      /\ Mrs(n) \in Seq(Resources) /\ Len(Mrs(n)) = n
  BY <1>0, <1>1
<1>3. ASSUME NEW i \in 1..n, NEW j \in 1..n, i < j
      PROVE  Rank(Bufs(n)[i]) > Rank(Bufs(n)[j]) /\ Rank(Mrs(n)[i]) > Rank(Mrs(n)[j])
  <2>1. i \in 1..NBufs /\ j \in 1..NBufs
    BY <1>0
  <2>2. /\ Rank(Buf(i)) = 3 + NBufs - i /\ Rank(Mr(i)) = 3 + 2 * NBufs - i
        /\ Rank(Buf(j)) = 3 + NBufs - j /\ Rank(Mr(j)) = 3 + 2 * NBufs - j
    BY <2>1, Ranks
  <2> QED
    BY <1>0, <1>1, <1>3, <2>2
<1>4. Falling(Bufs(n)) /\ Falling(Mrs(n))
  BY <1>2, <1>3 DEF Falling
<1> QED
  BY <1>2, <1>4 DEF Unwinds

(***************************************************************************)
(* Programs put together.                                                  *)
(***************************************************************************)
LEMMA TakenStep ==
  ASSUME NEW p, NEW i \in Nat
  PROVE  /\ Taken(p, 0) = {}
         /\ Taken(p, i + 1) = Taken(p, i) \cup ({p[i + 1].get} \ {Nothing})
<1>1. 1..i + 1 = 1..i \cup {i + 1} /\ 1..0 = {}
  OBVIOUS
<1> QED
  BY <1>1 DEF Taken

LEMMA LeadsOne ==
  ASSUME NEW held, NEW s, StepRight(s, held)
  PROVE  Leads(<<s>>, held, IF s.get = Nothing THEN held ELSE held \cup {s.get})
<1> DEFINE p == <<s>>
<1>1. p \in Seq(StepType) /\ Len(p) = 1 /\ p[1] = s
  BY DEF StepRight
<1>2. Taken(p, 0) = {} /\ Taken(p, 1) = {s.get} \ {Nothing}
  BY <1>1, TakenStep DEF Taken
<1> HIDE DEF p
<1>3. held \cup Taken(p, 0) = held
  BY <1>2
<1>4. (IF s.get = Nothing THEN held ELSE held \cup {s.get}) = held \cup Taken(p, 1)
  BY <1>2
<1>5. \A i \in 1..Len(p) : i = 1 /\ i - 1 = 0 /\ p[i] = s
  BY <1>1
<1>6. \A i \in 1..Len(p) : StepRight(p[i], held \cup Taken(p, i - 1))
  BY <1>3, <1>5
<1>7. Leads(p, held, IF s.get = Nothing THEN held ELSE held \cup {s.get})
  BY <1>1, <1>4, <1>6 DEF Leads
<1> QED
  BY <1>7 DEF p

LEMMA LeadsNone ==
  ASSUME NEW held
  PROVE  Leads(<<>>, held, held)
<1>1. <<>> \in Seq(StepType) /\ Len(<<>>) = 0
  BY EmptySeq
<1> QED
  BY <1>1 DEF Leads, Taken

LEMMA LeadsThen ==
  ASSUME NEW p, NEW q, NEW a, NEW b, NEW c, Leads(p, a, b), Leads(q, b, c)
  PROVE  Leads(p \o q, a, c)
<1> DEFINE m == Len(p) + Len(q)
<1>1. p \in Seq(StepType) /\ q \in Seq(StepType)
  BY DEF Leads
<1>2. /\ p \o q \in Seq(StepType) /\ Len(p \o q) = m
      /\ \A i \in 1..m : (p \o q)[i] = IF i <= Len(p) THEN p[i] ELSE q[i - Len(p)]
      /\ Len(p) \in Nat /\ Len(q) \in Nat
  BY <1>1, ConcatProperties, LenProperties
<1>3. ASSUME NEW i \in 0..Len(p)
      PROVE  Taken(p \o q, i) = Taken(p, i)
  <2>1. \A j \in 1..i : (p \o q)[j] = p[j]
    BY <1>2
  <2> QED
    BY <2>1 DEF Taken
<1>4. ASSUME NEW i \in 0..Len(q)
      PROVE  Taken(p \o q, Len(p) + i) = Taken(p, Len(p)) \cup Taken(q, i)
  <2>1. /\ \A j \in 1..Len(p) : j \in 1..Len(p) + i /\ (p \o q)[j] = p[j]
        /\ \A j \in 1..i : Len(p) + j \in 1..Len(p) + i /\ (p \o q)[Len(p) + j] = q[j]
        /\ \A j \in 1..Len(p) + i : \/ j \in 1..Len(p) /\ (p \o q)[j] = p[j]
                                    \/ j - Len(p) \in 1..i /\ (p \o q)[j] = q[j - Len(p)]
    BY <1>2
  <2> DEFINE All == {(p \o q)[j].get : j \in 1..Len(p) + i}
             Of(r, k) == {r[j].get : j \in 1..k}
  <2>2. All \subseteq Of(p, Len(p)) \cup Of(q, i)
    BY <2>1
  <2>3. Of(p, Len(p)) \subseteq All /\ Of(q, i) \subseteq All
    <3>1. ASSUME NEW j \in 1..Len(p)
          PROVE  p[j].get \in All
      BY <2>1
    <3>2. ASSUME NEW j \in 1..i
          PROVE  q[j].get \in All
      <4>1. Len(p) + j \in 1..Len(p) + i /\ (p \o q)[Len(p) + j] = q[j]
        BY <2>1
      <4>2. (p \o q)[Len(p) + j].get \in All
        BY <4>1
      <4> QED
        BY <4>1, <4>2
    <3> QED
      BY <3>1, <3>2
  <2>4. All = Of(p, Len(p)) \cup Of(q, i)
    BY <2>2, <2>3
  <2> QED
    BY <2>4 DEF Taken
<1>5. ASSUME NEW i \in 1..m
      PROVE  StepRight((p \o q)[i], a \cup Taken(p \o q, i - 1))
  <2>1. CASE i <= Len(p)
    <3>1. i \in 1..Len(p) /\ i - 1 \in 0..Len(p) /\ (p \o q)[i] = p[i]
      BY <1>2, <2>1
    <3> QED
      BY <1>3, <3>1 DEF Leads
  <2>2. CASE i > Len(p)
    <3> DEFINE k == i - Len(p)
    <3>1. k \in 1..Len(q) /\ k - 1 \in 0..Len(q) /\ i - 1 = Len(p) + (k - 1)
          /\ (p \o q)[i] = q[k]
      BY <1>2, <2>2
    <3>2. a \cup Taken(p \o q, i - 1) = b \cup Taken(q, k - 1)
      BY <1>4, <3>1 DEF Leads
    <3>3. StepRight(q[k], b \cup Taken(q, k - 1))
      BY <3>1 DEF Leads
    <3> QED
      BY <3>1, <3>2, <3>3
  <2> QED
    BY <1>2, <2>1, <2>2
<1>6. c = a \cup Taken(p \o q, m)
  BY <1>2, <1>4 DEF Leads
<1> QED
  BY <1>2, <1>5, <1>6 DEF Leads

LEMMA SeqOfLength ==
  ASSUME NEW n \in Nat, NEW S, NEW f \in [1..n -> S]
  PROVE  f \in Seq(S) /\ Len(f) = n
  OBVIOUS

LEMMA Pair ==
  ASSUME NEW S, NEW s \in S, NEW t \in S
  PROVE  <<s>> \o <<t>> = <<s, t>>
<1> DEFINE u == <<s>> \o <<t>>
           v == <<s, t>>
<1>1. <<s>> \in Seq(S) /\ Len(<<s>>) = 1 /\ <<t>> \in Seq(S) /\ Len(<<t>>) = 1
  OBVIOUS
<1>2. u \in Seq(S) /\ Len(u) = 2 /\ u[1] = s /\ u[2] = t
  BY <1>1, ConcatProperties
<1>3. v \in Seq(S) /\ Len(v) = 2 /\ v[1] = s /\ v[2] = t
  OBVIOUS
<1> HIDE DEF u, v
<1>4. \A i \in 1..Len(u) : u[i] = v[i]
  BY <1>2, <1>3
<1>5. u = v
  BY <1>2, <1>3, <1>4, SeqEqual
<1> QED
  BY <1>5 DEF u, v

LEMMA LeadsPush ==
  ASSUME NEW s, NEW t, NEW a, NEW b, NEW c, Leads(<<s>>, a, b), Leads(<<t>>, b, c)
  PROVE  Leads(<<s, t>>, a, c)
<1>1. <<s>> \in Seq(StepType) /\ <<t>> \in Seq(StepType)
  BY DEF Leads
<1>2. s \in StepType /\ t \in StepType
  BY <1>1
<1>3. <<s>> \o <<t>> = <<s, t>>
  BY <1>2, Pair
<1> QED
  BY <1>3, LeadsThen

LEMMA LeadsTriple ==
  ASSUME NEW s, NEW t, NEW u, NEW a, NEW b, NEW c, NEW d,
         Leads(<<s>>, a, b), Leads(<<t>>, b, c), Leads(<<u>>, c, d)
  PROVE  Leads(<<s, t, u>>, a, d)
<1>1. Leads(<<s, t>> \o <<u>>, a, d)
  BY LeadsPush, LeadsThen
<1>2. s \in StepType /\ t \in StepType /\ u \in StepType
  <2>1. <<s>> \in Seq(StepType) /\ <<t>> \in Seq(StepType) /\ <<u>> \in Seq(StepType)
    BY DEF Leads
  <2> QED
    BY <2>1
<1> DEFINE v == <<s, t>> \o <<u>>
           w == <<s, t, u>>
<1>3. <<s, t>> \in Seq(StepType) /\ Len(<<s, t>>) = 2 /\ <<u>> \in Seq(StepType) /\ Len(<<u>>) = 1
  BY <1>2
<1>4. v \in Seq(StepType) /\ Len(v) = 3 /\ v[1] = s /\ v[2] = t /\ v[3] = u
  BY <1>3, ConcatProperties
<1>5. w \in Seq(StepType) /\ Len(w) = 3 /\ w[1] = s /\ w[2] = t /\ w[3] = u
  BY <1>2
<1> HIDE DEF v, w
<1>6. \A i \in 1..Len(v) : v[i] = w[i]
  BY <1>4, <1>5
<1>7. v = w
  BY <1>4, <1>5, <1>6, SeqEqual
<1> QED
  BY <1>1, <1>7 DEF v, w

(* Every resource is something, and the list of devices always stays.      *)
LEMMA Somethings ==
  /\ \A r \in Resources : r # Nothing
  /\ \A name : DevList \in Leaves(name)
<1>1. \A r \in Resources : r # Nothing
  BY ResourceCases DEF Nothing, DevList, Ctx, Pd, Thread, Buf, Mr
<1>2. ASSUME NEW name
      PROVE  DevList \in Leaves(name)
  BY Known DEF Leaves
<1> QED
  BY <1>1, <1>2

(* Labels that give back all that is held, but for the list of devices,    *)
(* fit every step but the one whose failure leaves the process.            *)
LEMMA UnwindsFits ==
  ASSUME NEW name \in Names \ {"listen"}, NEW u, NEW S, Unwinds(u, S), NEW held,
         held = S \cup {DevList}
  PROVE  Fits(name, u, held)
<1>1. DevList \in Leaves(name)
  BY Somethings
<1> QED
  BY <1>1 DEF Fits, Unwinds

(* No labels fit where nothing is to be given back.                        *)
LEMMA NoneFits ==
  ASSUME NEW name \in Names, NEW held, held \subseteq Leaves(name)
  PROVE  Fits(name, <<>>, held)
<1> DEFINE u == <<>>
<1>1. u \in Seq(Resources) /\ Range(u) = {} /\ Falling(u)
  BY UnwindNone DEF Unwinds
<1> HIDE DEF u
<1>2. Fits(name, u, held)
  BY <1>1 DEF Fits
<1> QED
  BY <1>2 DEF u

(* A step that takes nothing, and a step that takes a resource.            *)
LEMMA LeadsIdle ==
  ASSUME NEW name, NEW u, NEW held, Fits(name, u, held)
  PROVE  Leads(<<Step(name, Nothing, u)>>, held, held)
<1> DEFINE s == Step(name, Nothing, u)
<1>1. s.name = name /\ s.get = Nothing /\ s.undo = u /\ s \in StepType
  BY DEF Step, StepType, Fits
<1> HIDE DEF s
<1>2. StepRight(s, held)
  BY <1>1 DEF StepRight
<1>3. Leads(<<s>>, held, held)
  BY <1>1, <1>2, LeadsOne
<1> QED
  BY <1>3 DEF s

LEMMA LeadsTake ==
  ASSUME NEW name, NEW u, NEW held, Fits(name, u, held),
         NEW r \in Resources, Needs(r) \subseteq held
  PROVE  Leads(<<Step(name, r, u)>>, held, held \cup {r})
<1> DEFINE s == Step(name, r, u)
<1>1. s.name = name /\ s.get = r /\ s.undo = u /\ s \in StepType
  BY DEF Step, StepType, Fits
<1> HIDE DEF s
<1>2. StepRight(s, held) /\ r # Nothing
  BY <1>1, Somethings DEF StepRight
<1>3. Leads(<<s>>, held, held \cup {r})
  BY <1>1, <1>2, LeadsOne
<1> QED
  BY <1>3 DEF s

(***************************************************************************)
(* pp_ctx_init and pp_ctx_cleanup.                                         *)
(***************************************************************************)
Owned(n, m) == {Pd, Ctx} \cup Range(Bufs(n)) \cup Range(Mrs(m))

LEMMA UnwindOwned ==
  ASSUME NEW n \in 0..NBufs, NEW m \in 0..NBufs
  PROVE  /\ Unwinds(Bufs(n) \o <<Pd, Ctx>>, {Pd, Ctx} \cup Range(Bufs(n)))
         /\ Unwinds(Mrs(m) \o Bufs(n) \o <<Pd, Ctx>>, Owned(n, m))
<1>0. NBufs \in Nat /\ 1..n \subseteq 1..NBufs /\ 1..m \subseteq 1..NBufs
  BY NBufsAssumption
<1>1. Unwinds(<<Pd, Ctx>>, {Pd, Ctx})
  <2>1. Pd \in Resources /\ Ctx \in Resources
    BY Known
  <2>2. Unwinds(<<Pd>>, {Pd}) /\ Unwinds(<<Ctx>>, {Ctx}) /\ <<Pd>> \o <<Ctx>> = <<Pd, Ctx>>
    BY <2>1, UnwindOne, Pair
  <2>3. \A x \in {Pd}, y \in {Ctx} : Rank(x) > Rank(y)
    BY Ranks
  <2>4. Unwinds(<<Pd>> \o <<Ctx>>, {Pd} \cup {Ctx})
    BY <2>2, <2>3, UnwindConcat
  <2>5. {Pd} \cup {Ctx} = {Pd, Ctx}
    OBVIOUS
  <2> QED
    BY <2>2, <2>4, <2>5
<1>2. /\ \A r \in Range(Bufs(n)) : Rank(r) > 2 /\ Rank(r) < 3 + NBufs
      /\ \A r \in Range(Mrs(m)) : Rank(r) >= 3 + NBufs
      /\ Rank(Pd) = 2 /\ Rank(Ctx) = 1
  BY <1>0, BufFacts, Ranks
<1>3. Unwinds(Bufs(n) \o <<Pd, Ctx>>, Range(Bufs(n)) \cup {Pd, Ctx})
  <2>1. \A x \in Range(Bufs(n)), y \in {Pd, Ctx} : Rank(x) > Rank(y)
    <3>1. \A x \in Range(Bufs(n)) : Rank(x) \in Nat
      BY BufFacts, RankTyped
    <3> QED
      BY <1>2, <3>1
  <2> QED
    BY <1>1, <2>1, UnwindBufs, UnwindConcat
<1>4. Unwinds(Mrs(m) \o Bufs(n), Range(Mrs(m)) \cup Range(Bufs(n)))
  <2>1. \A s \in Range(Mrs(m)), t \in Range(Bufs(n)) : Rank(s) > Rank(t)
    <3>1. \A s \in Range(Mrs(m)) \cup Range(Bufs(n)) : Rank(s) \in Nat
      BY BufFacts, RankTyped
    <3> QED
      BY <1>0, <1>2, <3>1
  <2> QED
    BY <2>1, UnwindBufs, UnwindConcat
<1>5. Unwinds((Mrs(m) \o Bufs(n)) \o <<Pd, Ctx>>, (Range(Mrs(m)) \cup Range(Bufs(n))) \cup {Pd, Ctx})
  <2>1. \A s \in Range(Mrs(m)) \cup Range(Bufs(n)), t \in {Pd, Ctx} : Rank(s) > Rank(t)
    <3>1. \A s \in Range(Mrs(m)) \cup Range(Bufs(n)) : Rank(s) \in Nat
      BY BufFacts, RankTyped
    <3> QED
      BY <1>0, <1>2, <3>1
  <2> QED
    BY <1>1, <1>4, <2>1, UnwindConcat
<1>6. Range(Bufs(n)) \cup {Pd, Ctx} = {Pd, Ctx} \cup Range(Bufs(n))
      /\ (Range(Mrs(m)) \cup Range(Bufs(n))) \cup {Pd, Ctx} = Owned(n, m)
  BY DEF Owned
<1> QED
  BY <1>3, <1>5, <1>6

LEMMA LeadsOpen ==
  ASSUME NEW k
  PROVE  Leads(OpenDevice(k), {}, {DevList, Ctx})
<1>1. Leads(<<Step("device_list", DevList, <<>>)>>, {}, {DevList})
  <2>1. Fits("device_list", <<>>, {})
    BY NoneFits DEF Names
  <2>2. Leads(<<Step("device_list", DevList, <<>>)>>, {}, {} \cup {DevList})
    BY <2>1, LeadsTake, Known, NeedsFacts
  <2>3. {} \cup {DevList} = {DevList}
    OBVIOUS
  <2> QED
    BY <2>2, <2>3
<1>2. Leads(<<Step("open_device", Ctx, <<>>)>>, {DevList}, {DevList, Ctx})
  <2>1. Fits("open_device", <<>>, {DevList})
    BY NoneFits, Somethings DEF Names
  <2>2. Leads(<<Step("open_device", Ctx, <<>>)>>, {DevList}, {DevList} \cup {Ctx})
    BY <2>1, LeadsTake, Known, NeedsFacts
  <2>3. {DevList} \cup {Ctx} = {DevList, Ctx}
    OBVIOUS
  <2> QED
    BY <2>2, <2>3
<1>3. Leads(<<Step("query_port", Nothing, <<>>)>>, {DevList, Ctx}, {DevList, Ctx})
  <2>1. Leaves("query_port") = {DevList, Ctx}
    BY DEF Leaves
  <2>2. Fits("query_port", <<>>, {DevList, Ctx})
    BY <2>1, NoneFits DEF Names
  <2> QED
    BY <2>2, LeadsIdle
<1>4. Leads(<<Step("device_list", DevList, <<>>), Step("open_device", Ctx, <<>>)>>,
            {}, {DevList, Ctx})
  BY <1>1, <1>2, LeadsPush
<1> QED
  BY <1>3, <1>4, LeadsNone, LeadsThen DEF OpenDevice

(* The buffers and regions held before the j-th step of the registration.  *)
LEMMA RegisterTaken ==
  ASSUME NEW j \in 0..2 * NBufs
  PROVE  /\ (j + 1) \div 2 \in 0..NBufs /\ j \div 2 \in 0..NBufs
         /\ Taken(RegisterBufs, j) = Range(Bufs((j + 1) \div 2)) \cup Range(Mrs(j \div 2))
<1>0. /\ NBufs \in Nat /\ (j + 1) \div 2 \in 0..NBufs /\ j \div 2 \in 0..NBufs
      /\ j \in Nat /\ 1..j \subseteq 1..2 * NBufs
  BY NBufsAssumption
<1>1. \A i \in 1..2 * NBufs :
        RegisterBufs[i].get = IF i % 2 = 1 THEN Buf((i + 1) \div 2) ELSE Mr((i + 1) \div 2)
  BY DEF RegisterBufs, Step
<1>2. \A i \in 1..2 * NBufs : (i + 1) \div 2 \in 1..NBufs
  BY <1>0
<1>3. \A i \in 1..2 * NBufs : RegisterBufs[i].get # Nothing
  BY <1>1, <1>2, Known, Somethings
<1> DEFINE G == {RegisterBufs[i].get : i \in 1..j}
           b == (j + 1) \div 2
           m == j \div 2
<1>4. ASSUME NEW i \in 1..j
      PROVE  RegisterBufs[i].get \in {Buf(l) : l \in 1..b} \cup {Mr(l) : l \in 1..m}
  <2>1. RegisterBufs[i].get = IF i % 2 = 1 THEN Buf((i + 1) \div 2) ELSE Mr((i + 1) \div 2)
    BY <1>0, <1>1
  <2>2. (i + 1) \div 2 \in 1..b /\ (i % 2 # 1 => (i + 1) \div 2 \in 1..m)
    BY <1>0
  <2> QED
    BY <2>1, <2>2
<1>5. ASSUME NEW l \in 1..b
      PROVE  Buf(l) \in G
  <2> DEFINE i == 2 * l - 1
  <2>1. i \in 1..j /\ i \in 1..2 * NBufs /\ i % 2 = 1 /\ (i + 1) \div 2 = l
    BY <1>0
  <2> HIDE DEF i
  <2>2. RegisterBufs[i].get = Buf(l)
    BY <1>1, <2>1
  <2> QED
    BY <2>1, <2>2
<1>6. ASSUME NEW l \in 1..m
      PROVE  Mr(l) \in G
  <2> DEFINE i == 2 * l
  <2>1. i \in 1..j /\ i \in 1..2 * NBufs /\ i % 2 # 1 /\ (i + 1) \div 2 = l
    BY <1>0
  <2> HIDE DEF i
  <2>2. RegisterBufs[i].get = Mr(l)
    BY <1>1, <2>1
  <2> QED
    BY <2>1, <2>2
<1>7. G = {Buf(l) : l \in 1..b} \cup {Mr(l) : l \in 1..m}
  BY <1>4, <1>5, <1>6
<1>8. Taken(RegisterBufs, j) = G
  BY <1>0, <1>3 DEF Taken
<1>9. Range(Bufs(b)) = {Buf(l) : l \in 1..b} /\ Range(Mrs(m)) = {Mr(l) : l \in 1..m}
  BY <1>0, BufFacts
<1> QED
  BY <1>0, <1>7, <1>8, <1>9

LEMMA LeadsRegister ==
  Leads(RegisterBufs, {DevList, Ctx, Pd}, {DevList} \cup Owned(NBufs, NBufs))
<1> DEFINE p == RegisterBufs
           held(j) == {DevList, Ctx, Pd} \cup Taken(p, j)
<1>0. NBufs \in Nat /\ NBufs \in 0..NBufs
  BY NBufsAssumption
<1>1. ASSUME NEW j \in 1..2 * NBufs
      PROVE  p[j] \in StepType /\ StepRight(p[j], held(j - 1))
  <2> DEFINE i == (j + 1) \div 2
  <2>1. /\ i \in 1..NBufs /\ i \in 0..NBufs /\ i - 1 \in 0..NBufs /\ j - 1 \in 0..2 * NBufs
        /\ ((j - 1) + 1) \div 2 = IF j % 2 = 1 THEN i - 1 ELSE i
        /\ (j - 1) \div 2 = i - 1
    BY <1>0
  <2>2. held(j - 1) = {DevList} \cup Owned(IF j % 2 = 1 THEN i - 1 ELSE i, i - 1)
    BY <2>1, RegisterTaken DEF Owned
  <2>3. p[j] = IF j % 2 = 1 THEN Step("memalign", Buf(i), Bufs(i - 1) \o <<Pd, Ctx>>)
                            ELSE Step("reg_mr", Mr(i), Mrs(i - 1) \o Bufs(i) \o <<Pd, Ctx>>)
    BY DEF RegisterBufs
  <2> HIDE DEF i, p
  <2>4. CASE j % 2 = 1
    <3> DEFINE u == Bufs(i - 1) \o <<Pd, Ctx>>
               s == Step("memalign", Buf(i), u)
    <3>1. p[j] = s /\ held(j - 1) = {DevList} \cup Owned(i - 1, i - 1)
      BY <2>2, <2>3, <2>4
    <3>2. Unwinds(u, {Pd, Ctx} \cup Range(Bufs(i - 1)))
      BY <2>1, UnwindOwned
    <3>3. Range(Mrs(i - 1)) \subseteq Leaves("memalign") /\ DevList \in Leaves("memalign")
      <4>1. Range(Mrs(i - 1)) \subseteq Range(Mrs(NBufs))
        BY <1>0, <2>1, BufFacts
      <4> QED
        BY <4>1 DEF Leaves
    <3> HIDE DEF u
    <3>4. Fits("memalign", u, held(j - 1))
      BY <3>1, <3>2, <3>3 DEF Fits, Unwinds, Owned, Names
    <3>5. Needs(Buf(i)) = {} /\ Buf(i) \in Resources
      BY <2>1, Known, NeedsFacts
    <3>6. s.name = "memalign" /\ s.get = Buf(i) /\ s.undo = u /\ s \in StepType
      BY <3>4, <3>5 DEF Step, StepType, Fits
    <3> HIDE DEF s, held
    <3>7. StepRight(s, held(j - 1))
      BY <3>4, <3>5, <3>6 DEF StepRight
    <3> QED
      BY <3>1, <3>6, <3>7
  <2>5. CASE j % 2 # 1
    <3> DEFINE u == Mrs(i - 1) \o Bufs(i) \o <<Pd, Ctx>>
               s == Step("reg_mr", Mr(i), u)
    <3>1. p[j] = s /\ held(j - 1) = Owned(i, i - 1) \cup {DevList}
      BY <2>2, <2>3, <2>5
    <3>2. Unwinds(u, Owned(i, i - 1))
      BY <2>1, UnwindOwned
    <3> HIDE DEF u, held
    <3>4. Fits("reg_mr", u, held(j - 1))
      BY <3>1, <3>2, UnwindsFits DEF Names
    <3>5. Needs(Mr(i)) = {Pd, Buf(i)} /\ Mr(i) \in Resources /\ Buf(i) \in Range(Bufs(i))
      BY <2>1, Known, NeedsFacts, BufFacts
    <3>6. s.name = "reg_mr" /\ s.get = Mr(i) /\ s.undo = u /\ s \in StepType
      BY <3>4, <3>5 DEF Step, StepType, Fits
    <3> HIDE DEF s
    <3>7. Needs(Mr(i)) \subseteq held(j - 1)
      BY <3>1, <3>5 DEF Owned
    <3>8. StepRight(s, held(j - 1))
      BY <3>4, <3>6, <3>7 DEF StepRight
    <3> QED
      BY <3>1, <3>6, <3>8
  <2> QED
    BY <2>4, <2>5
<1>2. p \in Seq(StepType) /\ Len(p) = 2 * NBufs
  <2>1. p \in [1..2 * NBufs -> StepType]
    <3>1. DOMAIN p = 1..2 * NBufs /\ p = [j \in 1..2 * NBufs |-> p[j]]
      BY DEF RegisterBufs
    <3> HIDE DEF p
    <3> QED
      BY <1>1, <3>1
  <2> HIDE DEF p
  <2> QED
    BY <1>0, <2>1
<1>3. {DevList} \cup Owned(NBufs, NBufs) = {DevList, Ctx, Pd} \cup Taken(p, 2 * NBufs)
  <2>1. 2 * NBufs \in 0..2 * NBufs /\ (2 * NBufs + 1) \div 2 = NBufs /\ (2 * NBufs) \div 2 = NBufs
    BY <1>0
  <2> QED
    BY <2>1, RegisterTaken DEF Owned
<1> HIDE DEF p
<1>4. Leads(p, {DevList, Ctx, Pd}, {DevList} \cup Owned(NBufs, NBufs))
  BY <1>1, <1>2, <1>3 DEF Leads
<1> QED
  BY <1>4 DEF p

LEMMA LeadsCtx ==
  ASSUME NEW k
  PROVE  /\ Leads(CtxInit(k), {}, {DevList} \cup Owned(NBufs, NBufs))
         /\ Unwinds(CtxCleanup, Owned(NBufs, NBufs))
<1>1. Leads(<<Step("alloc_pd", Pd, <<Ctx>>)>>, {DevList, Ctx}, {DevList, Ctx, Pd})
  <2>1. Unwinds(<<Ctx>>, {Ctx}) /\ {DevList, Ctx} = {Ctx} \cup {DevList}
    BY UnwindOne, Known
  <2>2. Fits("alloc_pd", <<Ctx>>, {DevList, Ctx})
    BY <2>1, UnwindsFits DEF Names
  <2>3. Leads(<<Step("alloc_pd", Pd, <<Ctx>>)>>, {DevList, Ctx}, {DevList, Ctx} \cup {Pd})
    BY <2>2, LeadsTake, Known, NeedsFacts
  <2>4. {DevList, Ctx} \cup {Pd} = {DevList, Ctx, Pd}
    OBVIOUS
  <2> QED
    BY <2>3, <2>4
<1>2. Leads(OpenDevice(k) \o <<Step("alloc_pd", Pd, <<Ctx>>)>>, {}, {DevList, Ctx, Pd})
  BY <1>1, LeadsOpen, LeadsThen
<1>3. NBufs \in 0..NBufs
  BY NBufsAssumption
<1> QED
  BY <1>2, <1>3, LeadsRegister, LeadsThen, UnwindOwned DEF CtxInit, CtxCleanup

(***************************************************************************)
(* pp_create_cq_dv, pp_create_qp_dv and their counterparts that destroy:   *)
(* the first k - 1 resources of a queue, the last first.                   *)
(***************************************************************************)
Undone(q, k)   == [j \in 1..k - 1 |-> <<q, QueueGets[k - j]>>]
Gotten(q, k)   == {<<q, QueueGets[m]>> : m \in 1..k - 1}
BaseRank(q)    == IF q = "cq" THEN 4 + 2 * NBufs ELSE 10 + 2 * NBufs

LEMMA QueueRanks ==
  ASSUME NEW q \in {"cq", "qp"}, NEW k \in 1..6
  PROVE  Rank(<<q, QueueGets[k]>>) = BaseRank(q) + k - 1
<1>1. Place(QueueGets[k]) = k - 1
  BY Places DEF QueueGets
<1>2. NBufs \in Nat
  BY NBufsAssumption
<1> QED
  BY <1>1, <1>2, Ranks DEF BaseRank

LEMMA UnwindUndone ==
  ASSUME NEW q \in {"cq", "qp"}, NEW k \in 1..7
  PROVE  Unwinds(Undone(q, k), Gotten(q, k))
<1> DEFINE u == Undone(q, k)
<1>0. NBufs \in Nat /\ BaseRank(q) \in Nat
  BY NBufsAssumption DEF BaseRank
<1>1. \A j \in 1..k - 1 : k - j \in 1..6 /\ k - j \in 1..k - 1
  OBVIOUS
<1>2. \A j \in 1..k - 1 : u[j] = <<q, QueueGets[k - j]>> /\ u[j] \in Resources
  BY <1>1, Known DEF Undone
<1>3. u \in [1..k - 1 -> Resources]
  BY <1>2 DEF Undone
<1>4. u \in Seq(Resources) /\ Len(u) = k - 1 /\ DOMAIN u = 1..k - 1
  BY <1>3
<1> HIDE DEF u
<1>5. Range(u) = Gotten(q, k)
  <2>1. ASSUME NEW m \in 1..k - 1
        PROVE  <<q, QueueGets[m]>> \in Range(u)
    <3>1. k - m \in 1..k - 1 /\ k - (k - m) = m
      OBVIOUS
    <3>2. u[k - m] = <<q, QueueGets[m]>>
      BY <1>2, <3>1
    <3> QED
      BY <1>4, <3>1, <3>2 DEF Range
  <2>2. ASSUME NEW j \in 1..k - 1
        PROVE  u[j] \in Gotten(q, k)
    BY <1>1, <1>2 DEF Gotten
  <2> QED
    BY <1>4, <2>1, <2>2 DEF Range, Gotten
<1>6. ASSUME NEW i \in 1..k - 1, NEW j \in 1..k - 1, i < j
      PROVE  Rank(u[i]) > Rank(u[j])
  <2>1. Rank(u[i]) = BaseRank(q) + (k - i) - 1 /\ Rank(u[j]) = BaseRank(q) + (k - j) - 1
    BY <1>1, <1>2, QueueRanks
  <2> QED
    BY <1>0, <1>6, <2>1
<1>7. Unwinds(u, Gotten(q, k))
  BY <1>4, <1>5, <1>6 DEF Unwinds, Falling
<1> QED
  BY <1>7 DEF u

(* What the queue holds ranks above all that was taken before it.          *)
LEMMA UnwindQueue ==
  ASSUME NEW q \in {"cq", "qp"}, NEW k \in 1..7, NEW outer, NEW S, Unwinds(outer, S),
         \A r \in S : Rank(r) < BaseRank(q)
  PROVE  Unwinds(Undone(q, k) \o outer, Gotten(q, k) \cup S)
<1>1. \A r \in Gotten(q, k) : Rank(r) >= BaseRank(q) /\ Rank(r) \in Nat
  <2>1. ASSUME NEW m \in 1..k - 1
        PROVE  Rank(<<q, QueueGets[m]>>) >= BaseRank(q) /\ Rank(<<q, QueueGets[m]>>) \in Nat
    <3>1. m \in 1..6 /\ BaseRank(q) \in Nat
      BY NBufsAssumption DEF BaseRank
    <3> QED
      BY <3>1, QueueRanks
  <2> QED
    BY <2>1 DEF Gotten
<1>2. \A r \in S : Rank(r) \in Nat
  <2>1. S \subseteq Resources
    BY RangeOfSeq DEF Unwinds
  <2> QED
    BY <2>1, RankTyped
<1>3. BaseRank(q) \in Nat
  BY NBufsAssumption DEF BaseRank
<1>4. \A s \in Gotten(q, k), t \in S : Rank(s) > Rank(t)
  BY <1>1, <1>2, <1>3
<1> QED
  BY <1>4, UnwindUndone, UnwindConcat

LEMMA QueueShapes ==
  ASSUME NEW q
  PROVE  /\ DestroyQueue(q) = Undone(q, 7)
         /\ \A k \in 1..6 : [j \in 1..k - 1 |-> <<q, QueueUnwind[6 - k + j]>>] = Undone(q, k)
<1>1. DestroyQueue(q) = Undone(q, 7)
  <2>1. \A k \in 1..6 : (IF k = 1 THEN "obj" ELSE QueueUnwind[k - 1]) = QueueGets[7 - k]
    BY DEF QueueUnwind, QueueGets
  <2>2. 7 - 1 = 6
    OBVIOUS
  <2> QED
    BY <2>1, <2>2 DEF DestroyQueue, Undone
<1>2. ASSUME NEW k \in 1..6
      PROVE  [j \in 1..k - 1 |-> <<q, QueueUnwind[6 - k + j]>>] = Undone(q, k)
  <2>1. \A j \in 1..k - 1 : QueueUnwind[6 - k + j] = QueueGets[k - j]
    BY DEF QueueUnwind, QueueGets
  <2> QED
    BY <2>1 DEF Undone
<1> QED
  BY <1>1, <1>2

(* What the k-th resource of a queue needs was taken before it.            *)
LEMMA QueueNeedsMet ==
  ASSUME NEW q \in {"cq", "qp"}, NEW k \in 1..6, NEW held, {Ctx, Pd} \subseteq held,
         q = "qp" => <<"cq", "obj">> \in held
  PROVE  Needs(<<q, QueueGets[k]>>) \subseteq held \cup Gotten(q, k)
<1>1. Needs(<<q, QueueGets[k]>>) = QueueNeeds(q, QueueGets[k])
  BY NeedsFacts
<1>2. \A m \in 1..k - 1 : <<q, QueueGets[m]>> \in Gotten(q, k)
  BY DEF Gotten
<1>3. /\ QueueGets[1] = "db" /\ QueueGets[2] = "db_umem" /\ QueueGets[3] = "buf"
      /\ QueueGets[4] = "buff_umem" /\ QueueGets[5] = "uar" /\ QueueGets[6] = "obj"
  BY DEF QueueGets
<1>4. /\ k > 1 => <<q, "db">> \in Gotten(q, k)
      /\ k > 2 => <<q, "db_umem">> \in Gotten(q, k)
      /\ k > 3 => <<q, "buf">> \in Gotten(q, k)
      /\ k > 4 => <<q, "buff_umem">> \in Gotten(q, k)
      /\ k > 5 => <<q, "uar">> \in Gotten(q, k)
  <2>1. /\ k > 1 => 1 \in 1..k - 1 /\ <<q, QueueGets[1]>> \in Gotten(q, k)
        /\ k > 2 => 2 \in 1..k - 1 /\ <<q, QueueGets[2]>> \in Gotten(q, k)
        /\ k > 3 => 3 \in 1..k - 1 /\ <<q, QueueGets[3]>> \in Gotten(q, k)
        /\ k > 4 => 4 \in 1..k - 1 /\ <<q, QueueGets[4]>> \in Gotten(q, k)
        /\ k > 5 => 5 \in 1..k - 1 /\ <<q, QueueGets[5]>> \in Gotten(q, k)
    BY <1>2
  <2> QED
    BY <1>3, <2>1
<1>5. CASE k \in {1, 3}
  BY <1>1, <1>3, <1>5, QueueNeedsFacts
<1>6. CASE k \in {2, 4, 5}
  BY <1>1, <1>3, <1>4, <1>6, QueueNeedsFacts
<1>7. CASE k = 6
  BY <1>1, <1>3, <1>4, <1>7, QueueNeedsFacts
<1> QED
  BY <1>5, <1>6, <1>7

LEMMA LeadsQueue ==
  ASSUME NEW q \in {"cq", "qp"}, NEW first \in Names \ {"listen"}, NEW rest \in Names \ {"listen"},
         NEW outer, NEW S, Unwinds(outer, S), {Ctx, Pd} \subseteq S,
         q = "qp" => <<"cq", "obj">> \in S, \A r \in S : Rank(r) < BaseRank(q)
  PROVE  /\ Leads(CreateQueue(q, first, rest, outer), S \cup {DevList},
                  (Gotten(q, 7) \cup S) \cup {DevList})
         /\ Unwinds(DestroyQueue(q) \o outer, Gotten(q, 7) \cup S)
<1> DEFINE held == S \cup {DevList}
           u(k) == Undone(q, k) \o outer
           p == [k \in 1..6 |-> Step(rest, <<q, QueueGets[k]>>, u(k))]
<1>1. Leads(<<Step(first, Nothing, outer)>>, held, held)
  BY UnwindsFits, LeadsIdle
<1>2. ASSUME NEW k \in 1..6
      PROVE  /\ p[k] \in StepType /\ p[k].get = <<q, QueueGets[k]>>
             /\ StepRight(p[k], held \cup Gotten(q, k))
  <2> DEFINE r == <<q, QueueGets[k]>>
             s == Step(rest, r, u(k))
  <2>1. Unwinds(u(k), Gotten(q, k) \cup S)
    BY UnwindQueue
  <2>2. held \cup Gotten(q, k) = (Gotten(q, k) \cup S) \cup {DevList}
    OBVIOUS
  <2> HIDE DEF u, held
  <2>3. Fits(rest, u(k), held \cup Gotten(q, k))
    BY <2>1, <2>2, UnwindsFits
  <2>4. r \in Resources /\ Needs(r) \subseteq held \cup Gotten(q, k)
    BY Known, QueueNeedsMet DEF held
  <2> HIDE DEF r
  <2>5. s.name = rest /\ s.get = r /\ s.undo = u(k) /\ s \in StepType
    BY <2>3, <2>4 DEF Step, StepType, Fits
  <2>6. p[k] = s
    BY DEF r
  <2> HIDE DEF s, p
  <2>7. StepRight(s, held \cup Gotten(q, k))
    BY <2>3, <2>4, <2>5 DEF StepRight
  <2> QED
    BY <2>5, <2>6, <2>7 DEF r
<1>3. p \in Seq(StepType) /\ Len(p) = 6
  <2>1. DOMAIN p = 1..6 /\ p = [k \in 1..6 |-> p[k]]
    OBVIOUS
  <2> HIDE DEF p
  <2>2. p \in [1..6 -> StepType]
    BY <1>2, <2>1
  <2> QED
    BY <2>2, SeqOfLength
<1> HIDE DEF p, held, u
<1>4. \A k \in 1..7 : Taken(p, k - 1) = Gotten(q, k)
  <2> SUFFICES ASSUME NEW k \in 1..7
               PROVE  Taken(p, k - 1) = Gotten(q, k)
    OBVIOUS
  <2>1. \A m \in 1..k - 1 : m \in 1..6 /\ p[m].get = <<q, QueueGets[m]>>
    BY <1>2
  <2>2. \A m \in 1..k - 1 : <<q, QueueGets[m]>> # Nothing
    BY <2>1, Known, Somethings
  <2> QED
    BY <2>1, <2>2 DEF Taken, Gotten
<1>5. Leads(p, held, held \cup Gotten(q, 7))
  <2>1. Taken(p, Len(p)) = Gotten(q, 7)
    BY <1>3, <1>4
  <2>2. ASSUME NEW k \in 1..Len(p)
        PROVE  StepRight(p[k], held \cup Taken(p, k - 1))
    <3>1. k \in 1..6 /\ k \in 1..7
      BY <1>3
    <3>2. Taken(p, k - 1) = Gotten(q, k)
      BY <1>4, <3>1
    <3> QED
      BY <1>2, <3>1, <3>2
  <2> QED
    BY <1>3, <2>1, <2>2 DEF Leads
<1>6. CreateQueue(q, first, rest, outer) = <<Step(first, Nothing, outer)>> \o p
  <2>1. p = [k \in 1..6 |-> Step(rest, <<q, QueueGets[k]>>,
                [j \in 1..k - 1 |-> <<q, QueueUnwind[6 - k + j]>>] \o outer)]
    BY QueueShapes DEF p, u
  <2> QED
    BY <2>1 DEF CreateQueue
<1>7. held \cup Gotten(q, 7) = (Gotten(q, 7) \cup S) \cup {DevList}
  BY DEF held
<1>8. Leads(CreateQueue(q, first, rest, outer), held, (Gotten(q, 7) \cup S) \cup {DevList})
  <2>1. Leads(<<Step(first, Nothing, outer)>> \o p, held, held \cup Gotten(q, 7))
    BY <1>1, <1>5, LeadsThen
  <2> QED
    BY <1>6, <1>7, <2>1
<1>9. Unwinds(DestroyQueue(q) \o outer, Gotten(q, 7) \cup S)
  BY UnwindQueue, QueueShapes
<1> QED
  BY <1>8, <1>9 DEF held

(***************************************************************************)
(* pp_create_cq_qp_verb, pp_exchange_info, pp_move2rts_dv, and vfio_init.  *)
(***************************************************************************)
LEMMA ContextRanks ==
  /\ \A r \in Owned(NBufs, NBufs) : Rank(r) \in Nat /\ Rank(r) < 3 + 2 * NBufs
  /\ {Ctx, Pd} \subseteq Owned(NBufs, NBufs)
<1>1. NBufs \in Nat /\ NBufs \in 0..NBufs
  BY NBufsAssumption
<1>2. /\ \A r \in Range(Bufs(NBufs)) : Rank(r) \in Nat /\ Rank(r) < 3 + 2 * NBufs
      /\ \A r \in Range(Mrs(NBufs)) : Rank(r) \in Nat /\ Rank(r) < 3 + 2 * NBufs
  BY <1>1, BufFacts, Ranks
<1> QED
  BY <1>1, <1>2, Ranks DEF Owned

(* One more resource, above all others.                                    *)
LEMMA UnwindMore ==
  ASSUME NEW outer, NEW S, Unwinds(outer, S), NEW r \in Resources,
         \A t \in S : Rank(r) > Rank(t)
  PROVE  Unwinds(<<r>> \o outer, {r} \cup S)
  BY UnwindOne, UnwindConcat

(* Steps that take nothing and whose failure leads to main's labels.       *)
LEMMA LeadsOn ==
  ASSUME NEW outer, NEW S, Unwinds(outer, S), NEW name \in Names \ {"listen"}
  PROVE  Leads(<<Step(name, Nothing, outer)>>, S \cup {DevList}, S \cup {DevList})
  BY UnwindsFits, LeadsIdle

LEMMA LeadsVerb ==
  LET S == Owned(NBufs, NBufs)
      T == {<<"verb", "qp">>} \cup ({<<"verb", "cq">>} \cup S)
  IN  /\ Leads(CreateVerb(CtxCleanup), S \cup {DevList}, T \cup {DevList})
      /\ Unwinds(<<<<"verb", "qp">>, <<"verb", "cq">>>> \o CtxCleanup, T)
<1> DEFINE S == Owned(NBufs, NBufs)
           vcq == <<"verb", "cq">>
           vqp == <<"verb", "qp">>
           C == {vcq} \cup S
           T == {vqp} \cup C
           outer == CtxCleanup
<1>0. NBufs \in Nat
  BY NBufsAssumption
<1>1. Unwinds(outer, S)
  BY LeadsCtx
<1>2. vcq \in Resources /\ vqp \in Resources
  BY Known
<1>3. \A t \in S : Rank(vcq) > Rank(t) /\ Rank(vqp) > Rank(t)
  BY <1>0, ContextRanks, Ranks
<1>4. Rank(vqp) > Rank(vcq)
  BY <1>0, Ranks
<1>5. Needs(vcq) = {Ctx} /\ Needs(vqp) = {Pd, vcq} /\ {Ctx, Pd} \subseteq S
  BY NeedsFacts, ContextRanks
<1>6. <<vqp>> \o <<vcq>> = <<vqp, vcq>>
  BY <1>2, Pair
<1> HIDE DEF S, vcq, vqp, outer
<1>7. Unwinds(<<vcq>> \o outer, C)
  BY <1>1, <1>2, <1>3, UnwindMore
<1>8. Unwinds(<<vqp, vcq>> \o outer, T)
  <2>1. Unwinds(<<vqp>> \o <<vcq>>, {vqp} \cup {vcq})
    BY <1>2, <1>4, UnwindOne, UnwindMore
  <2>2. \A s \in {vqp} \cup {vcq}, t \in S : Rank(s) > Rank(t)
    BY <1>3
  <2>3. Unwinds((<<vqp>> \o <<vcq>>) \o outer, ({vqp} \cup {vcq}) \cup S)
    BY <1>1, <2>1, <2>2, UnwindConcat
  <2>4. ({vqp} \cup {vcq}) \cup S = T
    OBVIOUS
  <2> QED
    BY <1>6, <2>3, <2>4
<1>9. Leads(<<Step("create_cq", vcq, outer)>>, S \cup {DevList}, C \cup {DevList})
  <2>1. Fits("create_cq", outer, S \cup {DevList})
    BY <1>1, UnwindsFits DEF Names
  <2>2. Leads(<<Step("create_cq", vcq, outer)>>, S \cup {DevList}, (S \cup {DevList}) \cup {vcq})
    BY <1>2, <1>5, <2>1, LeadsTake
  <2>3. (S \cup {DevList}) \cup {vcq} = C \cup {DevList}
    OBVIOUS
  <2> QED
    BY <2>2, <2>3
<1>10. Leads(<<Step("create_qp", vqp, <<vcq>> \o outer)>>, C \cup {DevList}, T \cup {DevList})
  <2> DEFINE u == <<vcq>> \o outer
  <2> HIDE DEF u
  <2>1. Fits("create_qp", u, C \cup {DevList})
    BY <1>7, UnwindsFits DEF Names, u
  <2>2. Leads(<<Step("create_qp", vqp, u)>>, C \cup {DevList}, (C \cup {DevList}) \cup {vqp})
    BY <1>2, <1>5, <2>1, LeadsTake
  <2>3. (C \cup {DevList}) \cup {vqp} = T \cup {DevList}
    OBVIOUS
  <2> QED
    BY <2>2, <2>3 DEF u
<1>11. Leads(<<Step("modify_qp", Nothing, <<vqp, vcq>> \o outer)>>, T \cup {DevList}, T \cup {DevList})
  BY <1>8, LeadsOn DEF Names
<1>12. Leads(CreateVerb(outer), S \cup {DevList}, T \cup {DevList})
  <2> DEFINE s1 == Step("create_cq", vcq, outer)
             s2 == Step("create_qp", vqp, <<vcq>> \o outer)
             s3 == Step("modify_qp", Nothing, <<vqp, vcq>> \o outer)
  <2>1. CreateVerb(outer) = <<s1, s2, s3>>
    BY DEF CreateVerb, vcq, vqp
  <2>2. Leads(<<s1>>, S \cup {DevList}, C \cup {DevList})
        /\ Leads(<<s2>>, C \cup {DevList}, T \cup {DevList})
        /\ Leads(<<s3>>, T \cup {DevList}, T \cup {DevList})
    BY <1>9, <1>10, <1>11
  <2> HIDE DEF s1, s2, s3
  <2> QED
    BY <2>1, <2>2, LeadsTriple
<1> QED
  BY <1>8, <1>12 DEF S, vcq, vqp, outer

(* A program ends with the traffic, which takes nothing.                   *)
Ends(p) == /\ p \in Seq(StepType) /\ Len(p) # 0
           /\ p[Len(p)].name = "traffic" /\ p[Len(p)].get = Nothing

LEMMA EndsThen ==
  ASSUME NEW p \in Seq(StepType), NEW q, Ends(q)
  PROVE  Ends(p \o q)
<1>1. q \in Seq(StepType) /\ Len(p) \in Nat /\ Len(q) \in Nat /\ Len(q) # 0
  BY LenProperties DEF Ends
<1>2. /\ p \o q \in Seq(StepType) /\ Len(p \o q) = Len(p) + Len(q)
      /\ (p \o q)[Len(p) + Len(q)] = q[(Len(p) + Len(q)) - Len(p)]
  BY <1>1, ConcatProperties
<1>3. (Len(p) + Len(q)) - Len(p) = Len(q)
  BY <1>1
<1> QED
  BY <1>1, <1>2, <1>3 DEF Ends

LEMMA LeadsConnected ==
  ASSUME NEW k, NEW outer, NEW S, Unwinds(outer, S)
  PROVE  /\ Leads(Connected(k, outer), S \cup {DevList}, S \cup {DevList})
         /\ Ends(Connected(k, outer))
<1> DEFINE held == S \cup {DevList}
           Go(name) == <<Step(name, Nothing, outer)>>
<1>1. \A name \in Names \ {"listen"} : Leads(Go(name), held, held)
  BY LeadsOn
<1>2. Leads(<<Step("listen", Nothing, <<>>)>>, held, held)
  <2>1. Leaves("listen") = Resources
    BY DEF Leaves
  <2>2. held \subseteq Resources
    <3>1. S \subseteq Resources
      BY RangeOfSeq DEF Unwinds
    <3> QED
      BY <3>1, Known
  <2>3. Fits("listen", <<>>, held)
    BY <2>1, <2>2, NoneFits DEF Names
  <2> QED
    BY <2>3, LeadsIdle
<1>3. Leads(<<>>, held, held)
  BY LeadsNone
<1>4. /\ Exchange(k, outer) = Go("query_gid")
             \o (IF k = "server" THEN <<Step("listen", Nothing, <<>>)>> ELSE <<>>) \o Go("socket")
      /\ Move2rts(k, outer) = (IF k \in {"server", "verb"} THEN <<>> ELSE Go("rst2init"))
             \o <<Step("init2rtr", Nothing, outer), Step("rtr2rts", Nothing, outer)>>
      /\ Connected(k, outer) = Exchange(k, outer) \o Move2rts(k, outer) \o Go("traffic")
  BY DEF Exchange, Move2rts, Connected
<1>5. {"query_gid", "socket", "rst2init", "init2rtr", "rtr2rts", "traffic"}
        \subseteq Names \ {"listen"}
  BY DEF Names
<1>6. Leads(<<Step("init2rtr", Nothing, outer), Step("rtr2rts", Nothing, outer)>>, held, held)
  BY <1>1, <1>5, LeadsPush
<1>7. Len(Go("traffic")) = 1 /\ Go("traffic")[1].name = "traffic"
      /\ Go("traffic")[1].get = Nothing
  BY DEF Step
<1> HIDE DEF Go, held
<1>8. Leads(Go("query_gid"), held, held) /\ Leads(Go("socket"), held, held)
      /\ Leads(Go("rst2init"), held, held) /\ Leads(Go("traffic"), held, held)
  BY <1>1, <1>5
<1>9. Leads(Exchange(k, outer), held, held)
  <2> DEFINE mid == IF k = "server" THEN <<Step("listen", Nothing, <<>>)>> ELSE <<>>
  <2>1. Leads(mid, held, held)
    BY <1>2, <1>3
  <2> HIDE DEF mid
  <2>2. Leads(Go("query_gid") \o mid, held, held)
    BY <1>8, <2>1, LeadsThen
  <2>3. Leads((Go("query_gid") \o mid) \o Go("socket"), held, held)
    BY <1>8, <2>2, LeadsThen
  <2> QED
    BY <1>4, <2>3 DEF mid
<1>10. Leads(Move2rts(k, outer), held, held)
  <2> DEFINE pre == IF k \in {"server", "verb"} THEN <<>> ELSE Go("rst2init")
             post == <<Step("init2rtr", Nothing, outer), Step("rtr2rts", Nothing, outer)>>
  <2>1. Leads(pre, held, held) /\ Leads(post, held, held)
    BY <1>3, <1>6, <1>8
  <2> HIDE DEF pre, post
  <2>2. Leads(pre \o post, held, held)
    BY <2>1, LeadsThen
  <2> QED
    BY <1>4, <2>2 DEF pre, post
<1>11. Leads(Exchange(k, outer) \o Move2rts(k, outer), held, held)
  BY <1>9, <1>10, LeadsThen
<1>12. Leads(Connected(k, outer), held, held)
  <2>1. Leads((Exchange(k, outer) \o Move2rts(k, outer)) \o Go("traffic"), held, held)
    BY <1>8, <1>11, LeadsThen
  <2> QED
    BY <1>4, <2>1
<1>13. Ends(Connected(k, outer))
  <2>1. Ends(Go("traffic"))
    BY <1>7, <1>8 DEF Ends, Leads
  <2>2. Exchange(k, outer) \o Move2rts(k, outer) \in Seq(StepType)
    BY <1>11 DEF Leads
  <2>3. Ends((Exchange(k, outer) \o Move2rts(k, outer)) \o Go("traffic"))
    BY <2>1, <2>2, EndsThen
  <2> QED
    BY <1>4, <2>3
<1> QED
  BY <1>12, <1>13 DEF held

LEMMA LeadsVfio ==
  LET S == Owned(NBufs, NBufs)
  IN  /\ Leads(VfioInit, S \cup {DevList}, ({Thread} \cup S) \cup {DevList})
      /\ Unwinds(<<Thread>> \o CtxCleanup, {Thread} \cup S)
<1> DEFINE S == Owned(NBufs, NBufs)
           held == S \cup {DevList}
           more == ({Thread} \cup S) \cup {DevList}
           s1 == Step("query_hca_cap", Nothing, CtxCleanup)
           s2 == Step("sigaction", Nothing, CtxCleanup)
           s3 == Step("pthread_create", Thread, CtxCleanup)
           s4 == Step("mad_ifc_port", Nothing, CtxCleanup)
<1>1. Unwinds(CtxCleanup, S) /\ {Ctx, Pd} \subseteq S /\ Thread \in Resources
  BY LeadsCtx, ContextRanks, Known
<1>2. {"query_hca_cap", "sigaction", "pthread_create", "mad_ifc_port"}
        \subseteq Names \ {"listen"}
  BY DEF Names
<1>3. Leads(<<s1>>, held, held) /\ Leads(<<s2>>, held, held)
  BY <1>1, <1>2, LeadsOn
<1>4. Leads(<<s3>>, held, more)
  <2>1. Fits("pthread_create", CtxCleanup, held)
    BY <1>1, <1>2, UnwindsFits
  <2>2. Needs(Thread) \subseteq held
    BY <1>1, NeedsFacts
  <2>3. Leads(<<s3>>, held, held \cup {Thread})
    BY <1>1, <2>1, <2>2, LeadsTake
  <2>4. held \cup {Thread} = more
    OBVIOUS
  <2> QED
    BY <2>3, <2>4
<1>5. Leads(<<s4>>, more, more)
  <2>1. Leaves("mad_ifc_port") = {DevList, Thread}
    BY DEF Leaves
  <2>2. Fits("mad_ifc_port", CtxCleanup, more)
    BY <1>1, <1>2, <2>1 DEF Fits, Unwinds
  <2> QED
    BY <2>2, LeadsIdle
<1>6. VfioInit = <<s1, s2, s3, s4>>
  BY DEF VfioInit
<1>7. \A t \in S : Rank(Thread) > Rank(t)
  BY NBufsAssumption, ContextRanks, Ranks
<1> HIDE DEF s1, s2, s3, s4, S, held, more
<1>8. Leads(<<s1, s2, s3>> \o <<s4>>, held, more)
  BY <1>3, <1>4, <1>5, LeadsTriple, LeadsThen
<1>9. <<s1, s2, s3>> \o <<s4>> = <<s1, s2, s3, s4>>
  <2> DEFINE v == <<s1, s2, s3>> \o <<s4>>
             w == <<s1, s2, s3, s4>>
  <2>1. s1 \in StepType /\ s2 \in StepType /\ s3 \in StepType /\ s4 \in StepType
    <3>1. /\ <<s1>> \in Seq(StepType) /\ <<s2>> \in Seq(StepType)
          /\ <<s3>> \in Seq(StepType) /\ <<s4>> \in Seq(StepType)
      BY <1>3, <1>4, <1>5 DEF Leads
    <3> QED
      BY <3>1
  <2>2. /\ <<s1, s2, s3>> \in Seq(StepType) /\ Len(<<s1, s2, s3>>) = 3
        /\ <<s4>> \in Seq(StepType) /\ Len(<<s4>>) = 1
    BY <2>1
  <2>3. v \in Seq(StepType) /\ Len(v) = 4 /\ v[1] = s1 /\ v[2] = s2 /\ v[3] = s3 /\ v[4] = s4
    BY <2>2, ConcatProperties
  <2>4. w \in Seq(StepType) /\ Len(w) = 4 /\ w[1] = s1 /\ w[2] = s2 /\ w[3] = s3 /\ w[4] = s4
    BY <2>1
  <2> HIDE DEF v, w
  <2>5. \A i \in 1..Len(v) : v[i] = w[i]
    BY <2>3, <2>4
  <2>6. v = w
    BY <2>3, <2>4, <2>5, SeqEqual
  <2> QED
    BY <2>6 DEF v, w
<1>10. Unwinds(<<Thread>> \o CtxCleanup, {Thread} \cup S)
  BY <1>1, <1>7, UnwindMore
<1> QED
  BY <1>6, <1>8, <1>9, <1>10 DEF S, held, more

(***************************************************************************)
(* The main functions.                                                     *)
(***************************************************************************)
LEMMA LeadsDv ==
  ASSUME NEW k, NEW p, NEW outer, NEW S, Unwinds(outer, S), {Ctx, Pd} \subseteq S,
         \A r \in S : Rank(r) < 4 + 2 * NBufs,
         Leads(p, {}, S \cup {DevList})
  PROVE  LET outCq == DestroyQueue("cq") \o outer
             main == p \o CreateQueue("cq", "query_eqn", "create_cq", outer)
                       \o CreateQueue("qp", "init_obj", "create_qp", outCq)
                       \o Connected(k, DestroyQueue("qp") \o outCq)
         IN  (\E all : Leads(main, {}, all)) /\ Ends(main)
<1> DEFINE C == Gotten("cq", 7) \cup S
           Q == Gotten("qp", 7) \cup C
           outCq == DestroyQueue("cq") \o outer
           outQp == DestroyQueue("qp") \o outCq
           cq1 == CreateQueue("cq", "query_eqn", "create_cq", outer)
           qp1 == CreateQueue("qp", "init_obj", "create_qp", outCq)
           last == Connected(k, outQp)
<1>0. NBufs \in Nat
  BY NBufsAssumption
<1>1. {"query_eqn", "create_cq", "init_obj", "create_qp"} \subseteq Names \ {"listen"}
  BY DEF Names
<1>2. Leads(cq1, S \cup {DevList}, C \cup {DevList}) /\ Unwinds(outCq, C)
  <2>1. \A r \in S : Rank(r) < BaseRank("cq")
    BY DEF BaseRank
  <2> QED
    BY <1>1, <2>1, LeadsQueue
<1>3. Leads(qp1, C \cup {DevList}, Q \cup {DevList}) /\ Unwinds(outQp, Q)
  <2>1. {Ctx, Pd} \subseteq C /\ <<"cq", "obj">> \in C
    <3>1. 6 \in 1..7 - 1 /\ QueueGets[6] = "obj"
      BY DEF QueueGets
    <3> QED
      BY <3>1 DEF Gotten
  <2>2. \A r \in C : Rank(r) < BaseRank("qp")
    <3>1. ASSUME NEW m \in 1..7 - 1
          PROVE  Rank(<<"cq", QueueGets[m]>>) < 10 + 2 * NBufs
      <4>1. Rank(<<"cq", QueueGets[m]>>) = (4 + 2 * NBufs) + m - 1
        BY QueueRanks DEF BaseRank
      <4> QED
        BY <1>0, <4>1
    <3>2. \A r \in S : Rank(r) < 10 + 2 * NBufs
      <4>1. S \subseteq Resources
        BY RangeOfSeq DEF Unwinds
      <4> QED
        BY <1>0, <4>1, RankTyped
    <3> QED
      BY <3>1, <3>2 DEF Gotten, BaseRank
  <2> HIDE DEF C, outCq
  <2> QED
    BY <1>1, <1>2, <2>1, <2>2, LeadsQueue
<1>4. Leads(last, Q \cup {DevList}, Q \cup {DevList}) /\ Ends(last)
  <2> HIDE DEF Q, outQp
  <2> QED
    BY <1>3, LeadsConnected
<1> DEFINE main == p \o cq1 \o qp1 \o last
<1>5. Leads(main, {}, Q \cup {DevList}) /\ Ends(main)
  <2> HIDE DEF cq1, qp1, last, C, Q
  <2>1. Leads(p \o cq1, {}, C \cup {DevList})
    BY <1>2, LeadsThen
  <2>2. Leads((p \o cq1) \o qp1, {}, Q \cup {DevList})
    BY <1>3, <2>1, LeadsThen
  <2>3. (p \o cq1) \o qp1 \in Seq(StepType)
    BY <2>2 DEF Leads
  <2> QED
    BY <1>4, <2>2, <2>3, LeadsThen, EndsThen
<1> QED
  BY <1>5

LEMMA ProgramLeads ==
  ASSUME NEW k \in Kinds
  PROVE  (\E all : Leads(Main(k), {}, all)) /\ Ends(Main(k))
<1> DEFINE S == Owned(NBufs, NBufs)
<1>0. NBufs \in Nat
  BY NBufsAssumption
<1>1. /\ \A j : Leads(CtxInit(j), {}, {DevList} \cup S)
      /\ {DevList} \cup S = S \cup {DevList}
      /\ Unwinds(CtxCleanup, S)
  BY LeadsCtx
<1>2. ASSUME NEW j
      PROVE  (\E all : Leads(MainVerb(j), {}, all)) /\ Ends(MainVerb(j))
  <2> DEFINE out == <<<<"verb", "qp">>, <<"verb", "cq">>>> \o CtxCleanup
             T == {<<"verb", "qp">>} \cup ({<<"verb", "cq">>} \cup S)
             first == CtxInit(j) \o CreateVerb(CtxCleanup)
             last == Connected(j, out)
  <2>1. Leads(CreateVerb(CtxCleanup), S \cup {DevList}, T \cup {DevList}) /\ Unwinds(out, T)
    BY LeadsVerb
  <2>2. MainVerb(j) = first \o last
    BY DEF MainVerb
  <2> HIDE DEF S, T, out
  <2>3. Leads(first, {}, T \cup {DevList})
    BY <1>1, <2>1, LeadsThen
  <2>4. Leads(last, T \cup {DevList}, T \cup {DevList}) /\ Ends(last)
    BY <2>1, LeadsConnected
  <2> HIDE DEF first, last
  <2>5. Leads(first \o last, {}, T \cup {DevList})
    BY <2>3, <2>4, LeadsThen
  <2>6. first \in Seq(StepType)
    BY <2>3 DEF Leads
  <2>7. Ends(first \o last)
    BY <2>4, <2>6, EndsThen
  <2> QED
    BY <2>2, <2>5, <2>7
<1>3. (\E all : Leads(MainDv, {}, all)) /\ Ends(MainDv)
  <2>1. Leads(CtxInit("dv"), {}, S \cup {DevList})
    BY <1>1
  <2>2. {Ctx, Pd} \subseteq S /\ \A r \in S : Rank(r) < 4 + 2 * NBufs
    BY <1>0, ContextRanks
  <2> HIDE DEF S
  <2> QED
    BY <1>1, <2>1, <2>2, LeadsDv DEF MainDv
<1>4. (\E all : Leads(MainVfio, {}, all)) /\ Ends(MainVfio)
  <2> DEFINE V == {Thread} \cup S
             p == CtxInit("vfio") \o VfioInit
             outer == <<Thread>> \o CtxCleanup
  <2>1. Leads(VfioInit, S \cup {DevList}, V \cup {DevList}) /\ Unwinds(outer, V)
    BY LeadsVfio
  <2>2. {Ctx, Pd} \subseteq V /\ \A r \in V : Rank(r) < 4 + 2 * NBufs
    BY <1>0, ContextRanks, Ranks
  <2> HIDE DEF S, V
  <2>3. Leads(p, {}, V \cup {DevList})
    BY <1>1, <2>1, LeadsThen
  <2>4. MainVfio = LET outCq == DestroyQueue("cq") \o outer
                   IN  p \o CreateQueue("cq", "query_eqn", "create_cq", outer)
                         \o CreateQueue("qp", "init_obj", "create_qp", outCq)
                         \o Connected("vfio", DestroyQueue("qp") \o outCq)
    BY DEF MainVfio
  <2> HIDE DEF p, outer
  <2> QED
    BY <2>1, <2>2, <2>3, <2>4, LeadsDv
<1> QED
  BY <1>2, <1>3, <1>4 DEF Main, MainServer, Kinds

(***************************************************************************)
(* The inductive invariant.                                                *)
(***************************************************************************)

(* Until a step fails or the last succeeds a program holds what its steps  *)
(* took; then it holds what the labels reached still give back, and what   *)
(* they leave.                                                             *)
HeldRight ==
  /\ Running => todo = <<>> /\ live = Taken(Program, at - 1)
  /\ todo \in Seq(Resources) /\ Falling(todo) /\ Range(todo) \subseteq live
  /\ ~Running => live \subseteq Range(todo) \cup Leaves(failed)
  /\ failed = "listen" => todo = <<>>

(* The resources the two paths leave without what they need.               *)
Stranded == IF failed = "memalign" THEN Range(Mrs(NBufs))
            ELSE IF failed = "mad_ifc_port" THEN {Thread} ELSE {}

NeedsKept == \A r \in live \ Stranded : Needs(r) \subseteq live

IndInv == TypeOK /\ HeldRight /\ NeedsKept

(* Of the program that runs.                                               *)
LEMMA ProgramFacts ==
  ASSUME kind \in Kinds
  PROVE  /\ Program \in Seq(StepType) /\ Len(Program) \in Nat \ {0}
         /\ \A i \in 1..Len(Program) : StepRight(Program[i], Taken(Program, i - 1))
         /\ Program[Len(Program)].name = "traffic" /\ Program[Len(Program)].get = Nothing
<1>1. PICK all : Leads(Program, {}, all)
  BY ProgramLeads DEF Program
<1>2. Ends(Program)
  BY ProgramLeads DEF Program
<1>3. \A i : {} \cup Taken(Program, i) = Taken(Program, i)
  OBVIOUS
<1>4. ASSUME NEW i \in 1..Len(Program)
      PROVE  StepRight(Program[i], Taken(Program, i - 1))
  <2>1. StepRight(Program[i], {} \cup Taken(Program, i - 1))
    BY <1>1 DEF Leads
  <2> QED
    BY <1>3, <2>1
<1>5. Len(Program) \in Nat \ {0}
  BY <1>2, LenProperties DEF Ends
<1> QED
  BY <1>2, <1>4, <1>5 DEF Ends

LEMMA StepFacts ==
  ASSUME IndInv, Running
  PROVE  LET s == Program[at]
         IN  /\ at \in 1..Len(Program) /\ s \in StepType /\ Fits(s.name, s.undo, live)
             /\ s.name \in Names /\ s.name # "none" /\ s.undo \in Seq(Resources)
             /\ s.get # Nothing => s.get \in Resources /\ Needs(s.get) \subseteq live
             /\ live \cup ({s.get} \ {Nothing}) = Taken(Program, at)
             /\ todo = <<>> /\ failed = "none" /\ NeedsKept /\ Stranded = {}
<1>1. at \in 1..Len(Program) /\ failed = "none" /\ todo = <<>> /\ live = Taken(Program, at - 1)
  BY ProgramFacts DEF IndInv, TypeOK, HeldRight, Running
<1>2. StepRight(Program[at], live)
  BY <1>1, ProgramFacts DEF IndInv, TypeOK
<1>3. at - 1 \in Nat /\ (at - 1) + 1 = at
  BY <1>1
<1>4. Taken(Program, (at - 1) + 1)
        = Taken(Program, at - 1) \cup ({Program[(at - 1) + 1].get} \ {Nothing})
  BY <1>3, TakenStep
<1>5. "none" \notin Names
  BY DEF Names
<1> DEFINE s == Program[at]
<1>6. s \in StepType /\ Fits(s.name, s.undo, live) /\ (s.get # Nothing => Needs(s.get) \subseteq live)
  BY <1>2 DEF StepRight
<1>7. Stranded = {}
  BY <1>1 DEF Stranded
<1> HIDE DEF s
<1>8. s.name \in Names /\ s.undo \in Seq(Resources) /\ (s.get # Nothing => s.get \in Resources)
  BY <1>6 DEF StepType
<1> QED
  BY <1>1, <1>3, <1>4, <1>5, <1>6, <1>7, <1>8 DEF s, IndInv

LEMMA InitIndInv == Init => IndInv
<1> SUFFICES ASSUME Init
             PROVE  IndInv
  OBVIOUS
<1>1. /\ kind \in Kinds /\ at = 1 /\ todo = <<>> /\ failed = "none" /\ live = {}
      /\ thread = "none"
  BY DEF Init
<1>2. Len(Program) \in Nat \ {0}
  BY <1>1, ProgramFacts
<1>3. todo \in Seq(Resources) /\ Range(todo) = {} /\ Falling(todo)
  BY <1>1, UnwindNone DEF Unwinds
<1>4. Running /\ Taken(Program, at - 1) = {}
  <2>1. at - 1 = 0 /\ 1..0 = {}
    BY <1>1
  <2> QED
    BY <1>1, <1>2, <2>1 DEF Running, Taken
<1>5. TypeOK
  BY <1>1, <1>2, <1>3 DEF TypeOK
<1>6. HeldRight
  BY <1>1, <1>3, <1>4 DEF HeldRight
<1>7. NeedsKept
  BY <1>1 DEF NeedsKept
<1> QED
  BY <1>5, <1>6, <1>7 DEF IndInv

LEMMA SucceedKeeps ==
  ASSUME IndInv, Succeed
  PROVE  IndInv'
<1> DEFINE s == Program[at]
<1>1. Running /\ kind \in Kinds /\ Program' = Program
  BY DEF Succeed, IndInv, TypeOK, Program
<1>2. /\ at \in 1..Len(Program) /\ s \in StepType /\ Fits(s.name, s.undo, live)
      /\ s.undo \in Seq(Resources)
      /\ s.get # Nothing => s.get \in Resources /\ Needs(s.get) \subseteq live
      /\ live \cup ({s.get} \ {Nothing}) = Taken(Program, at)
      /\ todo = <<>> /\ failed = "none" /\ NeedsKept /\ Stranded = {}
  BY <1>1, StepFacts
<1>3. /\ live' = live \cup ({s.get} \ {Nothing})
      /\ todo' = IF at = Len(Program) THEN s.undo ELSE todo
      /\ thread' = IF s.get = Thread THEN "start" ELSE thread
      /\ at' = at + 1 /\ kind' = kind /\ failed' = failed
  BY DEF Succeed
<1>4. Len(Program) \in Nat \ {0}
  BY <1>1, ProgramFacts
<1>5. live \subseteq Resources /\ live' \subseteq Resources
  BY <1>2, <1>3 DEF IndInv, TypeOK
<1> HIDE DEF s
<1>6. todo' \in Seq(Resources) /\ Falling(todo') /\ Range(todo') \subseteq live'
  <2>1. CASE at = Len(Program)
    BY <1>2, <1>3, <2>1 DEF Fits
  <2>2. CASE at # Len(Program)
    <3>1. todo' = todo
      BY <1>3, <2>2
    <3> QED
      BY <1>3, <3>1 DEF IndInv, HeldRight
  <2> QED
    BY <2>1, <2>2
<1>7. Range(todo') \subseteq Resources
  BY <1>5, <1>6
<1>8. Running' => todo' = <<>> /\ live' = Taken(Program', at' - 1)
  <2>1. at' - 1 = at /\ (Running' => at # Len(Program))
    BY <1>1, <1>2, <1>3, <1>4 DEF Running
  <2> QED
    BY <1>1, <1>2, <1>3, <2>1
<1>9. ~Running' => live' \subseteq Range(todo') \cup Leaves(failed')
  <2> SUFFICES ASSUME ~Running'
               PROVE  live' \subseteq Range(todo') \cup Leaves(failed')
    OBVIOUS
  <2>1. at = Len(Program)
    BY <1>1, <1>2, <1>3, <1>4 DEF Running
  <2>2. s.name = "traffic" /\ s.get = Nothing
    BY <1>1, <2>1, ProgramFacts DEF s
  <2>3. Leaves("traffic") = {DevList} /\ Leaves("none") = {DevList}
    BY DEF Leaves
  <2>4. live \subseteq Range(s.undo) \cup {DevList}
    BY <1>2, <2>2, <2>3 DEF Fits
  <2> QED
    BY <1>2, <1>3, <2>1, <2>2, <2>3, <2>4
<1>10. HeldRight'
  <2>1. failed' # "listen"
    BY <1>2, <1>3
  <2> QED
    BY <1>6, <1>8, <1>9, <2>1 DEF HeldRight
<1>11. TypeOK'
  <2>1. at' \in 1..Len(Program) + 1
    BY <1>2, <1>3, <1>4
  <2> QED
    BY <1>1, <1>2, <1>3, <1>5, <1>7, <2>1 DEF IndInv, TypeOK
<1>12. NeedsKept'
  <2>1. \A r \in live : Needs(r) \subseteq live
    BY <1>2 DEF NeedsKept
  <2>2. \A r \in live' : Needs(r) \subseteq live'
    BY <1>2, <1>3, <2>1
  <2> QED
    BY <2>2 DEF NeedsKept
<1> QED
  BY <1>10, <1>11, <1>12 DEF IndInv

LEMMA FailKeeps ==
  ASSUME IndInv, Fail
  PROVE  IndInv'
<1> DEFINE s == Program[at]
<1>1. Running /\ kind \in Kinds /\ Program' = Program
  BY DEF Fail, IndInv, TypeOK, Program
<1>2. /\ at \in 1..Len(Program) /\ Fits(s.name, s.undo, live) /\ s.name # "none"
      /\ s.undo \in Seq(Resources) /\ NeedsKept /\ Stranded = {}
  BY <1>1, StepFacts
<1>3. failed' = s.name /\ todo' = s.undo /\ UNCHANGED <<kind, at, live, thread>>
  BY DEF Fail
<1>4. failed' \in {Program[i].name : i \in 1..Len(Program)}
  BY <1>2, <1>3
<1> HIDE DEF s
<1>5. /\ Falling(todo') /\ Range(todo') \subseteq live /\ todo' \in Seq(Resources)
      /\ live \subseteq Range(todo') \cup Leaves(failed')
      /\ failed' = "listen" => Range(todo') = {}
  BY <1>2, <1>3 DEF Fits
<1>6. ~Running'
  BY <1>2, <1>3 DEF Running
<1>7. failed' = "listen" => todo' = <<>>
  <2>1. Len(todo') \in Nat /\ DOMAIN todo' = 1..Len(todo')
    BY <1>5, LenProperties
  <2>2. todo' # <<>> => 1 \in DOMAIN todo'
    BY <1>5, <2>1, EmptySeq
  <2> QED
    BY <1>5, <2>2 DEF Range
<1>8. HeldRight'
  BY <1>3, <1>5, <1>6, <1>7 DEF HeldRight
<1>9. TypeOK'
  BY <1>1, <1>3, <1>4, <1>5 DEF IndInv, TypeOK
<1>10. NeedsKept'
  BY <1>2, <1>3 DEF NeedsKept
<1> QED
  BY <1>8, <1>9, <1>10 DEF IndInv

(* The resource given back is the highest, so nothing held needs it but    *)
(* what the labels have skipped.                                           *)
LEMMA ReleaseKeeps ==
  ASSUME IndInv, Release
  PROVE  IndInv'
<1> DEFINE h == Head(todo)
<1>1. /\ todo # <<>> /\ live' = live \ {h} /\ todo' = Tail(todo)
      /\ thread' = IF h = Thread THEN "joined" ELSE thread
      /\ UNCHANGED <<kind, at, failed>>
  BY DEF Release
<1>2. /\ todo \in Seq(Resources) /\ Falling(todo) /\ Range(todo) \subseteq live
      /\ live \subseteq Resources /\ failed # "listen"
  BY <1>1 DEF IndInv, HeldRight, TypeOK
<1>3. ~Running /\ Program' = Program /\ Running' = Running
  BY <1>1 DEF IndInv, HeldRight, Running, Program
<1>4. /\ Len(todo) \in Nat \ {0} /\ DOMAIN todo = 1..Len(todo)
      /\ h = todo[1] /\ todo' \in Seq(Resources) /\ Len(todo') = Len(todo) - 1
      /\ DOMAIN todo' = 1..Len(todo')
      /\ \A i \in 1..Len(todo') : todo'[i] = todo[i + 1]
  <2>1. Len(todo) \in Nat \ {0} /\ DOMAIN todo = 1..Len(todo) /\ h = todo[1]
    BY <1>1, <1>2, EmptySeq, LenProperties
  <2> DEFINE t == Tail(todo)
  <2>2. t \in Seq(Resources) /\ Len(t) = Len(todo) - 1 /\ \A i \in 1..Len(t) : t[i] = todo[i + 1]
    BY <1>1, <1>2, HeadTailProperties
  <2>3. DOMAIN t = 1..Len(t)
    BY <2>2, LenProperties
  <2> HIDE DEF t, h
  <2>4. todo' = t
    BY <1>1 DEF t
  <2> QED
    BY <2>1, <2>2, <2>3, <2>4
<1> HIDE DEF h
<1>5. h \in live /\ h \in Resources
  BY <1>2, <1>4 DEF Range
<1>6. \A r \in Range(todo') : r \in Range(todo) /\ Rank(h) > Rank(r)
  <2>1. ASSUME NEW i \in 1..Len(todo')
        PROVE  todo'[i] \in Range(todo) /\ Rank(h) > Rank(todo'[i])
    <3>1. 1 \in 1..Len(todo) /\ i + 1 \in 1..Len(todo) /\ 1 < i + 1
      BY <1>4
    <3>2. Rank(todo[1]) > Rank(todo[i + 1])
      BY <1>2, <3>1 DEF Falling
    <3> QED
      BY <1>4, <3>1, <3>2 DEF Range
  <2> QED
    BY <1>4, <2>1 DEF Range
<1>7. Range(todo) \subseteq Range(todo') \cup {h}
  <2>1. ASSUME NEW i \in 1..Len(todo)
        PROVE  todo[i] \in Range(todo') \cup {h}
    <3>1. CASE i = 1
      BY <1>4, <3>1
    <3>2. CASE i # 1
      <4>1. i - 1 \in 1..Len(todo') /\ (i - 1) + 1 = i
        BY <1>4, <3>2
      <4>2. todo'[i - 1] = todo[i]
        BY <1>4, <4>1
      <4> QED
        BY <1>4, <4>1, <4>2 DEF Range
    <3> QED
      BY <3>1, <3>2
  <2> QED
    BY <1>4, <2>1 DEF Range
<1>8. HeldRight'
  <2>1. Range(todo') \subseteq live'
    <3>1. \A r \in Range(todo') : r # h
      <4>1. Rank(h) \in Nat
        BY <1>5, RankTyped
      <4> QED
        BY <1>6, <4>1
    <3> QED
      BY <1>1, <1>2, <1>6, <3>1
  <2>2. Falling(todo')
    <3>1. ASSUME NEW i \in 1..Len(todo'), NEW j \in 1..Len(todo'), i < j
          PROVE  Rank(todo'[i]) > Rank(todo'[j])
      <4>1. i + 1 \in 1..Len(todo) /\ j + 1 \in 1..Len(todo) /\ i + 1 < j + 1
        BY <1>4, <3>1
      <4> QED
        BY <1>2, <1>4, <4>1 DEF Falling
    <3> QED
      BY <3>1 DEF Falling
  <2>3. live' \subseteq Range(todo') \cup Leaves(failed')
    BY <1>1, <1>3, <1>7 DEF IndInv, HeldRight
  <2> QED
    BY <1>1, <1>2, <1>3, <1>4, <2>1, <2>2, <2>3 DEF HeldRight
<1>9. TypeOK'
  <2>1. Range(todo') \subseteq Resources /\ live' \subseteq Resources
    BY <1>1, <1>2, <1>6, RangeOfSeq
  <2> QED
    BY <1>1, <1>3, <2>1 DEF IndInv, TypeOK
<1>10. NeedsKept'
  <2>1. Stranded' = Stranded
    BY <1>1 DEF Stranded
  <2>2. ASSUME NEW r \in live' \ Stranded, NEW n \in Needs(r)
        PROVE  n \in live'
    <3>1. r \in live /\ r # h /\ n \in live
      BY <1>1, <2>2 DEF IndInv, NeedsKept
    <3>2. r \in Range(todo') \/ r \in Leaves(failed)
      BY <1>3, <1>7, <3>1 DEF IndInv, HeldRight
    <3>3. CASE r \in Range(todo')
      <4>1. Rank(h) > Rank(r) /\ Rank(n) < Rank(r) /\ Rank(h) \in Nat /\ Rank(r) \in Nat /\ Rank(n) \in Nat
        BY <1>2, <1>5, <1>6, <3>1, <3>3, NeedsRanked, RankTyped
      <4> QED
        BY <1>1, <3>1, <4>1
    <3>4. CASE r \in Leaves(failed)
      <4>1. r \in {DevList, Ctx}
        BY <1>2, <2>2, <3>4 DEF Leaves, Stranded
      <4> QED
        BY <2>2, <4>1, NeedsFacts
    <3> QED
      BY <3>2, <3>3, <3>4
  <2> QED
    BY <2>1, <2>2 DEF NeedsKept
<1> QED
  BY <1>8, <1>9, <1>10 DEF IndInv

(* The event thread holds nothing and gives nothing back.                  *)
LEMMA ThreadKeeps ==
  ASSUME IndInv, UNCHANGED <<kind, at, todo, failed, live>>,
         thread' \in {"none", "start", "wait", "process", "cancelled", "dead", "joined"}
  PROVE  IndInv'
<1>1. Program' = Program /\ Running' = Running /\ Stranded' = Stranded
  BY DEF Program, Running, Stranded
<1> QED
  BY <1>1 DEF IndInv, TypeOK, HeldRight, NeedsKept

LEMMA NextIndInv == IndInv /\ [Next]_vars => IndInv'
<1> SUFFICES ASSUME IndInv, [Next]_vars
             PROVE  IndInv'
  OBVIOUS
<1>1. CASE Succeed
  BY <1>1, SucceedKeeps
<1>2. CASE Fail
  BY <1>2, FailKeeps
<1>3. CASE Release
  BY <1>3, ReleaseKeeps
<1>4. CASE Cancel \/ Events
  BY <1>4, ThreadKeeps
     DEF Cancel, Events, ThreadOpen, ThreadWake, ThreadProcess, ThreadEnd, ThreadSteps
<1>5. CASE UNCHANGED vars
  <2>1. thread \in {"none", "start", "wait", "process", "cancelled", "dead", "joined"}
    BY DEF IndInv, TypeOK
  <2> QED
    BY <1>5, <2>1, ThreadKeeps DEF vars
<1> QED
  BY <1>1, <1>2, <1>3, <1>4, <1>5 DEF Next, Unwind

(* The invariant above holds in every reachable state, for every NBufs.    *)
THEOREM Invariance == Spec => []IndInv
  BY InitIndInv, NextIndInv, PTL DEF Spec

(* The state is well typed: labels name resources the program knows.       *)
THEOREM TypeCorrect == Spec => []TypeOK
<1>1. IndInv => TypeOK
  BY DEF IndInv
<1> QED
  BY <1>1, Invariance, PTL

(* On every path but two, the labels of pp_common.c, pp_verb.c, pp_dv.c    *)
(* and the mains give back nothing that something held still needs.        *)
THEOREM NeedsAreMet == Spec => []NeedsMet
<1>1. ASSUME IndInv
      PROVE  NeedsMet
  <2>1. \A r \in live \ Stranded : Needs(r) \subseteq live
    BY <1>1 DEF IndInv, NeedsKept
  <2>2. CASE failed = "memalign"
    <3>1. \A r \in Range(Mrs(NBufs)) : r[1] = "mr"
      BY DEF Range, Mrs, Mr
    <3> QED
      BY <2>1, <2>2, <3>1 DEF NeedsMet, Stranded
  <2>3. CASE failed = "mad_ifc_port"
    BY <2>1, <2>3 DEF NeedsMet, Stranded
  <2>4. CASE failed \notin {"memalign", "mad_ifc_port"}
    BY <2>1, <2>4 DEF NeedsMet, Stranded
  <2> QED
    BY <2>2, <2>3, <2>4
<1> QED
  BY <1>1, Invariance, PTL

(* A main that returns has given back all it took, but for the list of     *)
(* devices and what three failures leave.                                  *)
THEOREM ExitsAreClean == Spec => []ExitsClean
<1>1. ASSUME IndInv
      PROVE  ExitsClean
  <2> SUFFICES ASSUME Exited, failed # "listen"
               PROVE  live \subseteq Leaves(failed)
    BY DEF ExitsClean, Leaves
  <2>1. Range(todo) = {}
    BY UnwindNone DEF Exited, Unwinds
  <2> QED
    BY <1>1, <2>1 DEF IndInv, HeldRight, Exited
<1> QED
  BY <1>1, Invariance, PTL

(* What a label gives back is held: no label is entered too early and no   *)
(* resource is given back twice, whichever step failed.                    *)
THEOREM ReleasesAreHeld == Spec => ReleasesHeld
<1>1. ASSUME IndInv, todo # <<>>
      PROVE  Head(todo) \in live
  <2>1. todo \in Seq(Resources) /\ Range(todo) \subseteq live
    BY <1>1 DEF IndInv, HeldRight
  <2>2. Len(todo) \in Nat \ {0} /\ DOMAIN todo = 1..Len(todo) /\ Head(todo) = todo[1]
    BY <1>1, <2>1, EmptySeq, LenProperties
  <2> QED
    BY <2>1, <2>2 DEF Range
<1>2. IndInv => [todo # <<>> /\ todo' = Tail(todo) => Head(todo) \in live]_vars
  BY <1>1
<1> QED
  BY <1>2, Invariance, PTL DEF ReleasesHeld
=============================================================================
