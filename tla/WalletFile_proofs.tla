------------------------- MODULE WalletFile_proofs --------------------------
(***************************************************************************)
(* Proofs about WalletFile: while the file system keeps what was appended  *)
(* from being appended again (no "fsync" in Faults), the file can always   *)
(* be loaded and gives a state that memory was in, and the wallet file is  *)
(* a SavedStates.                                                          *)
(***************************************************************************)
EXTENDS WalletFile, FiniteSums, SequenceTheorems

\* The functions from some of S to T
Table(S, T) == UNION {[D -> T] : D \in SUBSET S}

\* What is in a dict, and what is in the tree
Dict == Table(Key, Val)
Data == Table(Slot, Dict)

\* What StoredDicts emit: an edit of the root, or of a dict; and what was left of one
Edit ==
    {p \in [op : {"add", "replace", "remove"}, path : Seq(Slot \cup Key),
            value : {0} \cup Val \cup Dict, stray : BOOLEAN] :
        \/ \E s \in Slot : p.path = <<s>> /\ (p.op = "remove" \/ p.value \in Dict)
        \/ \E s \in Slot, k \in Key : p.path = <<s, k>> /\ (p.op = "remove" \/ p.value \in Val)}
Patch == Edit \cup {Cut}
File  == [base : Data, patches : Seq(Patch)]

TypeOK ==
    /\ up \in BOOLEAN
    /\ root \in Table(Slot, Obj)
    /\ content \in [Obj -> Dict]
    /\ parent \in [Obj -> Slot \cup {Pruned}]
    /\ held \in SUBSET Obj
    /\ replaced \in SUBSET Obj
    /\ pending \in Seq(Patch)
    /\ modified \in BOOLEAN
    /\ pos \in File
    /\ disk \in File
    /\ since \in Seq(Data)
    /\ left \in [faults : Nat, crashes : Nat]

\* A dict that was not replaced has a path if and only if it is in the tree, and it is
\* its place there; one that was is not in the tree.
TreeOK ==
    /\ \A s \in DOMAIN root : root[s] \in held \ replaced /\ parent[root[s]] = s
    /\ \A o \in Obj \ replaced : parent[o] # Pruned => parent[o] \in DOMAIN root /\ root[parent[o]] = o
    /\ replaced \subseteq held

\* Nothing of it was cut short.
Whole(patches) == \A i \in 1 .. Len(patches) : patches[i] # Cut

\* The file, with these patches after it, loads as data.
Loads(file, patches, data) == load_data(file, patches) = [ok |-> TRUE, data |-> data]

\* What is loaded, whether or not all patches fit
Loadable == load_data(disk, << >>).data \in Data

\* The pending patches lead from the file through the states of memory since, up to
\* the first that is stray.
InStep ==
    /\ Whole(disk.patches)
    /\ Len(since) = Len(pending) + 1
    /\ \A k \in 0 .. Len(pending) :
           ~Strays(disk.patches) /\ ~Strays(SubSeq(pending, 1, k)) =>
               Loads(disk, SubSeq(pending, 1, k), since[k + 1])

\* An append failed: the file is longer than `pos', and stays as it is until it is replaced.
Overrun ==
    /\ disk.patches # << >> /\ disk # pos
    /\ pending # << >>
    /\ Loadable
    /\ ~Strays(disk.patches) => Loads(disk, << >>, since[1])

FileOK ==
    /\ Whole(pending)
    /\ Len(since) \in Nat \ {0}
    /\ up => (InStep \/ Overrun) /\ since[Len(since)] = Memory
    /\ ~up => /\ Len(since) = 1 /\ since[1] = load_data(disk, << >>).data
              /\ ~Strays(disk.patches) => Loads(disk, << >>, since[1])

IInv == TypeOK /\ (up => TreeOK) /\ FileOK

-----------------------------------------------------------------------------
(* The least of at most two numbers *)

(* The least element of a set of integers is its Min. *)
LEMMA MinIs == ASSUME NEW S, NEW n \in S, \A k \in S : k \in Int /\ n <= k PROVE Min(S) = n
  BY DEF Min

(* Of two integers in order, Min is the first. *)
LEMMA MinOfTwo == ASSUME NEW j \in Int, NEW k \in Int, j <= k PROVE Min({j, k}) = j
  BY MinIs

-----------------------------------------------------------------------------
(* Beginnings of sequences *)

(* The first k elements of a sequence. *)
LEMMA FirstOnes ==
    ASSUME NEW S, NEW s \in Seq(S), NEW k \in 0 .. Len(s)
    PROVE  /\ SubSeq(s, 1, k) \in Seq(S) /\ Len(SubSeq(s, 1, k)) = k
           /\ \A i \in 1 .. k : SubSeq(s, 1, k)[i] = s[i]
<1>1. k \in Int /\ \A i \in 1 .. k : s[i] \in S
  BY LenProperties
<1> QED BY <1>1, SubSeqProperties

(* Appending one patch to a tail appends it to the whole. *)
LEMMA ConcatAppend ==
    ASSUME NEW S, NEW s \in Seq(S), NEW t \in Seq(S), NEW e \in S
    PROVE  s \o Append(t, e) = Append(s \o t, e)
<1>1. /\ Append(t, e) \in Seq(S) /\ Len(Append(t, e)) = Len(t) + 1
      /\ Append(t, e)[Len(t) + 1] = e /\ \A i \in 1 .. Len(t) : Append(t, e)[i] = t[i]
      /\ Len(s) \in Nat /\ Len(t) \in Nat
  BY AppendProperties, LenProperties
<1>2. /\ s \o t \in Seq(S) /\ Len(s \o t) = Len(s) + Len(t)
      /\ \A i \in 1 .. Len(s) + Len(t) : (s \o t)[i] = IF i <= Len(s) THEN s[i] ELSE t[i - Len(s)]
  BY ConcatProperties
<1> DEFINE a == s \o Append(t, e)
           b == Append(s \o t, e)
<1>3. /\ a \in Seq(S) /\ Len(a) = Len(s) + Len(t) + 1
      /\ \A i \in 1 .. Len(s) + (Len(t) + 1) :
             a[i] = IF i <= Len(s) THEN s[i] ELSE Append(t, e)[i - Len(s)]
  BY <1>1, ConcatProperties
<1>4. /\ b \in Seq(S) /\ Len(b) = Len(s) + Len(t) + 1 /\ b[Len(s) + Len(t) + 1] = e
      /\ \A i \in 1 .. Len(s) + Len(t) : b[i] = (s \o t)[i]
  BY <1>2, AppendProperties
<1> HIDE DEF a, b
<1>5. ASSUME NEW i \in 1 .. Len(a) PROVE a[i] = b[i]
  <2>1. CASE i <= Len(s)
    <3>1. i \in 1 .. Len(s) + Len(t) /\ i \in 1 .. Len(s) + (Len(t) + 1)
      BY <2>1, <1>1, <1>3
    <3>2. b[i] = (s \o t)[i] /\ (s \o t)[i] = s[i]
      BY <3>1, <2>1, <1>2, <1>4
    <3>3. a[i] = s[i]
      BY <3>1, <2>1, <1>3
    <3> QED BY <3>2, <3>3
  <2>2. CASE i > Len(s) /\ i <= Len(s) + Len(t)
    BY <2>2, <1>1, <1>2, <1>3, <1>4
  <2>3. CASE i = Len(s) + Len(t) + 1
    BY <2>3, <1>1, <1>3, <1>4
  <2> QED BY <2>1, <2>2, <2>3, <1>1, <1>3
<1>6. a = b
  BY <1>3, <1>4, <1>5, SeqEqual
<1> QED BY <1>6 DEF a, b

(* A sequence with one element more is another. *)
LEMMA AppendDiffers == ASSUME NEW S, NEW s \in Seq(S), NEW e \in S PROVE Append(s, e) # s
<1>1. Len(Append(s, e)) = Len(s) + 1 /\ Len(s) \in Nat
  BY AppendProperties, LenProperties
<1> QED BY <1>1

(* Appending an element to a sequence leaves its prefixes as they were. *)
LEMMA SubSeqOfAppend ==
    ASSUME NEW S, NEW s \in Seq(S), NEW e \in S, NEW k \in 0 .. Len(s)
    PROVE  SubSeq(Append(s, e), 1, k) = SubSeq(s, 1, k)
<1>1. /\ Append(s, e) \in Seq(S) /\ k \in 0 .. Len(Append(s, e)) /\ k \in Nat
      /\ \A i \in 1 .. k : Append(s, e)[i] = s[i]
  BY AppendProperties, LenProperties
<1>2. /\ SubSeq(s, 1, k) \in Seq(S) /\ Len(SubSeq(s, 1, k)) = k
      /\ \A i \in 1 .. k : SubSeq(s, 1, k)[i] = s[i]
  BY FirstOnes
<1>3. /\ SubSeq(Append(s, e), 1, k) \in Seq(S) /\ Len(SubSeq(Append(s, e), 1, k)) = k
      /\ \A i \in 1 .. k : SubSeq(Append(s, e), 1, k)[i] = Append(s, e)[i]
  BY <1>1, FirstOnes
<1> QED BY <1>1, <1>2, <1>3, SeqEqual

-----------------------------------------------------------------------------
(* Stray patches *)

(* A sequence with one patch more has a stray one if it had, or that one is. *)
LEMMA StraysOfAppend ==
    ASSUME NEW S, NEW s \in Seq(S), NEW e \in S
    PROVE  Strays(Append(s, e)) <=> Strays(s) \/ e.stray
<1>1. /\ Len(s) \in Nat /\ DOMAIN s = 1 .. Len(s)
      /\ DOMAIN Append(s, e) = 1 .. Len(s) + 1 /\ Append(s, e)[Len(s) + 1] = e
      /\ \A i \in 1 .. Len(s) : Append(s, e)[i] = s[i]
  BY AppendProperties, LenProperties
<1>2. ASSUME Strays(Append(s, e)) PROVE Strays(s) \/ e.stray
  BY <1>1, <1>2 DEF Strays
<1>3. ASSUME Strays(s) \/ e.stray PROVE Strays(Append(s, e))
  <2>1. CASE Strays(s)
    <3>1. PICK i \in 1 .. Len(s) : s[i].stray
      BY <2>1, <1>1 DEF Strays
    <3>2. i \in DOMAIN Append(s, e) /\ Append(s, e)[i].stray
      BY <3>1, <1>1
    <3> QED BY <3>2 DEF Strays
  <2>2. CASE e.stray
    <3>1. Len(s) + 1 \in DOMAIN Append(s, e) /\ Append(s, e)[Len(s) + 1].stray
      BY <2>2, <1>1
    <3> QED BY <3>1 DEF Strays
  <2> QED BY <1>3, <2>1, <2>2
<1> QED BY <1>2, <1>3

(* Two sequences of which one has a stray patch have it together. *)
LEMMA StraysOfConcat ==
    ASSUME NEW S, NEW s \in Seq(S), NEW t \in Seq(S), Strays(s) \/ Strays(t)
    PROVE  Strays(s \o t)
<1>1. /\ Len(s) \in Nat /\ DOMAIN s = 1 .. Len(s) /\ Len(t) \in Nat /\ DOMAIN t = 1 .. Len(t)
  BY LenProperties
<1>2. /\ DOMAIN (s \o t) = 1 .. Len(s) + Len(t)
      /\ \A i \in 1 .. Len(s) + Len(t) : (s \o t)[i] = IF i <= Len(s) THEN s[i] ELSE t[i - Len(s)]
  BY ConcatProperties, LenProperties
<1>3. CASE Strays(s)
  <2>1. PICK i \in 1 .. Len(s) : s[i].stray
    BY <1>1, <1>3 DEF Strays
  <2>2. i \in DOMAIN (s \o t) /\ (s \o t)[i].stray
    BY <2>1, <1>1, <1>2
  <2> QED BY <2>2 DEF Strays
<1>4. CASE Strays(t)
  <2>1. PICK i \in 1 .. Len(t) : t[i].stray
    BY <1>1, <1>4 DEF Strays
  <2>2. /\ Len(s) + i \in 1 .. Len(s) + Len(t) /\ ~(Len(s) + i <= Len(s))
        /\ (Len(s) + i) - Len(s) = i
    BY <2>1, <1>1
  <2>3. Len(s) + i \in DOMAIN (s \o t) /\ (s \o t)[Len(s) + i].stray
    BY <2>1, <2>2, <1>2
  <2> QED BY <2>3 DEF Strays
<1> QED BY <1>3, <1>4

(* Nothing is stray where there is nothing. *)
LEMMA NoStrays == ~Strays(<< >>)
  BY DEF Strays

-----------------------------------------------------------------------------
(* Loading: the patches are applied one after the other *)

\* g is what was loaded after each of the first m patches.
IsRun(g, base, patches, m) ==
    g = [n \in 0 .. m |->
            IF n = 0 THEN [ok |-> TRUE, data |-> base] ELSE ApplyPatch(g[n - 1], patches[n])]

Run(base, patches, m) == CHOOSE g : IsRun(g, base, patches, m)

\* A run of the patches exists for each number of them.
LEMMA RunExists == ASSUME NEW base, NEW patches, NEW m \in Nat PROVE \E g : IsRun(g, base, patches, m)
<1> DEFINE G == {k \in Nat : \E g : IsRun(g, base, patches, k)}
<1>1. ASSUME NEW k \in Nat, \A l \in Nat : l < k => l \in G
      PROVE  k \in G
  <2>1. CASE k = 0
    <3>1. IsRun([n \in 0 .. 0 |-> [ok |-> TRUE, data |-> base]], base, patches, 0)
      BY DEF IsRun
    <3> QED BY <2>1, <3>1
  <2>2. CASE k # 0
    <3>1. k - 1 \in Nat /\ k - 1 \in G
      BY <1>1, <2>2
    <3>2. PICK g : IsRun(g, base, patches, k - 1)
      BY <3>1
    <3> DEFINE h == [n \in 0 .. k |-> IF n = k THEN ApplyPatch(g[k - 1], patches[k]) ELSE g[n]]
    <3>3. \A n \in 0 .. k - 1 : h[n] = g[n]
      OBVIOUS
    <3>4. \A n \in 0 .. k - 1 :
             g[n] = IF n = 0 THEN [ok |-> TRUE, data |-> base] ELSE ApplyPatch(g[n - 1], patches[n])
      BY <3>2 DEF IsRun
    <3>5. \A n \in 0 .. k :
             h[n] = IF n = 0 THEN [ok |-> TRUE, data |-> base] ELSE ApplyPatch(h[n - 1], patches[n])
      <4> SUFFICES ASSUME NEW n \in 0 .. k
                   PROVE  h[n] = IF n = 0 THEN [ok |-> TRUE, data |-> base]
                                 ELSE ApplyPatch(h[n - 1], patches[n])
        OBVIOUS
      <4>1. CASE n = k
        <5>1. h[k] = ApplyPatch(g[k - 1], patches[k]) /\ h[k - 1] = g[k - 1]
          BY <3>1, <3>3
        <5> QED BY <4>1, <5>1, <2>2
      <4>2. CASE n # k
        <5>1. n \in 0 .. k - 1 /\ h[n] = g[n] /\ (n # 0 => n - 1 \in 0 .. k - 1 /\ h[n - 1] = g[n - 1])
          BY <4>2, <3>3
        <5> QED BY <5>1, <3>4
      <4> QED BY <4>1, <4>2
    <3>6. IsRun(h, base, patches, k)
      <4> h = [n \in 0 .. k |-> h[n]]
        OBVIOUS
      <4> HIDE DEF h
      <4> QED BY <3>5 DEF IsRun
    <3> QED BY <3>6
  <2> QED BY <2>1, <2>2
<1>2. Nat \subseteq G
  <2> HIDE DEF G
  <2> QED BY <1>1, NumberInduction
<1> QED BY <1>2

\* What a run begins with, and how it goes on
LEMMA RunBegins == \A base, patches : \A m \in Nat : Run(base, patches, m)[0] = [ok |-> TRUE, data |-> base]
<1> SUFFICES ASSUME NEW base, NEW patches, NEW m \in Nat
             PROVE  Run(base, patches, m)[0] = [ok |-> TRUE, data |-> base]
  OBVIOUS
<1> DEFINE g == Run(base, patches, m)
<1>1. IsRun(g, base, patches, m)
  BY RunExists DEF Run
<1>2. 0 \in 0 .. m
  OBVIOUS
<1> HIDE DEF g
<1>3. g[0] = [ok |-> TRUE, data |-> base]
  BY <1>1, <1>2 DEF IsRun
<1> QED BY <1>3 DEF g

(* Each entry of a run is ApplyPatch of the entry before it. *)
LEMMA RunSteps ==
    \A base, patches : \A m \in Nat : \A n \in 1 .. m :
        Run(base, patches, m)[n] = ApplyPatch(Run(base, patches, m)[n - 1], patches[n])
<1> SUFFICES ASSUME NEW base, NEW patches, NEW m \in Nat, NEW n \in 1 .. m
             PROVE  Run(base, patches, m)[n] = ApplyPatch(Run(base, patches, m)[n - 1], patches[n])
  OBVIOUS
<1> DEFINE g == Run(base, patches, m)
<1>1. IsRun(g, base, patches, m)
  BY RunExists DEF Run
<1>2. n \in 0 .. m /\ n # 0
  OBVIOUS
<1> HIDE DEF g
<1>3. g[n] = ApplyPatch(g[n - 1], patches[n])
  BY <1>1, <1>2 DEF IsRun
<1> QED BY <1>3 DEF g

\* Runs of sequences that begin with the same patches begin with the same results.
LEMMA RunsAgree ==
    ASSUME NEW base, NEW ps, NEW qs, NEW m \in Nat, NEW l \in Nat, l <= m,
           \A n \in 1 .. l : ps[n] = qs[n]
    PROVE  Run(base, ps, m)[l] = Run(base, qs, l)[l]
<1> DEFINE g == Run(base, ps, m)
           h == Run(base, qs, l)
           G == {k \in Nat : k <= l => g[k] = h[k]}
<1>1. /\ g[0] = [ok |-> TRUE, data |-> base]
      /\ \A n \in 1 .. m : g[n] = ApplyPatch(g[n - 1], ps[n])
  BY RunBegins, RunSteps
<1>2. /\ h[0] = [ok |-> TRUE, data |-> base]
      /\ \A n \in 1 .. l : h[n] = ApplyPatch(h[n - 1], qs[n])
  BY RunBegins, RunSteps
<1> HIDE DEF g, h
<1>3. ASSUME NEW k \in Nat, \A j \in Nat : j < k => j \in G
      PROVE  k \in G
  <2>1. CASE k = 0
    BY <2>1, <1>1, <1>2
  <2>2. CASE k # 0 /\ k <= l
    <3>1. k - 1 \in Nat /\ k - 1 < k /\ k \in 1 .. m /\ k \in 1 .. l /\ k - 1 <= l
      BY <2>2
    <3>2. g[k - 1] = h[k - 1]
      BY <3>1, <1>3
    <3>3. g[k] = ApplyPatch(g[k - 1], ps[k]) /\ h[k] = ApplyPatch(h[k - 1], qs[k]) /\ ps[k] = qs[k]
      BY <3>1, <1>1, <1>2
    <3> QED BY <3>2, <3>3
  <2> QED BY <2>1, <2>2
<1>4. Nat \subseteq G
  <2> HIDE DEF G
  <2> QED BY <1>3, NumberInduction
<1>5. g[l] = h[l]
  BY <1>4
<1> QED BY <1>5 DEF g, h

\* What load_data makes of patches of which none was cut short
Loaded(base, patches) == Run(base, patches, Len(patches))[Len(patches)]

(* A file without patches loads as its base. *)
LEMMA LoadedNone == ASSUME NEW base PROVE Loaded(base, << >>) = [ok |-> TRUE, data |-> base]
  BY RunBegins, EmptySeq DEF Loaded

\* One patch more is applied to what was loaded.
LEMMA LoadedOneMore ==
    ASSUME NEW base, NEW S, NEW patches \in Seq(S), NEW p \in S
    PROVE  Loaded(base, Append(patches, p)) = ApplyPatch(Loaded(base, patches), p)
<1>1. PICK m \in Nat : m = Len(patches)
  BY LenProperties
<1>2. PICK more : more = Append(patches, p)
  OBVIOUS
<1>3. Len(more) = m + 1 /\ more[m + 1] = p /\ \A n \in 1 .. m : more[n] = patches[n]
  BY <1>1, <1>2, AppendProperties
<1>4. PICK l \in Nat : l = m + 1
  OBVIOUS
<1>5. Run(base, more, l)[l] = ApplyPatch(Run(base, more, l)[l - 1], more[l])
  <2>1. l \in 1 .. l
    BY <1>4
  <2> QED BY <2>1, RunSteps
<1>6. Run(base, more, l)[m] = Run(base, patches, m)[m]
  BY <1>3, <1>4, RunsAgree
<1> QED BY <1>1, <1>2, <1>3, <1>4, <1>5, <1>6 DEF Loaded

\* load_data applies the patches that are Complete and those that are given.
LEMMA LoadIs ==
    ASSUME NEW file, NEW patches
    PROVE  load_data(file, patches) = Loaded(file.base, Complete(file) \o patches)
  BY DEF load_data, Loaded, Run, IsRun

\* A file without a Cut is all complete, and of one that ends with it the rest is.
LEMMA CompleteIs ==
    ASSUME NEW file, file.patches \in Seq(Patch), Whole(file.patches)
    PROVE  Complete(file) = file.patches
<1> DEFINE n == Len(file.patches)
<1>1. n \in Nat
  BY LenProperties
<1>2. {k \in 1 .. n : file.patches[k] = Cut} = {}
  BY DEF Whole
<1>3. Min({n + 1} \cup {}) = n + 1
  <2>1. n + 1 \in {n + 1} \cup {} /\ \A k \in {n + 1} \cup {} : k \in Int /\ n + 1 <= k
    BY <1>1
  <2> QED BY <2>1, MinIs
<1>4. SubSeq(file.patches, 1, (n + 1) - 1) = file.patches
  <2>1. (n + 1) - 1 = n
    BY <1>1
  <2> QED BY <2>1, SubSeqFull
<1> QED BY <1>1, <1>2, <1>3, <1>4 DEF Complete

(* A file that ends in a torn line keeps the patches before that line. *)
LEMMA CompleteOfCut ==
    ASSUME NEW file, NEW patches \in Seq(Patch), Whole(patches), Cut \in Patch,
           file.patches = Append(patches, Cut)
    PROVE  Complete(file) = patches
<1> DEFINE n == Len(file.patches)
<1>1. /\ Len(patches) \in Nat /\ n = Len(patches) + 1 /\ file.patches[n] = Cut
      /\ \A k \in 1 .. Len(patches) : file.patches[k] = patches[k]
      /\ file.patches \in Seq(Patch)
  BY AppendProperties, LenProperties
<1>2. {k \in 1 .. n : file.patches[k] = Cut} = {n}
  BY <1>1 DEF Whole
<1>3. Min({n + 1} \cup {n}) = n
  <2>1. n \in {n + 1} \cup {n} /\ \A k \in {n + 1} \cup {n} : k \in Int /\ n <= k
    BY <1>1
  <2> QED BY <2>1, MinIs
<1>4. SubSeq(file.patches, 1, n - 1) = patches
  <2>1. SubSeq(file.patches, 1, Len(patches)) = patches
    BY <1>1, SubSeqOfAppend
  <2> QED BY <1>1, <2>1
<1> QED BY <1>2, <1>3, <1>4 DEF Complete

-----------------------------------------------------------------------------
(* The tree *)

(* A table is a function from some of S to T. *)
LEMMA TableIs ==
    ASSUME NEW S, NEW T, NEW f
    PROVE  f \in Table(S, T) <=>
               f = [x \in DOMAIN f |-> f[x]] /\ DOMAIN f \subseteq S /\ \A x \in DOMAIN f : f[x] \in T
<1>1. ASSUME f \in Table(S, T)
      PROVE  f = [x \in DOMAIN f |-> f[x]] /\ DOMAIN f \subseteq S /\ \A x \in DOMAIN f : f[x] \in T
  <2>1. PICK D \in SUBSET S : f \in [D -> T]
    BY <1>1 DEF Table
  <2> QED BY <2>1
<1>2. ASSUME f = [x \in DOMAIN f |-> f[x]], DOMAIN f \subseteq S, \A x \in DOMAIN f : f[x] \in T
      PROVE  f \in Table(S, T)
  <2>1. f \in [DOMAIN f -> T]
    BY <1>2
  <2> QED BY <2>1, <1>2 DEF Table
<1> QED BY <1>1, <1>2

\* Tables after an entry is set and after it is removed
LEMMA TableWith ==
    ASSUME NEW S, NEW T, NEW f \in Table(S, T), NEW x \in S, NEW y \in T
    PROVE  With(f, x, y) \in Table(S, T)
<1> DEFINE g == With(f, x, y)
<1>1. DOMAIN f \subseteq S /\ \A z \in DOMAIN f : f[z] \in T
  BY TableIs
<1>2. g = [z \in DOMAIN f \cup {x} |-> IF z = x THEN y ELSE f[z]]
  BY DEF With
<1> HIDE DEF g
<1>3. /\ DOMAIN g = DOMAIN f \cup {x} /\ g = [z \in DOMAIN g |-> g[z]]
      /\ g[x] = y /\ \A z \in DOMAIN f : z # x => g[z] = f[z]
  BY <1>2
<1>4. g \in Table(S, T)
  BY <1>1, <1>3, TableIs
<1> QED BY <1>4 DEF g

(* Removing a key leaves a table. *)
LEMMA TableWithout ==
    ASSUME NEW S, NEW T, NEW f \in Table(S, T), NEW x
    PROVE  Without(f, x) \in Table(S, T)
<1> DEFINE g == Without(f, x)
<1>1. DOMAIN f \subseteq S /\ \A z \in DOMAIN f : f[z] \in T
  BY TableIs
<1>2. g = [z \in DOMAIN f \ {x} |-> f[z]]
  BY DEF Without
<1> HIDE DEF g
<1>3. /\ DOMAIN g = DOMAIN f \ {x} /\ g = [z \in DOMAIN g |-> g[z]]
      /\ \A z \in DOMAIN f \ {x} : g[z] = f[z]
  BY <1>2
<1>4. g \in Table(S, T)
  BY <1>1, <1>3, TableIs
<1> QED BY <1>4 DEF g

(* The empty function is a table over any keys and values. *)
LEMMA EmptyTable == ASSUME NEW S, NEW T PROVE << >> \in Table(S, T) /\ DOMAIN << >> = {}
<1>1. DOMAIN << >> = {} /\ << >> = [x \in DOMAIN << >> |-> << >>[x]]
  OBVIOUS
<1> QED BY <1>1, TableIs

\* The tree as plain values, if the dicts are r and have the contents c
MemoryOf(r, c) == [s \in DOMAIN r |-> c[r[s]]]

(* Memory is a function of the two variables that hold the tree. *)
LEMMA MemoryIs == Memory = MemoryOf(root, content)
  BY DEF Memory, MemoryOf

(* What the tree in memory stands for is always a table of data. *)
LEMMA MemoryType ==
    ASSUME NEW r \in Table(Slot, Obj), NEW c \in [Obj -> Dict]
    PROVE  /\ MemoryOf(r, c) \in Data /\ DOMAIN MemoryOf(r, c) = DOMAIN r
           /\ \A s \in DOMAIN r : MemoryOf(r, c)[s] = c[r[s]] /\ r[s] \in Obj
<1> DEFINE g == MemoryOf(r, c)
<1>1. DOMAIN r \subseteq Slot /\ \A s \in DOMAIN r : r[s] \in Obj
  BY TableIs
<1>2. g = [s \in DOMAIN r |-> c[r[s]]]
  BY DEF MemoryOf
<1> HIDE DEF g
<1>3. DOMAIN g = DOMAIN r /\ g = [s \in DOMAIN g |-> g[s]] /\ \A s \in DOMAIN r : g[s] = c[r[s]]
  BY <1>2
<1>4. g \in Data
  BY <1>1, <1>3, TableIs DEF Data
<1> QED BY <1>1, <1>3, <1>4 DEF g

-----------------------------------------------------------------------------
(* What a patch does to the tree *)

(* A patch at a slot changes what is in that slot. *)
LEMMA PatchOfRoot ==
    ASSUME NEW m \in Data, NEW op \in {"add", "replace", "remove"}, NEW s \in Slot, NEW v,
           op # "add" => s \in DOMAIN m
    PROVE  ApplyPatch([ok |-> TRUE, data |-> m], patch(op, <<s>>, v, FALSE)) =
               [ok |-> TRUE, data |-> IF op = "remove" THEN Without(m, s) ELSE With(m, s, v)]
<1> DEFINE p == patch(op, <<s>>, v, FALSE)
           l == [ok |-> TRUE, data |-> m]
<1>1. p.op = op /\ p.path = <<s>> /\ p.value = v /\ Len(p.path) = 1 /\ Last(p.path) = s
  BY DEF patch, Last
<1>2. l.ok /\ l.data = m
  OBVIOUS
<1> HIDE DEF p
<1>3. Fits(m, p)
  BY <1>1 DEF Fits
<1>4. Edited(m, p) = IF op = "remove" THEN Without(m, s) ELSE With(m, s, v)
  BY <1>1 DEF Edited
<1>5. ApplyPatch(l, p) = [ok |-> TRUE, data |-> Edited(m, p)]
  <2> HIDE DEF l
  <2> QED BY <1>1, <1>2, <1>3 DEF ApplyPatch
<1> QED BY <1>4, <1>5 DEF p

(* A patch below a slot changes the dict of that slot alone. *)
LEMMA PatchOfDict ==
    ASSUME NEW m \in Data, NEW op \in {"add", "replace", "remove"}, NEW s \in DOMAIN m, NEW k, NEW v,
           NEW t, op # "add" => k \in DOMAIN m[s]
    PROVE  ApplyPatch([ok |-> TRUE, data |-> m], patch(op, <<s, k>>, v, t)) =
               [ok |-> TRUE,
                data |-> With(m, s, IF op = "remove" THEN Without(m[s], k) ELSE With(m[s], k, v))]
<1> DEFINE p == patch(op, <<s, k>>, v, t)
           l == [ok |-> TRUE, data |-> m]
<1>1. p.op = op /\ p.path = <<s, k>> /\ p.value = v /\ Len(p.path) = 2 /\ Last(p.path) = k /\ p.path[1] = s
  BY DEF patch, Last
<1>2. l.ok /\ l.data = m
  OBVIOUS
<1>3. Fits(m, p)
  BY <1>1 DEF Fits
<1>4. Edited(m[s], p) = IF op = "remove" THEN Without(m[s], k) ELSE With(m[s], k, v)
  BY <1>1 DEF Edited
<1>5. ApplyPatch(l, p) = [ok |-> TRUE, data |-> With(m, s, Edited(m[s], p))]
  <2> HIDE DEF p, l
  <2> QED BY <1>1, <1>2, <1>3 DEF ApplyPatch
<1> QED BY <1>4, <1>5

(* A patch is a record of what it is made of. *)
LEMMA PatchRecord ==
    ASSUME NEW A, NEW B, NEW C, NEW a \in A, NEW b \in B, NEW c \in C, NEW t \in BOOLEAN
    PROVE  patch(a, b, c, t) \in [op : A, path : B, value : C, stray : BOOLEAN]
  BY DEF patch

(* The patches that are emitted are well typed, and none of them is cut short. *)
LEMMA PatchType ==
    /\ \A op \in {"add", "replace", "remove"}, s \in Slot, v \in {0} \cup Dict, t \in BOOLEAN :
           (op # "remove" => v \in Dict) => patch(op, <<s>>, v, t) \in Edit
    /\ \A op \in {"add", "replace", "remove"}, s \in Slot, k \in Key, v \in {0} \cup Val, t \in BOOLEAN :
           (op # "remove" => v \in Val) => patch(op, <<s, k>>, v, t) \in Edit
    /\ \A p \in Edit : p \in Patch /\ p # Cut
    /\ Cut \in Patch /\ Cut.stray = FALSE
<1>1. ASSUME NEW op \in {"add", "replace", "remove"}, NEW s \in Slot, NEW v \in {0} \cup Dict,
             NEW t \in BOOLEAN, op # "remove" => v \in Dict
      PROVE  patch(op, <<s>>, v, t) \in Edit
  <2>1. <<s>> \in Seq(Slot \cup Key)
    OBVIOUS
  <2> DEFINE p == patch(op, <<s>>, v, t)
  <2>2. p = [op |-> op, path |-> <<s>>, value |-> v, stray |-> t]
    BY DEF patch
  <2>3. p \in [op : {"add", "replace", "remove"}, path : Seq(Slot \cup Key),
               value : {0} \cup Val \cup Dict, stray : BOOLEAN]
    <3> DEFINE B == Seq(Slot \cup Key)
               C == {0} \cup Val \cup Dict
               q == <<s>>
    <3>1. q \in B /\ v \in C
      BY <2>1
    <3> HIDE DEF B, C, q
    <3>2. patch(op, q, v, t) \in [op : {"add", "replace", "remove"}, path : B, value : C, stray : BOOLEAN]
      BY <3>1, PatchRecord
    <3> QED BY <3>2 DEF B, C, q
  <2>4. p.path = <<s>> /\ (p.op = "remove" \/ p.value \in Dict)
    BY <1>1, <2>2
  <2>5. p \in Edit
    <3> HIDE DEF p
    <3> QED BY <2>3, <2>4 DEF Edit
  <2> QED BY <2>5
<1>2. ASSUME NEW op \in {"add", "replace", "remove"}, NEW s \in Slot, NEW k \in Key, NEW v \in {0} \cup Val,
             NEW t \in BOOLEAN, op # "remove" => v \in Val
      PROVE  patch(op, <<s, k>>, v, t) \in Edit
  <2>1. <<s, k>> \in Seq(Slot \cup Key)
    OBVIOUS
  <2> DEFINE p == patch(op, <<s, k>>, v, t)
  <2>2. p = [op |-> op, path |-> <<s, k>>, value |-> v, stray |-> t]
    BY DEF patch
  <2>3. p \in [op : {"add", "replace", "remove"}, path : Seq(Slot \cup Key),
               value : {0} \cup Val \cup Dict, stray : BOOLEAN]
    <3> DEFINE B == Seq(Slot \cup Key)
               C == {0} \cup Val \cup Dict
               q == <<s, k>>
    <3>1. q \in B /\ v \in C
      BY <2>1
    <3> HIDE DEF B, C, q
    <3>2. patch(op, q, v, t) \in [op : {"add", "replace", "remove"}, path : B, value : C, stray : BOOLEAN]
      BY <3>1, PatchRecord
    <3> QED BY <3>2 DEF B, C, q
  <2>4. p.path = <<s, k>> /\ (p.op = "remove" \/ p.value \in Val)
    BY <1>2, <2>2
  <2>5. p \in Edit
    <3> HIDE DEF p
    <3> QED BY <2>3, <2>4 DEF Edit
  <2> QED BY <2>5
<1>3. ASSUME NEW p \in Edit PROVE p \in Patch /\ p # Cut
  <2>1. p.op \in {"add", "replace", "remove"} /\ Cut.op = "cut"
    BY DEF Edit, Cut, patch
  <2> QED BY <2>1 DEF Patch
<1>4. Cut \in Patch /\ Cut.stray = FALSE
  BY DEF Patch, Cut, patch
<1> QED BY <1>1, <1>2, <1>3, <1>4

(* What is loaded is well typed, whether or not a patch fits. *)
LEMMA ApplyPatchType ==
    ASSUME NEW l \in [ok : BOOLEAN, data : Data], NEW p \in Edit
    PROVE  ApplyPatch(l, p) \in [ok : BOOLEAN, data : Data]
<1> DEFINE d == l.data
<1>1. d \in Data /\ DOMAIN d \subseteq Slot /\ \A s \in DOMAIN d : d[s] \in Dict
  <2>1. d \in Table(Slot, Dict)
    BY DEF Data
  <2> QED BY <2>1, TableIs DEF Data
<1>2. CASE ~l.ok \/ ~Fits(d, p)
  <2>1. ApplyPatch(l, p) = [l EXCEPT !.ok = FALSE]
    BY <1>2 DEF ApplyPatch
  <2> QED BY <2>1
<1>3. CASE l.ok /\ Fits(d, p) /\ \E s \in Slot : p.path = <<s>> /\ (p.op = "remove" \/ p.value \in Dict)
  <2>1. PICK s \in Slot : p.path = <<s>> /\ (p.op = "remove" \/ p.value \in Dict)
    BY <1>3
  <2>2. Len(p.path) = 1 /\ Last(p.path) = s
    BY <2>1 DEF Last
  <2>3. ApplyPatch(l, p) = [ok |-> TRUE, data |-> Edited(d, p)]
    BY <1>3, <2>2 DEF ApplyPatch
  <2> HIDE DEF d
  <2>4. Edited(d, p) = IF p.op = "remove" THEN Without(d, s) ELSE With(d, s, p.value)
    BY <2>2 DEF Edited
  <2>5. p.op = "remove" => Without(d, s) \in Data
    BY <1>1, TableWithout DEF Data
  <2>6. p.op # "remove" => With(d, s, p.value) \in Data
    BY <1>1, <2>1, TableWith DEF Data
  <2> QED BY <2>3, <2>4, <2>5, <2>6
<1>4. CASE l.ok /\ Fits(d, p) /\ \E s \in Slot, k \in Key :
                                   p.path = <<s, k>> /\ (p.op = "remove" \/ p.value \in Val)
  <2>1. PICK s \in Slot, k \in Key : p.path = <<s, k>> /\ (p.op = "remove" \/ p.value \in Val)
    BY <1>4
  <2>2. Len(p.path) = 2 /\ Last(p.path) = k /\ p.path[1] = s
    BY <2>1 DEF Last
  <2>3. ApplyPatch(l, p) = [ok |-> TRUE, data |-> With(d, s, Edited(d[s], p))]
    BY <1>4, <2>2 DEF ApplyPatch
  <2> HIDE DEF d
  <2>4. d[s] \in Table(Key, Val)
    BY <1>1, <1>4, <2>2 DEF Fits, Dict
  <2>5. Edited(d[s], p) = IF p.op = "remove" THEN Without(d[s], k) ELSE With(d[s], k, p.value)
    BY <2>2 DEF Edited
  <2>6. p.op = "remove" => Without(d[s], k) \in Dict
    BY <2>4, TableWithout DEF Dict
  <2>7. p.op # "remove" => With(d[s], k, p.value) \in Dict
    BY <2>1, <2>4, TableWith DEF Dict
  <2>8. Edited(d[s], p) \in Dict
    BY <2>5, <2>6, <2>7
  <2>9. With(d, s, Edited(d[s], p)) \in Data
    BY <1>1, <2>8, TableWith DEF Data
  <2> QED BY <2>3, <2>9
<1> QED BY <1>2, <1>3, <1>4 DEF Edit

(* So is what any number of patches leads to. *)
LEMMA LoadedType ==
    ASSUME NEW base \in Data, NEW patches \in Seq(Patch), Whole(patches)
    PROVE  Loaded(base, patches).data \in Data
<1> DEFINE m == Len(patches)
           g == Run(base, patches, m)
           G == {k \in Nat : k <= m => g[k] \in [ok : BOOLEAN, data : Data]}
<1>1. m \in Nat /\ \A k \in 1 .. m : patches[k] \in Edit
  BY LenProperties, ElementOfSeq DEF Whole, Patch
<1>2. /\ g[0] = [ok |-> TRUE, data |-> base]
      /\ \A n \in 1 .. m : g[n] = ApplyPatch(g[n - 1], patches[n])
  BY <1>1, RunBegins, RunSteps
<1> HIDE DEF m, g
<1>3. ASSUME NEW k \in Nat, \A j \in Nat : j < k => j \in G
      PROVE  k \in G
  <2>1. CASE k = 0
    <3>1. [ok |-> TRUE, data |-> base] \in [ok : BOOLEAN, data : Data]
      OBVIOUS
    <3>2. g[k] = [ok |-> TRUE, data |-> base]
      BY <2>1, <1>2
    <3> QED BY <3>1, <3>2
  <2>2. CASE k # 0 /\ k <= m
    <3>1. k - 1 \in Nat /\ k - 1 < k /\ k \in 1 .. m /\ k - 1 <= m
      BY <2>2, <1>1
    <3>2. g[k - 1] \in [ok : BOOLEAN, data : Data] /\ patches[k] \in Edit
      BY <3>1, <1>1, <1>3
    <3>3. g[k] \in [ok : BOOLEAN, data : Data]
      BY <3>1, <3>2, <1>2, ApplyPatchType
    <3> QED BY <3>3
  <2> QED BY <2>1, <2>2
<1>4. Nat \subseteq G
  <2> HIDE DEF G
  <2> QED BY <1>3, NumberInduction
<1>5. g[m] \in [ok : BOOLEAN, data : Data]
  BY <1>1, <1>4
<1> QED BY <1>5 DEF g, m, Loaded

-----------------------------------------------------------------------------
(* The file while memory changes *)

\* Memory changes by a patch that is added to the pending ones, and that makes the same
\* change unless it is stray; or memory does not change.
Grows(p) ==
    /\ p \in Edit
    /\ pending' = Append(pending, p)
    /\ since' = Append(since, Memory')
    /\ ~p.stray => ApplyPatch([ok |-> TRUE, data |-> Memory], p) = [ok |-> TRUE, data |-> Memory']
    /\ UNCHANGED <<up, pos, disk>>

Stays == Memory' = Memory /\ UNCHANGED <<up, pending, pos, disk, since>>

\* The pending patches may be loaded one after the other.
LEMMA LoadsOneMore ==
    ASSUME NEW file \in File, Whole(file.patches), NEW ps \in Seq(Patch), NEW p \in Patch,
           NEW d, NEW e, Loads(file, ps, d),
           ApplyPatch([ok |-> TRUE, data |-> d], p) = [ok |-> TRUE, data |-> e]
    PROVE  Loads(file, Append(ps, p), e)
<1>1. file.patches \in Seq(Patch)
  BY DEF File
<1>2. \A qs : load_data(file, qs) = Loaded(file.base, file.patches \o qs)
  BY <1>1, LoadIs, CompleteIs
<1>3. file.patches \o ps \in Seq(Patch)
  BY <1>1, ConcatProperties
<1>4. file.patches \o Append(ps, p) = Append(file.patches \o ps, p)
  <2>1. PICK q \in Seq(Patch) : q = file.patches
    BY <1>1
  <2>2. q \o Append(ps, p) = Append(q \o ps, p)
    BY ConcatAppend
  <2> QED BY <2>1, <2>2
<1>5. Loaded(file.base, Append(file.patches \o ps, p)) = ApplyPatch(Loaded(file.base, file.patches \o ps), p)
  BY <1>3, LoadedOneMore
<1> QED BY <1>2, <1>4, <1>5 DEF Loads

(* One more pending patch, whose effect is the new memory, keeps FileOK. *)
LEMMA GrowsKeepsFile ==
    ASSUME up, TypeOK, FileOK, NEW p, Grows(p), Memory' \in Data
    PROVE  FileOK' /\ pending' \in Seq(Patch) /\ since' \in Seq(Data)
<1> USE DEF TypeOK
<1> DEFINE n == Len(pending)
           l == Len(since)
<1>0. p \in Patch /\ p # Cut
  BY PatchType DEF Grows
<1>1. /\ n \in Nat /\ pending' \in Seq(Patch) /\ Len(pending') = n + 1 /\ pending'[n + 1] = p
      /\ \A i \in 1 .. n : pending'[i] = pending[i]
      /\ pending' # << >>
  BY <1>0, AppendProperties, LenProperties DEF Grows
<1>2. /\ l \in Nat \ {0} /\ since' \in Seq(Data) /\ Len(since') = l + 1 /\ since'[l + 1] = Memory'
      /\ \A i \in 1 .. l : since'[i] = since[i]
  BY AppendProperties, LenProperties DEF Grows, FileOK
<1>3. Whole(pending') /\ p \in Patch
  BY <1>1, <1>0 DEF Grows, FileOK, Whole
<1>5. CASE InStep
  <2>1. Len(since') = Len(pending') + 1
    BY <1>1, <1>2, <1>5 DEF InStep
  <2>2. ASSUME NEW k \in 0 .. n + 1,
                     ~Strays(disk.patches), ~Strays(SubSeq(pending', 1, k))
        PROVE  Loads(disk, SubSeq(pending', 1, k), since'[k + 1])
    <3>1. CASE k \in 0 .. n
      <4>1. SubSeq(pending', 1, k) = SubSeq(pending, 1, k)
        BY <3>1, <1>0, SubSeqOfAppend DEF Grows
      <4>2. since'[k + 1] = since[k + 1]
        BY <3>1, <1>2, <1>1, <1>5 DEF InStep
      <4> QED BY <4>1, <4>2, <3>1, <2>2, <1>5 DEF InStep
    <3>2. CASE k = n + 1
      <4>1. SubSeq(pending', 1, k) = Append(pending, p) /\ SubSeq(pending, 1, n) = pending
        BY <3>2, <1>1, SubSeqFull DEF Grows
      <4>0. ~Strays(pending) /\ ~p.stray
        BY <2>2, <4>1, <1>0, StraysOfAppend
      <4>2. Loads(disk, SubSeq(pending, 1, n), since[n + 1])
        <5>1. n \in 0 .. n
          BY <1>1
        <5>2. ~Strays(SubSeq(pending, 1, n))
          BY <2>2, <4>1, <4>0
        <5> QED BY <5>1, <5>2, <2>2, <1>5 DEF InStep
      <4>3. since[n + 1] = Memory
        BY <1>5 DEF InStep, FileOK
      <4>4. Loads(disk, Append(pending, p), Memory')
        BY <4>0, <4>1, <4>2, <4>3, <1>0, <1>5, LoadsOneMore DEF InStep, Grows
      <4>5. since'[k + 1] = Memory'
        BY <3>2, <1>1, <1>2, <2>1
      <4> QED BY <4>1, <4>4, <4>5
    <3> QED BY <1>1, <3>1, <3>2
  <2>3. InStep'
    BY <2>1, <2>2, <1>1, <1>5 DEF InStep, Grows
  <2> QED BY <2>3, <1>1, <1>2, <1>3 DEF FileOK, Grows
<1>6. CASE Overrun
  <2>1. since'[1] = since[1]
    BY <1>2
  <2>2. Overrun'
    BY <2>1, <1>1, <1>6 DEF Overrun, Loadable, Grows
  <2> QED BY <2>2, <1>1, <1>2, <1>3 DEF FileOK, Grows
<1> QED BY <1>5, <1>6 DEF FileOK

(* A step that leaves the memory and the patches alone keeps FileOK. *)
LEMMA StaysKeepsFile == ASSUME FileOK, Stays PROVE FileOK'
<1>1. InStep => InStep'
  BY DEF Stays, InStep
<1>2. Overrun => Overrun'
  BY DEF Stays, Overrun, Loadable
<1> QED BY <1>1, <1>2 DEF Stays, FileOK

-----------------------------------------------------------------------------
(* The steps in memory *)

\* A step in memory: the tree stays OK, and the file is told of what changed.
StepInMemory ==
    /\ up /\ up'
    /\ root' \in Table(Slot, Obj) /\ content' \in [Obj -> Dict]
    /\ parent' \in [Obj -> Slot \cup {Pruned}] /\ held' \in SUBSET Obj /\ replaced' \in SUBSET Obj
    /\ modified' \in BOOLEAN
    /\ left' = left
    /\ TreeOK'
    /\ Stays \/ \E p : Grows(p)

(* A step in memory, of either shape, keeps the inductive invariant. *)
LEMMA StepInMemoryKeeps == ASSUME IInv, StepInMemory PROVE IInv'
<1> USE DEF IInv, TypeOK
<1>1. Memory' \in Data
  <2>1. Memory' = MemoryOf(root', content')
    BY DEF Memory, MemoryOf
  <2> QED BY <2>1, MemoryType DEF StepInMemory
<1>2. CASE Stays
  BY <1>2, StaysKeepsFile DEF StepInMemory, Stays
<1>3. CASE \E p : Grows(p)
  <2>1. PICK p : Grows(p)
    BY <1>3
  <2>2. FileOK' /\ pending' \in Seq(Patch) /\ since' \in Seq(Data)
    BY <1>1, <2>1, GrowsKeepsFile DEF StepInMemory
  <2> QED BY <2>1, <2>2 DEF StepInMemory, Grows
<1> QED BY <1>2, <1>3 DEF StepInMemory

\* What a change in a dict does to memory
LEMMA EditOfDict ==
    ASSUME TypeOK, TreeOK, NEW o \in Obj, NEW d \in Dict,
           content' = [content EXCEPT ![o] = d], root' = root
    PROVE  /\ o \in replaced \/ parent[o] = Pruned => Memory' = Memory
           /\ o \notin replaced /\ parent[o] # Pruned =>
                  /\ parent[o] \in DOMAIN Memory
                  /\ Memory[parent[o]] = content[o]
                  /\ Memory' = With(Memory, parent[o], d)
<1> USE DEF TypeOK
<1>1. Memory = [s \in DOMAIN root |-> content[root[s]]] /\ Memory' = [s \in DOMAIN root |-> content'[root[s]]]
  BY DEF Memory
<1>2. \A s \in DOMAIN root : root[s] \in Obj
  BY TableIs
<1>3. \A s \in DOMAIN root : content'[root[s]] = IF root[s] = o THEN d ELSE content[root[s]]
  BY <1>2
<1>4. \A s \in DOMAIN root : root[s] = o <=> o \notin replaced /\ s = parent[o]
  BY <1>2, PrunedAssumption, TableIs DEF TreeOK, Pruned
<1>5. ASSUME o \in replaced \/ parent[o] = Pruned
      PROVE  Memory' = Memory
  <2>1. \A s \in DOMAIN root : content'[root[s]] = content[root[s]]
    BY <1>3, <1>4, <1>5, PrunedAssumption, TableIs DEF Pruned
  <2> QED BY <1>1, <2>1
<1>6. ASSUME o \notin replaced, parent[o] # Pruned
      PROVE  /\ parent[o] \in DOMAIN Memory /\ Memory[parent[o]] = content[o]
             /\ Memory' = With(Memory, parent[o], d)
  <2>1. parent[o] \in DOMAIN root /\ root[parent[o]] = o
    BY <1>6 DEF TreeOK
  <2>2. DOMAIN Memory = DOMAIN root /\ \A s \in DOMAIN root : Memory[s] = content[root[s]]
    BY <1>1
  <2>3. DOMAIN Memory \cup {parent[o]} = DOMAIN root
    BY <2>1, <2>2
  <2>4. With(Memory, parent[o], d) = [s \in DOMAIN root |-> IF s = parent[o] THEN d ELSE Memory[s]]
    BY <2>3 DEF With
  <2>5. \A s \in DOMAIN root : content'[root[s]] = IF s = parent[o] THEN d ELSE Memory[s]
    BY <1>3, <1>4, <1>6, <2>2
  <2> HIDE DEF Memory
  <2>6. Memory' = [s \in DOMAIN root |-> IF s = parent[o] THEN d ELSE Memory[s]]
    BY <1>1, <2>5
  <2> QED BY <2>1, <2>2, <2>4, <2>6
<1> QED BY <1>5, <1>6

\* A change in a dict, by a patch if it has a path, is a step in memory.
LEMMA EmitIsStep ==
    ASSUME TypeOK, TreeOK, up, NEW o \in Obj, NEW op \in {"add", "replace", "remove"},
           NEW k \in Key, NEW v \in {0} \cup Val, op # "remove" => v \in Val,
           op # "add" => k \in DOMAIN content[o],
           content' = [content EXCEPT ![o] = IF op = "remove" THEN Without(@, k) ELSE With(@, k, v)],
           Emit(o, op, k, v), UNCHANGED <<up, root, parent, held, replaced, pos, disk, left>>, Changed
    PROVE  StepInMemory
<1> USE DEF TypeOK
<1> DEFINE d == IF op = "remove" THEN Without(content[o], k) ELSE With(content[o], k, v)
           t == o \in replaced
           p == patch(op, <<parent[o], k>>, v, t)
<1>1. d \in Dict /\ content' = [content EXCEPT ![o] = d]
  <2>1. content[o] \in Table(Key, Val)
    BY DEF Dict
  <2>2. op = "remove" => Without(content[o], k) \in Table(Key, Val)
    BY <2>1, TableWithout
  <2>3. op # "remove" => With(content[o], k, v) \in Table(Key, Val)
    BY <2>1, TableWith
  <2> QED BY <2>2, <2>3 DEF Dict
<1>2. content' \in [Obj -> Dict] /\ modified' \in BOOLEAN
  <2> HIDE DEF d
  <2> QED BY <1>1 DEF Emit
<1>3. /\ t \/ parent[o] = Pruned => Memory' = Memory
      /\ ~t /\ parent[o] # Pruned => /\ parent[o] \in DOMAIN Memory
                                     /\ Memory[parent[o]] = content[o]
                                     /\ Memory' = With(Memory, parent[o], d)
  <2> HIDE DEF d
  <2> QED BY <1>1, EditOfDict
<1>4. TreeOK'
  BY DEF TreeOK
<1>5. CASE parent[o] = Pruned
  <2>1. Stays
    BY <1>3, <1>5 DEF Stays, Emit, Changed
  <2> QED BY <2>1, <1>2, <1>4 DEF StepInMemory
<1>6. CASE parent[o] # Pruned
  <2>0. t \in BOOLEAN
    OBVIOUS
  <2> HIDE DEF t
  <2>1. parent[o] \in Slot /\ p \in Edit /\ p \in Patch
    <3>1. parent[o] \in Slot
      BY <1>6
    <3>2. p \in Edit
      BY <3>1, <2>0, PatchType
    <3> QED BY <3>1, <3>2, PatchType
  <2>2. pending' = Append(pending, p) /\ pending' # pending
    <3>1. pending' = Append(pending, p)
      BY <1>6 DEF Emit, t
    <3> QED BY <3>1, <2>1, AppendDiffers
  <2>3. since' = Append(since, Memory')
    BY <2>2 DEF Changed
  <2>4. ~t => ApplyPatch([ok |-> TRUE, data |-> Memory], p) = [ok |-> TRUE, data |-> Memory']
    <3> SUFFICES ASSUME ~t
                 PROVE  ApplyPatch([ok |-> TRUE, data |-> Memory], p) = [ok |-> TRUE, data |-> Memory']
      OBVIOUS
    <3>1. Memory \in Data
      BY MemoryIs, MemoryType
    <3>2. ApplyPatch([ok |-> TRUE, data |-> Memory], p) =
              [ok |-> TRUE, data |-> With(Memory, parent[o],
                  IF op = "remove" THEN Without(Memory[parent[o]], k) ELSE With(Memory[parent[o]], k, v))]
      BY <3>1, <1>3, <1>6, PatchOfDict
    <3> QED BY <3>2, <1>3, <1>6
  <2>5. p.stray = t
    BY DEF patch
  <2>6. Grows(p)
    BY <2>1, <2>2, <2>3, <2>4, <2>5 DEF Grows
  <2> QED BY <2>6, <1>2, <1>4 DEF StepInMemory
<1> QED BY <1>5, <1>6

(* Setting a value in a StoredDict is a step in memory. *)
LEMMA SetValueStep ==
    ASSUME IInv, NEW o \in Obj, NEW k \in Key, NEW v \in Val, SetValue(o, k, v)
    PROVE  StepInMemory
<1> DEFINE op == IF k \in DOMAIN content[o] THEN "replace" ELSE "add"
<1>1. op \in {"add", "replace", "remove"} /\ op # "remove" /\ (op # "add" => k \in DOMAIN content[o])
  OBVIOUS
<1>2. /\ up /\ TypeOK /\ TreeOK
      /\ content' = [content EXCEPT ![o] = With(@, k, v)]
      /\ Emit(o, op, k, v) /\ Changed
      /\ UNCHANGED <<up, root, parent, held, replaced, pos, disk, left>>
  BY DEF SetValue, Room, IInv
<1> HIDE DEF op
<1>3. content' = [content EXCEPT ![o] = IF op = "remove" THEN Without(@, k) ELSE With(@, k, v)]
  BY <1>1, <1>2
<1> QED BY <1>1, <1>2, <1>3, EmitIsStep

(* Popping a value from a StoredDict is a step in memory. *)
LEMMA PopValueStep ==
    ASSUME IInv, NEW o \in Obj, NEW k \in Key, PopValue(o, k)
    PROVE  StepInMemory
<1>1. /\ up /\ TypeOK /\ TreeOK /\ k \in DOMAIN content[o]
      /\ content' = [content EXCEPT ![o] = Without(@, k)]
      /\ Emit(o, "remove", k, 0) /\ Changed
      /\ UNCHANGED <<up, root, parent, held, replaced, pos, disk, left>>
  BY DEF PopValue, Room, IInv
<1>2. content' = [content EXCEPT ![o] = IF "remove" = "remove" THEN Without(@, k) ELSE With(@, k, 0)]
  BY <1>1
<1> QED BY <1>1, <1>2, EmitIsStep

\* A table of memory that differs by an entry
LEMMA MemoryWith ==
    ASSUME TypeOK, NEW s \in Slot, NEW d \in Dict, DOMAIN root' = DOMAIN root \cup {s},
           \A t \in DOMAIN root' : content'[root'[t]] = IF t = s THEN d ELSE content[root[t]]
    PROVE  Memory' = With(Memory, s, d)
<1>1. Memory' = [t \in DOMAIN root' |-> content'[root'[t]]]
  BY DEF Memory
<1>2. DOMAIN Memory = DOMAIN root /\ \A t \in DOMAIN root : Memory[t] = content[root[t]]
  BY DEF Memory
<1>3. With(Memory, s, d) = [t \in DOMAIN root' |-> IF t = s THEN d ELSE Memory[t]]
  BY <1>2 DEF With
<1>4. \A t \in DOMAIN root' : content'[root'[t]] = IF t = s THEN d ELSE Memory[t]
  BY <1>2
<1> HIDE DEF Memory
<1> QED BY <1>1, <1>3, <1>4

\* A patch of the root is a step in memory.
LEMMA RootIsStep ==
    ASSUME TypeOK, up, up', NEW op \in {"add", "replace", "remove"}, NEW s \in Slot, NEW v \in {0} \cup Dict,
           op # "add" => s \in DOMAIN root,
           op # "remove" => v \in Dict,
           root' \in Table(Slot, Obj), content' \in [Obj -> Dict],
           parent' \in [Obj -> Slot \cup {Pruned}], held' \in SUBSET Obj, replaced' \in SUBSET Obj, TreeOK',
           Memory' = IF op = "remove" THEN Without(Memory, s) ELSE With(Memory, s, v),
           pending' = Append(pending, patch(op, <<s>>, v, FALSE)), modified' = TRUE,
           UNCHANGED <<up, pos, disk, left>>, Changed
    PROVE  StepInMemory
<1> USE DEF TypeOK
<1> DEFINE p == patch(op, <<s>>, v, FALSE)
<1>1. p \in Edit /\ p \in Patch
  BY PatchType
<1>2. pending' = Append(pending, p) /\ pending' # pending
  BY <1>1, AppendDiffers
<1>3. Memory \in Data /\ DOMAIN Memory = DOMAIN root
  BY MemoryIs, MemoryType
<1>4. ApplyPatch([ok |-> TRUE, data |-> Memory], p) =
          [ok |-> TRUE, data |-> IF op = "remove" THEN Without(Memory, s) ELSE With(Memory, s, v)]
  BY <1>3, PatchOfRoot
<1>5. Grows(p)
  <2> HIDE DEF p
  <2> QED BY <1>1, <1>2, <1>4 DEF Grows, Changed
<1> QED BY <1>5 DEF StepInMemory

(* Storing a dict at a slot is a step in memory: one patch replaces the old dict. *)
LEMMA SetDictStep ==
    ASSUME IInv, NEW s \in Slot, NEW d \in {<< >>} \cup [Key -> Val], SetDict(s, d)
    PROVE  StepInMemory
<1> USE DEF TypeOK
<1> DEFINE o   == CHOOSE o \in Obj : o \notin held
           old == {root[t] : t \in DOMAIN root \cap {s}}
           op  == IF old # {} THEN "replace" ELSE "add"
<1>1. /\ up /\ TypeOK /\ TreeOK
      /\ held # Obj
      /\ root' = With(root, s, o)
      /\ content' = [content EXCEPT ![o] = d]
      /\ parent' = [parent EXCEPT ![o] = s]
      /\ held' = held \cup {o}
      /\ replaced' = replaced \cup old
      /\ pending' = Append(pending, patch(op, <<s>>, d, FALSE))
      /\ modified' = TRUE /\ UNCHANGED <<up, pos, disk, left>> /\ Changed
  BY DEF SetDict, Room, IInv
<1>2. o \in Obj /\ o \notin held /\ o \notin replaced
  BY <1>1 DEF TreeOK
<1>3. d \in Dict
  <2>1. << >> \in Dict
    BY EmptyTable DEF Dict
  <2>2. [Key -> Val] \subseteq Dict
    BY DEF Dict, Table
  <2> QED BY <2>1, <2>2
<1>4. /\ old # {} <=> s \in DOMAIN root
      /\ s \in DOMAIN root => old = {root[s]}
      /\ old \subseteq held /\ old \subseteq Obj
  BY <1>1 DEF TreeOK
<1>5. op \in {"add", "replace", "remove"} /\ op # "remove" /\ (op # "add" => s \in DOMAIN root)
  BY <1>4
<1> HIDE DEF o, old, op
<1>6. /\ root' \in Table(Slot, Obj) /\ DOMAIN root' = DOMAIN root \cup {s} /\ root'[s] = o
      /\ \A t \in DOMAIN root : t # s => root'[t] = root[t]
  <2>1. root \in Table(Slot, Obj)
    BY <1>1
  <2>2. With(root, s, o) \in Table(Slot, Obj)
    BY <2>1, <1>2, TableWith
  <2>3. root' = [t \in DOMAIN root \cup {s} |-> IF t = s THEN o ELSE root[t]]
    BY <1>1 DEF With
  <2> QED BY <2>2, <2>3, <1>1
<1>7. /\ content' \in [Obj -> Dict] /\ parent' \in [Obj -> Slot \cup {Pruned}]
      /\ held' \in SUBSET Obj /\ replaced' \in SUBSET Obj
  BY <1>1, <1>2, <1>3, <1>4
<1>8. \A t \in DOMAIN root : root[t] \in Obj /\ root[t] # o /\ (t # s => root[t] \notin old)
  BY <1>1, <1>2, <1>4, TableIs DEF TreeOK
<1>9. TreeOK'
  <2>1. ASSUME NEW t \in DOMAIN root' PROVE root'[t] \in held' \ replaced' /\ parent'[root'[t]] = t
    <3>1. CASE t = s
      BY <3>1, <1>1, <1>2, <1>4, <1>6
    <3>2. CASE t # s
      <4>1. t \in DOMAIN root /\ root'[t] = root[t]
        BY <3>2, <1>6
      <4>2. root[t] \in held \ replaced /\ parent[root[t]] = t
        BY <4>1, <1>1 DEF TreeOK
      <4> QED BY <4>1, <4>2, <3>2, <1>1, <1>8
    <3> QED BY <3>1, <3>2
  <2>2. ASSUME NEW q \in Obj \ replaced', parent'[q] # Pruned
        PROVE  parent'[q] \in DOMAIN root' /\ root'[parent'[q]] = q
    <3>1. CASE q = o
      BY <3>1, <2>2, <1>1, <1>2, <1>6
    <3>2. CASE q # o
      <4>1. q \notin old /\ q \notin replaced /\ parent'[q] = parent[q]
        BY <3>2, <2>2, <1>1
      <4>2. parent[q] \in DOMAIN root /\ root[parent[q]] = q
        BY <4>1, <2>2, <1>1 DEF TreeOK
      <4>3. parent[q] # s
        BY <4>1, <4>2, <1>4
      <4> QED BY <4>1, <4>2, <4>3, <1>6
    <3> QED BY <3>1, <3>2
  <2>3. replaced' \subseteq held'
    BY <1>1, <1>4 DEF TreeOK
  <2> QED BY <2>1, <2>2, <2>3 DEF TreeOK
<1>10. Memory' = With(Memory, s, d)
  <2>1. ASSUME NEW t \in DOMAIN root' PROVE content'[root'[t]] = IF t = s THEN d ELSE content[root[t]]
    <3>1. CASE t = s
      BY <3>1, <1>1, <1>2, <1>6
    <3>2. CASE t # s
      <4>1. t \in DOMAIN root /\ root'[t] = root[t]
        BY <3>2, <1>6
      <4> QED BY <4>1, <3>2, <1>1, <1>8
    <3> QED BY <3>1, <3>2
  <2> QED BY <2>1, <1>1, <1>3, <1>6, MemoryWith
<1>11. Memory' = IF op = "remove" THEN Without(Memory, s) ELSE With(Memory, s, d)
  BY <1>5, <1>10
<1> QED BY <1>1, <1>3, <1>5, <1>6, <1>7, <1>9, <1>11, RootIsStep

(* Popping the dict of a slot is a step in memory. *)
LEMMA PopDictStep == ASSUME IInv, NEW s \in Slot, PopDict(s) PROVE StepInMemory
<1> USE DEF TypeOK
<1>1. /\ up /\ TypeOK /\ TreeOK /\ s \in DOMAIN root
      /\ root' = Without(root, s) /\ parent' = [parent EXCEPT ![root[s]] = Pruned]
      /\ pending' = Append(pending, patch("remove", <<s>>, 0, FALSE))
      /\ modified' = TRUE /\ UNCHANGED <<up, content, held, replaced, pos, disk, left>> /\ Changed
  BY DEF PopDict, Room, IInv, pruned_parent
<1>2. /\ root' \in Table(Slot, Obj) /\ DOMAIN root' = DOMAIN root \ {s}
      /\ \A t \in DOMAIN root \ {s} : root'[t] = root[t]
  <2>1. root \in Table(Slot, Obj)
    BY <1>1
  <2>2. Without(root, s) \in Table(Slot, Obj)
    BY <2>1, TableWithout
  <2>3. root' = [t \in DOMAIN root \ {s} |-> root[t]]
    BY <1>1 DEF Without
  <2> QED BY <2>2, <2>3, <1>1
<1>3. \A t \in DOMAIN root : root[t] \in Obj /\ (root[t] = root[s] => t = s)
  BY <1>1, TableIs DEF TreeOK
<1>4. parent' \in [Obj -> Slot \cup {Pruned}]
  BY <1>1
<1>5. TreeOK'
  <2>1. ASSUME NEW t \in DOMAIN root' PROVE root'[t] \in held' \ replaced' /\ parent'[root'[t]] = t
    BY <1>1, <1>2, <1>3 DEF TreeOK
  <2>2. ASSUME NEW q \in Obj \ replaced', parent'[q] # Pruned
        PROVE  parent'[q] \in DOMAIN root' /\ root'[parent'[q]] = q
    <3>1. q # root[s] /\ q \notin replaced /\ parent'[q] = parent[q]
      BY <2>2, <1>1, <1>3
    <3>2. parent[q] \in DOMAIN root /\ root[parent[q]] = q
      BY <3>1, <2>2, <1>1 DEF TreeOK
    <3>3. parent[q] # s
      BY <3>1, <3>2
    <3> QED BY <3>1, <3>2, <3>3, <1>2
  <2>3. replaced' \subseteq held'
    BY <1>1 DEF TreeOK
  <2> QED BY <2>1, <2>2, <2>3 DEF TreeOK
<1>6. Memory' = Without(Memory, s)
  <2>1. Memory' = [t \in DOMAIN root' |-> content[root'[t]]]
    BY <1>1 DEF Memory
  <2>2. DOMAIN Memory = DOMAIN root /\ \A t \in DOMAIN root : Memory[t] = content[root[t]]
    BY DEF Memory
  <2>3. Without(Memory, s) = [t \in DOMAIN root' |-> Memory[t]]
    BY <2>2, <1>2 DEF Without
  <2>4. \A t \in DOMAIN root' : content[root'[t]] = Memory[t]
    BY <2>2, <1>2
  <2> HIDE DEF Memory
  <2> QED BY <2>1, <2>3, <2>4
<1>7. Memory' = IF "remove" = "remove" THEN Without(Memory, s) ELSE With(Memory, s, 0)
  BY <1>6
<1> QED BY <1>1, <1>2, <1>4, <1>5, <1>7, RootIsStep

(* Dropping the last reference to a detached dict leaves the file alone. *)
LEMMA ReleaseStep == ASSUME IInv, NEW o \in Obj, Release(o) PROVE StepInMemory
<1> USE DEF TypeOK
<1>1. /\ up /\ TypeOK /\ TreeOK /\ (\A s \in DOMAIN root : root[s] # o)
      /\ held' = held \ {o} /\ replaced' = replaced \ {o}
      /\ content' = [content EXCEPT ![o] = << >>] /\ parent' = [parent EXCEPT ![o] = Pruned]
      /\ UNCHANGED <<up, root, pending, modified, pos, disk, since, left>>
  BY DEF Release, IInv
<1>2. << >> \in Dict
  BY EmptyTable DEF Dict
<1>3. content' \in [Obj -> Dict] /\ parent' \in [Obj -> Slot \cup {Pruned}]
  BY <1>1, <1>2
<1>4. \A s \in DOMAIN root : root[s] \in Obj /\ root[s] # o
  BY <1>1, TableIs
<1>5. TreeOK'
  BY <1>1, <1>4 DEF TreeOK
<1>6. Memory' = Memory
  <2>1. Memory' = [s \in DOMAIN root |-> content'[root[s]]]
    BY <1>1 DEF Memory
  <2>2. \A s \in DOMAIN root : content'[root[s]] = content[root[s]]
    BY <1>1, <1>4
  <2> QED BY <2>1, <2>2 DEF Memory
<1>7. Stays
  BY <1>1, <1>6 DEF Stays
<1> QED BY <1>1, <1>3, <1>5, <1>7 DEF StepInMemory

-----------------------------------------------------------------------------
(* The file when it is written *)

\* The file as it is loads as the first state of since, or as some state if it has a
\* stray patch.
LEMMA FirstIsLoaded ==
    ASSUME TypeOK, FileOK
    PROVE  /\ ~Strays(disk.patches) => Loads(disk, << >>, since[1])
           /\ Loadable
<1>1. CASE up /\ InStep
  <2>1. Len(pending) \in Nat
    BY LenProperties DEF TypeOK
  <2>2. 0 \in 0 .. Len(pending) /\ SubSeq(pending, 1, 0) = << >>
    BY <2>1, SubSeqEmpty
  <2>3. ~Strays(disk.patches) /\ ~Strays(SubSeq(pending, 1, 0)) =>
            Loads(disk, SubSeq(pending, 1, 0), since[0 + 1])
    BY <1>1, <2>2 DEF InStep
  <2>4. 0 + 1 = 1
    OBVIOUS
  <2>5. ~Strays(disk.patches) => Loads(disk, << >>, since[1])
    BY <2>2, <2>3, <2>4, NoStrays, Zenon
  <2>6. disk.patches \in Seq(Patch) /\ disk.base \in Data /\ Whole(disk.patches)
    BY <1>1 DEF TypeOK, File, InStep
  <2>7. load_data(disk, << >>) = Loaded(disk.base, disk.patches)
    <3>1. disk.patches \o << >> = disk.patches
      BY <2>6, ConcatEmptySeq
    <3> QED BY <2>6, <3>1, LoadIs, CompleteIs
  <2>8. Loadable
    BY <2>6, <2>7, LoadedType DEF Loadable
  <2> QED BY <2>5, <2>8
<1>2. CASE up /\ Overrun
  BY <1>2 DEF Overrun
<1>3. CASE ~up
  <2>1. Len(since) = 1 /\ since[1] = load_data(disk, << >>).data
    BY <1>3 DEF FileOK
  <2>2. since[1] \in Data
    <3>1. 1 \in 1 .. Len(since) /\ since \in Seq(Data)
      BY <2>1 DEF TypeOK
    <3> QED BY <3>1, ElementOfSeq
  <2> QED BY <1>3, <2>1, <2>2 DEF FileOK, Loadable
<1> QED BY <1>1, <1>2, <1>3 DEF FileOK

\* The file with k patches more, and perhaps a piece of one
LEMMA AppendedIs ==
    ASSUME TypeOK, NEW k \in 0 .. Len(pending), NEW cut \in BOOLEAN
    PROVE  /\ Appended(k, cut) \in File
           /\ Appended(k, cut).base = disk.base
           /\ disk.patches \o SubSeq(pending, 1, k) \in Seq(Patch)
           /\ Appended(k, cut).patches =
                  IF cut THEN Append(disk.patches \o SubSeq(pending, 1, k), Cut)
                  ELSE disk.patches \o SubSeq(pending, 1, k)
           /\ k = 0 /\ ~cut => Appended(k, cut) = disk
           /\ k # 0 \/ cut => Appended(k, cut).patches # << >> /\ Appended(k, cut) # disk
<1>1. PICK d \in Seq(Patch), q \in Seq(Patch) : d = disk.patches /\ q = SubSeq(pending, 1, k)
  BY FirstOnes DEF TypeOK, File
<1>2. d \o q \in Seq(Patch) /\ Len(d \o q) = Len(d) + k /\ Len(d) \in Nat
  <2>1. pending \in Seq(Patch)
    BY DEF TypeOK
  <2>2. Len(q) = k
    BY <1>1, <2>1, FirstOnes
  <2> QED BY <2>2, ConcatProperties, LenProperties
<1>3. Cut \in Patch
  BY PatchType
<1>4. /\ Append(d \o q, Cut) \in Seq(Patch) /\ Len(Append(d \o q, Cut)) = Len(d) + k + 1
      /\ Append(d \o q, Cut) = (d \o q) \o <<Cut>>
  <2>1. PICK e \in Seq(Patch) : e = d \o q
    BY <1>2
  <2>2. Append(e, Cut) \in Seq(Patch) /\ Len(Append(e, Cut)) = Len(e) + 1
    BY <1>3, AppendProperties
  <2>3. Append(e, Cut) = e \o <<Cut>>
    BY <1>3, AppendIsConcat
  <2> QED BY <1>2, <2>1, <2>2, <2>3
<1>5. (d \o q) \o << >> = d \o q
  BY <1>2, ConcatEmptySeq
<1> DEFINE ps == IF cut THEN Append(d \o q, Cut) ELSE d \o q
<1>6. Appended(k, cut) = [disk EXCEPT !.patches = ps]
  BY <1>1, <1>4, <1>5 DEF Appended
<1>7. ps \in Seq(Patch) /\ (k # 0 \/ cut => Len(ps) > Len(d)) /\ (k = 0 /\ ~cut => ps = d)
  <2>1. k = 0 => q = << >>
    BY <1>1, SubSeqEmpty
  <2>2. d \o << >> = d
    BY ConcatEmptySeq
  <2> QED BY <1>2, <1>4, <2>1, <2>2
<1>8. disk = [base |-> disk.base, patches |-> d] /\ disk.base \in Data
  BY <1>1 DEF TypeOK, File
<1>9. ps # << >> \/ (k = 0 /\ ~cut)
  BY <1>2, <1>7, EmptySeq
<1>10. Appended(k, cut) = [base |-> disk.base, patches |-> ps]
  <2> HIDE DEF ps
  <2> QED BY <1>6, <1>8
<1>11. /\ Appended(k, cut) \in File /\ Appended(k, cut).base = disk.base
       /\ Appended(k, cut).patches = ps
  <2> HIDE DEF ps
  <2> QED BY <1>7, <1>8, <1>10 DEF File
<1>12. k = 0 /\ ~cut => Appended(k, cut) = disk
  BY <1>7, <1>8, <1>10
<1>13. k # 0 \/ cut => Appended(k, cut).patches # << >> /\ Appended(k, cut) # disk
  <2> HIDE DEF ps
  <2> QED BY <1>1, <1>2, <1>7, <1>9, <1>11
<1> QED BY <1>1, <1>2, <1>11, <1>12, <1>13

\* It loads as the state of memory after these patches, unless one is stray.
LEMMA AppendedLoads ==
    ASSUME TypeOK, FileOK, InStep, NEW k \in 0 .. Len(pending), NEW cut \in BOOLEAN
    PROVE  /\ ~Strays(Appended(k, cut).patches) => Loads(Appended(k, cut), << >>, since[k + 1])
           /\ load_data(Appended(k, cut), << >>).data \in Data
           /\ ~cut => Whole(Appended(k, cut).patches)
<1> DEFINE a == Appended(k, cut)
           ps == disk.patches \o SubSeq(pending, 1, k)
<1>1. /\ a \in File /\ a.base = disk.base /\ ps \in Seq(Patch)
      /\ a.patches = IF cut THEN Append(ps, Cut) ELSE ps
  BY AppendedIs
<1>2. Whole(ps)
  <2>1. disk.patches \in Seq(Patch) /\ pending \in Seq(Patch)
    BY DEF TypeOK, File
  <2>2. /\ SubSeq(pending, 1, k) \in Seq(Patch) /\ Len(SubSeq(pending, 1, k)) = k
        /\ \A i \in 1 .. k : SubSeq(pending, 1, k)[i] = pending[i]
    BY <2>1, FirstOnes
  <2>3. k \in Nat /\ Len(disk.patches) \in Nat /\ k <= Len(pending) /\ Len(pending) \in Nat
    BY <2>1, LenProperties
  <2>4. /\ Len(ps) = Len(disk.patches) + k
        /\ \A i \in 1 .. Len(disk.patches) + k :
               ps[i] = IF i <= Len(disk.patches) THEN disk.patches[i]
                       ELSE SubSeq(pending, 1, k)[i - Len(disk.patches)]
    <3>1. PICK d \in Seq(Patch), q \in Seq(Patch) : d = disk.patches /\ q = SubSeq(pending, 1, k)
      BY <2>1, <2>2
    <3>2. /\ Len(d \o q) = Len(d) + Len(q)
          /\ \A i \in 1 .. Len(d) + Len(q) : (d \o q)[i] = IF i <= Len(d) THEN d[i] ELSE q[i - Len(d)]
      BY ConcatProperties
    <3> QED BY <3>1, <3>2, <2>2
  <2>5. \A i \in 1 .. Len(disk.patches) : disk.patches[i] # Cut
    BY DEF InStep, Whole
  <2>6. \A i \in 1 .. k : SubSeq(pending, 1, k)[i] # Cut
    BY <2>2, <2>3 DEF FileOK, Whole
  <2> HIDE DEF ps
  <2>7. ASSUME NEW i \in 1 .. Len(ps) PROVE ps[i] # Cut
    <3>1. CASE i <= Len(disk.patches)
      BY <3>1, <2>3, <2>4, <2>5
    <3>2. CASE i > Len(disk.patches)
      <4>1. i - Len(disk.patches) \in 1 .. k
        BY <3>2, <2>3, <2>4
      <4> QED BY <4>1, <3>2, <2>3, <2>4, <2>6
    <3> QED BY <3>1, <3>2, <2>3
  <2> QED BY <2>7 DEF Whole
<1>3. Complete(a) = ps
  <2> HIDE DEF a, ps
  <2>1. CASE cut
    BY <2>1, <1>1, <1>2, PatchType, CompleteOfCut
  <2>2. CASE ~cut
    BY <2>2, <1>1, <1>2, CompleteIs
  <2> QED BY <2>1, <2>2
<1>4. Complete(disk) = disk.patches
  BY CompleteIs DEF InStep, TypeOK, File
<1>5. load_data(a, << >>) = load_data(disk, SubSeq(pending, 1, k))
  <2>1. load_data(a, << >>) = Loaded(a.base, Complete(a) \o << >>)
    BY LoadIs
  <2>2. ps \o << >> = ps
    BY <1>1, ConcatEmptySeq
  <2>3. load_data(disk, SubSeq(pending, 1, k)) = Loaded(disk.base, Complete(disk) \o SubSeq(pending, 1, k))
    BY LoadIs
  <2> HIDE DEF a
  <2> QED BY <2>1, <2>2, <2>3, <1>1, <1>3, <1>4
<1>6. load_data(a, << >>).data \in Data
  <2>1. load_data(disk, SubSeq(pending, 1, k)) = Loaded(disk.base, ps) /\ disk.base \in Data
    BY <1>4, LoadIs DEF TypeOK, File
  <2> HIDE DEF a, ps
  <2> QED BY <2>1, <1>1, <1>2, <1>5, LoadedType
<1>7. ASSUME ~Strays(a.patches) PROVE Loads(a, << >>, since[k + 1])
  <2>1. ~Strays(ps)
    <3> HIDE DEF a, ps
    <3>1. cut => (Strays(Append(ps, Cut)) <=> Strays(ps) \/ Cut.stray)
      BY <1>1, PatchType, StraysOfAppend
    <3> QED BY <3>1, <1>1, <1>7
  <2>2. PICK d \in Seq(Patch), q \in Seq(Patch) : d = disk.patches /\ q = SubSeq(pending, 1, k)
    BY FirstOnes DEF TypeOK, File
  <2>3. ~Strays(d) /\ ~Strays(q)
    BY <2>1, <2>2, StraysOfConcat
  <2>4. Loads(disk, SubSeq(pending, 1, k), since[k + 1])
    BY <2>2, <2>3 DEF InStep
  <2> QED BY <2>4, <1>5 DEF Loads
<1> QED BY <1>1, <1>2, <1>6, <1>7

\* What is left of since
LEMMA OnwardIs ==
    ASSUME TypeOK, FileOK, NEW k \in 1 .. Len(since)
    PROVE  /\ Onward(k) = SubSeq(since, k, Len(since))
           /\ Onward(k) \in Seq(Data) /\ Len(Onward(k)) = Len(since) - k + 1
           /\ \A i \in 1 .. Len(since) - k + 1 : Onward(k)[i] = since[k + i - 1]
           /\ Onward(k)[1] = since[k] /\ Onward(k)[Len(Onward(k))] = since[Len(since)]
<1> DEFINE l == Len(since)
<1>1. l \in Nat /\ \A i \in 1 .. l : since[i] \in Data
  BY LenProperties, ElementOfSeq DEF TypeOK
<1>2. Onward(k) = SubSeq(since, k, l)
  BY <1>1, MinOfTwo DEF Onward
<1>3. /\ Onward(k) \in Seq(Data) /\ Len(Onward(k)) = l - k + 1
      /\ \A i \in 1 .. l - k + 1 : Onward(k)[i] = since[k + i - 1]
  <2>1. \A i \in k .. l : since[i] \in Data
    BY <1>1
  <2>2. k \in Int /\ l \in Int /\ k <= l
    BY <1>1
  <2> HIDE DEF l
  <2> QED BY <1>2, <2>1, <2>2, SubSeqProperties
<1>4. Onward(k)[1] = since[k] /\ Onward(k)[l - k + 1] = since[l]
  <2>1. 1 \in 1 .. l - k + 1 /\ l - k + 1 \in 1 .. l - k + 1 /\ k + 1 - 1 = k /\ k + (l - k + 1) - 1 = l
    BY <1>1
  <2> QED BY <2>1, <1>3
<1> QED BY <1>2, <1>3, <1>4

\* A dump loads as what was dumped.
LEMMA DumpLoads ==
    ASSUME NEW d \in Data
    PROVE  /\ Dump(d) \in File /\ Dump(d).patches = << >> /\ Whole(Dump(d).patches)
           /\ Loads(Dump(d), << >>, d)
<1> DEFINE f == Dump(d)
<1>1. f.base = d /\ f.patches = << >> /\ << >> \in Seq(Patch)
  BY EmptySeq DEF Dump
<1>2. f \in File
  BY <1>1 DEF Dump, File
<1>3. Len(<< >>) = 0 /\ << >> \o << >> = << >>
  OBVIOUS
<1> HIDE DEF f
<1>4. Whole(f.patches)
  BY <1>1, <1>3 DEF Whole
<1>5. Complete(f) = << >>
  BY <1>1, <1>4, CompleteIs
<1>6. load_data(f, << >>) = Loaded(d, << >>)
  BY <1>1, <1>3, <1>5, LoadIs
<1>7. Loads(f, << >>, d)
  BY <1>6, LoadedNone DEF Loads
<1> QED BY <1>1, <1>2, <1>4, <1>7 DEF f

\* After a write that gets to the end, the file is the last state of since.
LEMMA WrittenKeeps ==
    ASSUME IInv, up, up', UNCHANGED tree, pending' = << >>, modified' \in BOOLEAN, left' = left,
           disk' \in File, pos' \in File, Whole(disk'.patches),
           ~Strays(disk'.patches) => Loads(disk', << >>, Memory),
           since' = Onward(Len(since))
    PROVE  IInv'
<1> USE DEF IInv
<1>1. TypeOK' /\ TreeOK'
  <2>1. Len(since) \in 1 .. Len(since)
    BY DEF FileOK
  <2>2. since' \in Seq(Data)
    BY <2>1, OnwardIs
  <2>3. << >> \in Seq(Patch)
    BY EmptySeq
  <2> QED BY <2>2, <2>3 DEF TypeOK, TreeOK, tree
<1>2. Memory' = Memory
  BY DEF Memory, tree
<1>3. Len(since') = 1 /\ since'[1] = Memory
  <2>1. Len(since) \in Nat \ {0} /\ since[Len(since)] = Memory
    BY DEF FileOK
  <2>2. Len(since) \in 1 .. Len(since) /\ Len(since) - Len(since) + 1 = 1
    BY <2>1
  <2>3. /\ Len(Onward(Len(since))) = Len(since) - Len(since) + 1
        /\ Onward(Len(since))[1] = since[Len(since)]
    BY <2>2, OnwardIs
  <2> QED BY <2>1, <2>2, <2>3
<1>4. Len(pending') = 0 /\ SubSeq(pending', 1, 0) = << >>
  BY SubSeqEmpty
<1>5. Whole(pending')
  BY <1>4 DEF Whole
<1>6. InStep'
  <2>1. Len(since') = Len(pending') + 1
    BY <1>3, <1>4
  <2>2. ASSUME NEW k \in 0 .. Len(pending'), ~Strays(disk'.patches)
        PROVE  Loads(disk', SubSeq(pending', 1, k), since'[k + 1])
    <3>1. k = 0 /\ k + 1 = 1
      BY <1>4
    <3>2. SubSeq(pending', 1, k) = << >> /\ since'[k + 1] = Memory
      BY <3>1, <1>3, <1>4
    <3> QED BY <2>2, <3>2
  <2> QED BY <2>1, <2>2 DEF InStep
<1>7. FileOK'
  <2>1. Len(since') \in Nat \ {0} /\ since'[Len(since')] = Memory'
    BY <1>2, <1>3
  <2> QED BY <1>5, <1>6, <2>1 DEF FileOK
<1> QED BY <1>1, <1>7

(* JsonDB.write by appending keeps the inductive invariant. *)
LEMMA AppendPendingKeeps == ASSUME IInv, AppendPending PROVE IInv'
<1>1. /\ up /\ up' /\ disk = pos /\ TypeOK /\ FileOK
      /\ disk' = Appended(Len(pending), FALSE) /\ pos' = disk' /\ pending' = << >>
      /\ since' = Onward(Len(since)) /\ UNCHANGED <<up, tree, modified, left>>
  BY DEF AppendPending, can_append, IInv
<1>2. InStep
  BY <1>1 DEF FileOK, Overrun
<1>3. Len(pending) \in 0 .. Len(pending)
  BY <1>1, LenProperties DEF TypeOK
<1>4. disk' \in File
  BY <1>1, <1>3, AppendedIs
<1>5. Whole(disk'.patches) /\ (~Strays(disk'.patches) => Loads(disk', << >>, since[Len(pending) + 1]))
  BY <1>1, <1>2, <1>3, AppendedLoads
<1>6. since[Len(pending) + 1] = Memory
  BY <1>1, <1>2 DEF FileOK, InStep
<1>7. modified' \in BOOLEAN
  BY <1>1 DEF TypeOK
<1> QED BY <1>1, <1>4, <1>5, <1>6, <1>7, WrittenKeeps

(* The tree of a well-typed state stands for a well-typed datum. *)
LEMMA MemoryInData == ASSUME TypeOK PROVE Memory \in Data
  BY MemoryIs, MemoryType DEF TypeOK

(* Rewriting the whole file keeps the inductive invariant. *)
LEMMA ConsolidateKeeps == ASSUME IInv, Consolidate PROVE IInv'
<1>1. /\ up /\ up' /\ disk' = Dump(Memory) /\ pos' = disk' /\ pending' = << >> /\ modified' \in BOOLEAN
      /\ since' = Onward(Len(since)) /\ UNCHANGED tree /\ left' = left /\ TypeOK
  BY DEF Consolidate, pending_after_dump, IInv
<1>2. disk' \in File /\ Whole(disk'.patches) /\ Loads(disk', << >>, Memory)
  BY <1>1, MemoryInData, DumpLoads
<1> QED BY <1>1, <1>2, WrittenKeeps

(* A rewrite that fails before os.replace keeps the inductive invariant. *)
LEMMA ReplaceFailsKeeps == ASSUME IInv, ReplaceFails PROVE IInv'
<1>1. /\ up /\ up' /\ pos' = Dump(Memory) /\ left.faults > 0 /\ left' = [left EXCEPT !.faults = @ - 1]
      /\ UNCHANGED <<up, tree, pending, modified, disk, since>> /\ TypeOK /\ TreeOK /\ FileOK
  BY DEF ReplaceFails, Fault, IInv
<1>2. pos' \in File /\ pos'.patches = << >>
  BY <1>1, MemoryInData, DumpLoads
<1>3. TypeOK' /\ TreeOK'
  BY <1>1, <1>2 DEF TypeOK, TreeOK, tree
<1>4. Memory' = Memory
  BY <1>1 DEF Memory, tree
<1>5. InStep => InStep'
  BY <1>1 DEF InStep
<1>6. Overrun => Overrun'
  BY <1>1, <1>2 DEF Overrun, Loadable
<1>7. FileOK'
  BY <1>1, <1>4, <1>5, <1>6 DEF FileOK
<1> QED BY <1>3, <1>7 DEF IInv

(* An append that raises keeps the inductive invariant. *)
LEMMA AppendFailsKeeps ==
    ASSUME "fsync" \notin Faults, IInv, NEW k \in 0 .. MaxPending, NEW cut \in BOOLEAN, AppendFails(k, cut)
    PROVE  IInv'
<1>1. /\ up /\ up' /\ disk = pos /\ pending # << >> /\ k <= Len(pending)
      /\ disk' = Appended(k, cut) /\ pos' = pos /\ since' = Onward(k + 1)
      /\ left.faults > 0 /\ left' = [left EXCEPT !.faults = @ - 1]
      /\ UNCHANGED <<up, tree, pending, modified>> /\ TypeOK /\ TreeOK /\ FileOK
  BY DEF AppendFails, Fault, can_append, IInv
<1>2. InStep
  BY <1>1 DEF FileOK, Overrun
<1>3. k \in 0 .. Len(pending) /\ k + 1 \in 1 .. Len(since)
  <2>1. k \in Nat /\ Len(pending) \in Nat
    BY <1>1, BoundsAssumption, LenProperties DEF TypeOK
  <2> QED BY <2>1, <1>1, <1>2 DEF InStep
<1>4. /\ disk' \in File /\ (k = 0 /\ ~cut => disk' = disk)
      /\ (k # 0 \/ cut => disk'.patches # << >> /\ disk' # disk)
  BY <1>1, <1>3, AppendedIs
<1>5. (~Strays(disk'.patches) => Loads(disk', << >>, since[k + 1])) /\ Loadable'
  BY <1>1, <1>2, <1>3, AppendedLoads DEF Loadable
<1>6. /\ since' \in Seq(Data) /\ Len(since') = Len(since) - (k + 1) + 1
      /\ since'[1] = since[k + 1] /\ since'[Len(since')] = since[Len(since)]
  BY <1>1, <1>3, OnwardIs
<1>7. TypeOK' /\ TreeOK'
  <2>1. left' \in [faults : Nat, crashes : Nat]
    BY <1>1 DEF TypeOK
  <2>2. pos' \in File /\ disk' \in File /\ since' \in Seq(Data)
    BY <1>1, <1>4, <1>6 DEF TypeOK
  <2>3. UNCHANGED <<up, root, content, parent, held, replaced, pending, modified>>
    BY <1>1 DEF tree
  <2> QED BY <2>1, <2>2, <2>3, <1>1 DEF TypeOK, TreeOK
<1>8. Memory' = Memory
  BY <1>1 DEF Memory, tree
<1>9. InStep' \/ Overrun'
  <2>1. CASE k = 0 /\ ~cut
    <3>1. since' = since
      <4>0. k + 1 = 1 /\ 1 \in 1 .. Len(since)
        BY <2>1, <1>3
      <4>1. since' = SubSeq(since, 1, Len(since))
        BY <4>0, <1>1, OnwardIs
      <4> QED BY <4>1, <1>1, SubSeqFull DEF TypeOK
    <3> QED BY <2>1, <3>1, <1>1, <1>2, <1>4 DEF InStep
  <2>2. CASE k # 0 \/ cut
    BY <2>2, <1>1, <1>4, <1>5, <1>6 DEF Overrun
  <2> QED BY <2>1, <2>2
<1>10. Len(since') \in Nat \ {0}
  BY <1>3, <1>6, <1>1 DEF FileOK
<1>11. FileOK'
  BY <1>1, <1>6, <1>8, <1>9, <1>10 DEF FileOK
<1> QED BY <1>7, <1>11 DEF IInv

-----------------------------------------------------------------------------
(* Crash and start *)

(* A crash, in the middle of an append or not, keeps the inductive invariant. *)
LEMMA CrashKeeps ==
    ASSUME IInv, NEW k \in 0 .. MaxPending, NEW cut \in BOOLEAN, Crash(k, cut)
    PROVE  /\ IInv'
           /\ k + 1 \in 1 .. Len(since) /\ ~up'
           /\ Len(since') = 1 /\ since' = <<since'[1]>>
           /\ ~Strays(disk'.patches) => since'[1] = since[k + 1]
<1>1. /\ up /\ ~up' /\ (k # 0 \/ cut => disk = pos) /\ k <= Len(pending)
      /\ disk' = Appended(k, cut)
      /\ since' = <<IF Strays(disk'.patches) THEN load_data(disk', << >>).data ELSE Onward(k + 1)[1]>>
      /\ left.crashes > 0 /\ left' = [left EXCEPT !.crashes = @ - 1]
      /\ up' = FALSE /\ UNCHANGED <<tree, pending, modified, pos>> /\ TypeOK /\ FileOK
  BY DEF Crash, can_append, IInv
<1>2. k \in 0 .. Len(pending) /\ Len(pending) \in Nat /\ k \in Nat
  BY <1>1, BoundsAssumption, LenProperties DEF TypeOK
<1>3. k # 0 \/ cut => InStep
  BY <1>1 DEF FileOK, Overrun
<1>4. k + 1 \in 1 .. Len(since)
  <2>1. CASE k # 0 \/ cut
    BY <2>1, <1>2, <1>3 DEF InStep
  <2>2. CASE k = 0
    BY <2>2, <1>1 DEF FileOK
  <2> QED BY <2>1, <2>2
<1>5. Onward(k + 1)[1] = since[k + 1] /\ since[k + 1] \in Data
  <2>1. Onward(k + 1)[1] = since[k + 1]
    BY <1>1, <1>4, OnwardIs
  <2>2. since[k + 1] \in Data
    BY <1>1, <1>4, ElementOfSeq DEF TypeOK
  <2> QED BY <2>1, <2>2
<1>6. disk' \in File
  BY <1>1, <1>2, AppendedIs
<1>7. /\ ~Strays(disk'.patches) => Loads(disk', << >>, since[k + 1])
      /\ load_data(disk', << >>).data \in Data
  <2>1. CASE k # 0 \/ cut
    BY <2>1, <1>1, <1>2, <1>3, AppendedLoads
  <2>2. CASE k = 0 /\ ~cut
    <3>1. disk' = disk /\ k + 1 = 1
      BY <2>2, <1>1, <1>2, AppendedIs
    <3>2. (~Strays(disk.patches) => Loads(disk, << >>, since[1])) /\ Loadable
      BY <1>1, FirstIsLoaded
    <3> QED BY <3>1, <3>2 DEF Loadable
  <2> QED BY <2>1, <2>2
<1>8. PICK e \in Data : since' = <<e>> /\ (Strays(disk'.patches) => e = load_data(disk', << >>).data)
                        /\ (~Strays(disk'.patches) => e = since[k + 1])
  BY <1>1, <1>5, <1>7, Zenon
<1>9. since' \in Seq(Data) /\ Len(since') = 1 /\ since'[1] = e
  BY <1>8
<1>10. TypeOK'
  <2>1. left' \in [faults : Nat, crashes : Nat]
    BY <1>1 DEF TypeOK
  <2> QED BY <2>1, <1>1, <1>6, <1>9 DEF TypeOK, tree
<1>11. FileOK'
  <2>1. ~Strays(disk'.patches) => Loads(disk', << >>, since'[1])
    BY <1>7, <1>8, <1>9
  <2>2. since'[1] = load_data(disk', << >>).data
    BY <2>1, <1>8, <1>9 DEF Loads
  <2> QED BY <2>1, <2>2, <1>1, <1>9 DEF FileOK
<1> QED BY <1>1, <1>4, <1>8, <1>9, <1>10, <1>11 DEF IInv

(* There are as many identities as a state of memory needs. *)
LEMMA DataEmbeds ==
    ASSUME NEW d \in Data
    PROVE  \E f \in [DOMAIN d -> Obj] : \A s, t \in DOMAIN f : f[s] = f[t] => s = t
<1>1. PICK g \in [Slot -> Obj] : \A s, t \in Slot : g[s] = g[t] => s = t
  BY ObjAssumption
<1>2. DOMAIN d \subseteq Slot
  BY TableIs DEF Data
<1>3. [s \in DOMAIN d |-> g[s]] \in [DOMAIN d -> Obj]
  BY <1>2
<1> QED BY <1>1, <1>2, <1>3

(* Loading the file at start keeps the inductive invariant. *)
LEMMA StartKeeps ==
    ASSUME IInv, Start
    PROVE  IInv' /\ Memory' = since[1]
<1> DEFINE d == load_data(disk, << >>).data
           At(f, o) == CHOOSE s \in DOMAIN f : f[s] = o
<1>1. /\ ~up /\ TypeOK /\ FileOK /\ Len(since) = 1 /\ since[1] = d /\ d \in Data
  <2>1. ~up /\ TypeOK /\ FileOK
    BY DEF Start, IInv
  <2>2. Len(since) = 1 /\ since[1] = d
    BY <2>1 DEF FileOK
  <2>3. since[1] \in Data
    BY <2>1, <2>2, ElementOfSeq DEF TypeOK
  <2> QED BY <2>1, <2>2, <2>3
<1>3. /\ up' = TRUE
      /\ root' = CHOOSE f \in [DOMAIN d -> Obj] : \A s, t \in DOMAIN f : f[s] = f[t] => s = t
      /\ held' = {root'[s] : s \in DOMAIN root'}
      /\ content' = [o \in Obj |-> IF o \in held' THEN d[At(root', o)] ELSE << >>]
      /\ parent' = [o \in Obj |-> IF o \in held' THEN At(root', o) ELSE Pruned]
      /\ replaced' = {} /\ pending' = << >> /\ modified' = FALSE
      /\ disk' = Dump(d) /\ pos' = disk'
      /\ UNCHANGED <<since, left>>
  BY DEF Start
<1> HIDE DEF d
<1>4. root' \in [DOMAIN d -> Obj] /\ \A s, t \in DOMAIN root' : root'[s] = root'[t] => s = t
  <2>1. d \in Data
    BY <1>1
  <2>2. \E f \in [DOMAIN d -> Obj] : \A s, t \in DOMAIN f : f[s] = f[t] => s = t
    BY <2>1, DataEmbeds
  <2>3. root' = CHOOSE f \in [DOMAIN d -> Obj] : \A s, t \in DOMAIN f : f[s] = f[t] => s = t
    BY <1>3
  <2> QED BY <2>2, <2>3
<1>5. d = [s \in DOMAIN d |-> d[s]] /\ DOMAIN d \subseteq Slot /\ \A s \in DOMAIN d : d[s] \in Dict
  BY <1>1, TableIs DEF Data
<1>6. DOMAIN root' = DOMAIN d /\ \A s \in DOMAIN d : root'[s] \in Obj /\ root'[s] \in held'
  <2>1. DOMAIN root' = DOMAIN d /\ \A s \in DOMAIN d : root'[s] \in Obj
    BY <1>4
  <2>2. held' = {root'[s] : s \in DOMAIN root'}
    BY <1>3
  <2>3. \A s \in DOMAIN root' : root'[s] \in {root'[t] : t \in DOMAIN root'}
    OBVIOUS
  <2> QED BY <2>1, <2>2, <2>3
<1>7. \A s \in DOMAIN d : At(root', root'[s]) = s
  BY <1>4, <1>6
<1>8. \A o \in held' : At(root', o) \in DOMAIN d /\ root'[At(root', o)] = o
  BY <1>3, <1>6
<1> HIDE DEF At
<1>9. root' \in Table(Slot, Obj)
  <2>1. root' = [s \in DOMAIN root' |-> root'[s]]
    BY <1>4
  <2> QED BY <2>1, <1>5, <1>6, TableIs
<1>10. << >> \in Dict
  BY EmptyTable DEF Dict
<1>11. /\ content' \in [Obj -> Dict] /\ parent' \in [Obj -> Slot \cup {Pruned}] /\ held' \in SUBSET Obj
       /\ replaced' \in SUBSET Obj
  BY <1>3, <1>5, <1>6, <1>8, <1>10
<1>12. TreeOK'
  <2>1. ASSUME NEW s \in DOMAIN root' PROVE root'[s] \in held' \ replaced' /\ parent'[root'[s]] = s
    <3>1. root'[s] \in held' /\ root'[s] \in Obj /\ replaced' = {} /\ At(root', root'[s]) = s
      BY <1>3, <1>6, <1>7
    <3>2. parent'[root'[s]] = At(root', root'[s])
      BY <3>1, <1>3
    <3> QED BY <3>1, <3>2
  <2>2. ASSUME NEW o \in Obj, parent'[o] # Pruned PROVE parent'[o] \in DOMAIN root' /\ root'[parent'[o]] = o
    BY <2>2, <1>3, <1>6, <1>8
  <2>3. replaced' \subseteq held'
    BY <1>3
  <2> QED BY <2>1, <2>2, <2>3 DEF TreeOK
<1>13. Memory' = d
  <2>1. Memory' = [s \in DOMAIN root' |-> content'[root'[s]]]
    BY DEF Memory
  <2>2. \A s \in DOMAIN root' : content'[root'[s]] = d[s]
    BY <1>3, <1>6, <1>7
  <2> QED BY <2>1, <2>2, <1>5, <1>6
<1>14. disk' \in File /\ Whole(disk'.patches) /\ Loads(disk', << >>, d)
  BY <1>1, <1>3, DumpLoads
<1>15. TypeOK'
  <2>1. << >> \in Seq(Patch)
    BY EmptySeq
  <2> QED BY <2>1, <1>1, <1>3, <1>9, <1>11, <1>14 DEF TypeOK
<1>16. since' = since /\ Len(since) = 1 /\ since[1] = d /\ Len(pending') = 0 /\ SubSeq(pending', 1, 0) = << >>
  BY <1>1, <1>3, SubSeqEmpty
<1>17. InStep'
  <2>1. Len(since') = Len(pending') + 1
    BY <1>16
  <2>2. ASSUME NEW k \in 0 .. Len(pending') PROVE Loads(disk', SubSeq(pending', 1, k), since'[k + 1])
    <3>1. k = 0 /\ k + 1 = 1
      BY <1>16
    <3>2. SubSeq(pending', 1, k) = << >> /\ since'[k + 1] = d
      BY <3>1, <1>16
    <3> QED BY <3>2, <1>14
  <2> QED BY <2>1, <2>2, <1>14 DEF InStep
<1>18. FileOK'
  <2>1. Whole(pending')
    BY <1>16 DEF Whole
  <2>2. Len(since') \in Nat \ {0} 
    BY <1>1, <1>16 DEF FileOK
  <2>3. since'[Len(since')] = Memory'
    BY <1>13, <1>16
  <2> QED BY <2>1, <2>2, <2>3, <1>3, <1>17 DEF FileOK
<1> QED BY <1>3, <1>12, <1>13, <1>15, <1>16, <1>18 DEF IInv

-----------------------------------------------------------------------------
(* The invariant *)

(* The inductive invariant holds initially. *)
LEMMA InitIsOK == Init => IInv
<1> SUFFICES ASSUME Init PROVE IInv
  OBVIOUS
<1>1. /\ up = TRUE /\ root = << >> /\ content = [o \in Obj |-> << >>]
      /\ parent = [o \in Obj |-> Pruned] /\ held = {} /\ replaced = {} /\ pending = << >> /\ modified = FALSE
      /\ pos = Dump(Memory) /\ disk = Dump(Memory) /\ since = <<Memory>>
      /\ left = [faults |-> MaxFaults, crashes |-> MaxCrashes]
  BY DEF Init
<1>2. root \in Table(Slot, Obj) /\ content \in [Obj -> Dict] /\ DOMAIN root = {}
  <2>1. << >> \in Dict
    BY EmptyTable DEF Dict
  <2> QED BY <2>1, <1>1, EmptyTable
<1>3. Memory \in Data
  BY <1>2, MemoryIs, MemoryType
<1>4. disk \in File /\ pos \in File /\ Whole(disk.patches) /\ Loads(disk, << >>, Memory)
  BY <1>1, <1>3, DumpLoads
<1>5. since \in Seq(Data) /\ Len(since) = 1 /\ since[1] = Memory
  BY <1>1, <1>3
<1>6. TypeOK
  <2>1. << >> \in Seq(Patch)
    BY EmptySeq
  <2>2. MaxFaults \in Nat /\ MaxCrashes \in Nat
    BY BoundsAssumption
  <2> QED BY <2>1, <2>2, <1>1, <1>2, <1>4, <1>5 DEF TypeOK
<1>7. TreeOK
  BY <1>1, <1>2 DEF TreeOK
<1>8. Len(pending) = 0 /\ SubSeq(pending, 1, 0) = << >>
  BY <1>1, SubSeqEmpty
<1>9. InStep
  <2>1. ASSUME NEW k \in 0 .. Len(pending) PROVE Loads(disk, SubSeq(pending, 1, k), since[k + 1])
    <3>1. k = 0 /\ k + 1 = 1
      BY <1>8
    <3>2. SubSeq(pending, 1, k) = << >> /\ since[k + 1] = Memory
      BY <3>1, <1>5, <1>8
    <3> QED BY <3>2, <1>4
  <2>2. Len(since) = Len(pending) + 1
    BY <1>5, <1>8
  <2> QED BY <2>1, <2>2, <1>4 DEF InStep
<1>10. FileOK
  <2>1. Whole(pending)
    BY <1>8 DEF Whole
  <2>2. Len(since) \in Nat \ {0} /\ since[Len(since)] = Memory
    BY <1>3, <1>5
  <2> QED BY <2>1, <2>2, <1>1, <1>9 DEF FileOK
<1> QED BY <1>6, <1>7, <1>10 DEF IInv

\* What a step is
LEMMA StepIs ==
    ASSUME IInv, Next
    PROVE  \/ StepInMemory
           \/ AppendPending \/ Consolidate \/ ReplaceFails \/ Start
           \/ \E k \in 0 .. MaxPending, cut \in BOOLEAN : AppendFails(k, cut) \/ Crash(k, cut)
<1>1. CASE \E o \in Obj, k \in Key : PopValue(o, k) \/ \E v \in Val : SetValue(o, k, v)
  BY <1>1, PopValueStep, SetValueStep
<1>2. CASE \E s \in Slot, d \in {<< >>} \cup [Key -> Val] : SetDict(s, d)
  BY <1>2, SetDictStep
<1>3. CASE \E s \in Slot : PopDict(s)
  BY <1>3, PopDictStep
<1>4. CASE \E o \in Obj : Release(o)
  BY <1>4, ReleaseStep
<1>5. CASE AppendPending \/ Consolidate \/ ReplaceFails
  BY <1>5
<1>6. CASE \E k \in 0 .. MaxPending, cut \in BOOLEAN : AppendFails(k, cut) \/ Crash(k, cut)
  BY <1>6
<1>7. CASE Start
  BY <1>7
<1> QED BY <1>1, <1>2, <1>3, <1>4, <1>5, <1>6, <1>7 DEF Next

(* A stuttering step changes neither the invariant nor the memory. *)
LEMMA StutterKeeps == ASSUME IInv, UNCHANGED vars PROVE IInv' /\ Memory' = Memory
<1>1. Memory' = Memory
  BY DEF vars, Memory
<1>2. FileOK'
  BY <1>1, StaysKeepsFile DEF vars, Stays, IInv
<1> QED BY <1>1, <1>2 DEF IInv, TypeOK, TreeOK, vars

(* Every step keeps the inductive invariant, if fsync does not fail. *)
LEMMA StepKeeps == ASSUME "fsync" \notin Faults, IInv, [Next]_vars PROVE IInv'
<1>1. CASE UNCHANGED vars
  BY <1>1, StutterKeeps
<1>2. CASE Next
  <2>1. CASE StepInMemory
    BY <2>1, StepInMemoryKeeps
  <2>2. CASE AppendPending \/ Consolidate \/ ReplaceFails \/ Start
    BY <2>2, AppendPendingKeeps, ConsolidateKeeps, ReplaceFailsKeeps, StartKeeps
  <2>3. CASE \E k \in 0 .. MaxPending, cut \in BOOLEAN : AppendFails(k, cut) \/ Crash(k, cut)
    BY <2>3, AppendFailsKeeps, CrashKeeps
  <2> QED BY <1>2, <2>1, <2>2, <2>3, StepIs
<1> QED BY <1>1, <1>2

(* The inductive invariant holds in every reachable state. *)
LEMMA IInvAlways == ASSUME "fsync" \notin Faults PROVE Spec => []IInv
<1>1. Init => IInv
  BY InitIsOK
<1>2. IInv /\ [Next]_vars => IInv'
  BY StepKeeps
<1> QED BY <1>1, <1>2, PTL DEF Spec

\* Whenever the program stops, wherever an append or a crash interrupted it, the file can be
\* loaded and gives a state that memory was in, the last one if all is written - unless it has
\* a patch of a dict that had been replaced, or a failing fsync leaves patches to be appended
\* twice.
THEOREM FileAlwaysLoads == ASSUME "fsync" \notin Faults PROVE Spec => []FileLoads
<1>1. IInv => FileLoads
  <2> SUFFICES ASSUME IInv PROVE FileLoads
    OBVIOUS
  <2>1. TypeOK /\ FileOK
    BY DEF IInv
  <2>2. Head(since) = since[1] /\ Last(since) = since[Len(since)]
    BY <2>1 DEF FileOK, TypeOK, Last
  <2>3. ~Strays(disk.patches) => load_data(disk, << >>) = [ok |-> TRUE, data |-> since[1]]
    BY <2>1, FirstIsLoaded DEF Loads
  <2>4. up /\ pending = << >> => Len(since) = 1
    <3> SUFFICES ASSUME up, pending = << >> PROVE Len(since) = 1
      OBVIOUS
    <3>1. InStep
      BY <2>1 DEF FileOK, Overrun
    <3>2. Len(pending) = 0
      OBVIOUS
    <3> QED BY <3>1, <3>2 DEF InStep
  <2>5. up => Last(since) = Memory
    BY <2>1, <2>2 DEF FileOK
  <2> QED BY <2>2, <2>3, <2>4, <2>5 DEF FileLoads
<1> QED BY <1>1, IInvAlways, PTL

-----------------------------------------------------------------------------
(* The wallet file is a SavedStates *)

\* What the program has, or would have if it were started
Mem == IF up THEN Memory ELSE load_data(disk, << >>).data

(* What the abstract memory is, while the wallet runs and while it is down. *)
LEMMA MemIs == ASSUME IInv PROVE (up => Mem = Memory) /\ (~up => Mem = since[1] /\ Len(since) = 1)
<1>1. ASSUME ~up PROVE Mem = since[1] /\ Len(since) = 1
  <2>1. Len(since) = 1 /\ since[1] = load_data(disk, << >>).data
    BY <1>1 DEF IInv, FileOK
  <2> QED BY <1>1, <2>1 DEF Mem
<1> QED BY <1>1 DEF Mem

\* A write that goes on to a later state is one of SavedStates, and any other changes nothing.
LEMMA OnwardWrites ==
    ASSUME IInv, NEW k \in 1 .. Len(since), since' = Onward(k), Mem' = Mem
    PROVE  Saved!Write \/ UNCHANGED Saved!vars
<1>1. TypeOK /\ FileOK
  BY DEF IInv
<1>2. since' = SubSeq(since, k, Len(since))
  BY <1>1, OnwardIs
<1>3. CASE k = 1
  BY <1>1, <1>2, <1>3, SubSeqFull DEF TypeOK, Saved!vars, Mem
<1>4. CASE k \in 2 .. Len(since)
  BY <1>2, <1>4 DEF Saved!Write, Mem
<1>5. Len(since) \in Nat
  BY <1>1 DEF FileOK
<1> QED BY <1>3, <1>4, <1>5

(* Every step of the file is a step of SavedStates or a stutter, but for a crash that *)
(* leaves a stray patch in the file.                                                  *)
LEMMA StepRefines ==
    ASSUME "fsync" \notin Faults, IInv, [Next]_vars
    PROVE  [Saved!Next \/ (Saved!Elsewhere /\ ~up' /\ Strays(disk'.patches))]_(Saved!vars)
<1>0. IInv' /\ TypeOK /\ FileOK
  BY StepKeeps DEF IInv
<1>1. /\ (up => Mem = Memory) /\ (~up => Mem = since[1] /\ Len(since) = 1)
      /\ (up' => Mem' = Memory') /\ (~up' => Mem' = since'[1] /\ Len(since') = 1)
  <2>1. (IInv => (up => Mem = Memory) /\ (~up => Mem = since[1] /\ Len(since) = 1))'
    BY MemIs, PTL
  <2> QED BY <1>0, <2>1, MemIs
<1>2. CASE UNCHANGED vars
  <2>1. Memory' = Memory /\ since' = since /\ up' = up
    BY <1>2, StutterKeeps DEF vars
  <2>2. Mem' = Mem
    BY <1>1, <2>1, <1>0 DEF TypeOK, IInv
  <2> QED BY <2>1, <2>2 DEF Saved!vars, Mem
<1>3. CASE StepInMemory
  <2>1. Mem = Memory /\ Mem' = Memory'
    BY <1>1, <1>3 DEF StepInMemory
  <2>2. CASE Stays
    BY <2>1, <2>2 DEF Stays, Saved!vars, Mem
  <2>3. CASE \E p : Grows(p)
    <3>1. since' = Append(since, Mem')
      BY <2>1, <2>3 DEF Grows
    <3> QED BY <3>1 DEF Saved!Next, Saved!Change, Mem
  <2> QED BY <1>3, <2>2, <2>3 DEF StepInMemory
<1>4. CASE AppendPending \/ Consolidate
  <2>1. up /\ up' /\ UNCHANGED tree /\ since' = Onward(Len(since))
    <3>1. CASE AppendPending
      BY <3>1 DEF AppendPending
    <3>2. CASE Consolidate
      BY <3>2 DEF Consolidate
    <3> QED BY <1>4, <3>1, <3>2
  <2>2. Memory' = Memory
    BY <2>1 DEF Memory, tree
  <2>3. Mem' = Mem
    BY <1>1, <2>1, <2>2
  <2>4. Len(since) \in 1 .. Len(since)
    BY <1>0 DEF FileOK
  <2> QED BY <2>1, <2>3, <2>4, OnwardWrites DEF Saved!Next
<1>5. CASE ReplaceFails
  <2>1. up /\ up' /\ UNCHANGED tree /\ since' = since
    BY <1>5 DEF ReplaceFails, Fault
  <2>2. Memory' = Memory
    BY <2>1 DEF Memory, tree
  <2> QED BY <1>1, <2>1, <2>2 DEF Saved!vars, Mem
<1>6. ASSUME NEW k \in 0 .. MaxPending, NEW cut \in BOOLEAN, AppendFails(k, cut)
      PROVE  Saved!Next \/ UNCHANGED Saved!vars
  <2>1. /\ up /\ up' /\ UNCHANGED tree /\ since' = Onward(k + 1) /\ disk = pos /\ pending # << >>
        /\ k <= Len(pending)
    BY <1>6 DEF AppendFails, Fault, can_append
  <2>2. k + 1 \in 1 .. Len(since)
    <3>1. InStep
      BY <1>0, <2>1 DEF FileOK, Overrun
    <3>2. k \in Nat /\ Len(pending) \in Nat
      BY <1>0, BoundsAssumption, LenProperties DEF TypeOK
    <3> QED BY <3>1, <3>2, <2>1 DEF InStep
  <2>3. Memory' = Memory
    BY <2>1 DEF Memory, tree
  <2>4. Mem' = Mem
    BY <1>1, <2>1, <2>3
  <2> QED BY <2>1, <2>2, <2>4, OnwardWrites DEF Saved!Next
<1>7. ASSUME NEW k \in 0 .. MaxPending, NEW cut \in BOOLEAN, Crash(k, cut)
      PROVE  Saved!Next \/ (Saved!Elsewhere /\ ~up' /\ Strays(disk'.patches))
  <2>1. /\ ~up' /\ k + 1 \in 1 .. Len(since) /\ since' = <<since'[1]>>
        /\ ~Strays(disk'.patches) => since'[1] = since[k + 1]
    BY <1>7, CrashKeeps
  <2>2. since' = <<Mem'>> /\ Mem' = since'[1]
    BY <1>1, <2>1
  <2>3. k + 1 \in DOMAIN since
    BY <1>0, <2>1, LenProperties DEF TypeOK
  <2>4. CASE Strays(disk'.patches)
    BY <2>1, <2>2, <2>4 DEF Saved!Elsewhere, Mem
  <2>5. CASE ~Strays(disk'.patches)
    <3>1. Mem' = since[k + 1]
      BY <2>1, <2>2, <2>5
    <3> QED BY <2>2, <2>3, <3>1 DEF Saved!Next, Saved!Crash, Mem
  <2> QED BY <2>4, <2>5
<1>8. CASE Start
  <2>1. ~up /\ up' /\ since' = since /\ Memory' = since[1]
    BY <1>8, StartKeeps DEF Start
  <2> QED BY <1>1, <2>1 DEF Saved!vars, Mem
<1> QED BY <1>2, <1>3, <1>4, <1>5, <1>6, <1>7, <1>8, StepIs

\* The wallet file implements SavedStates: a write moves what would be loaded forward to some
\* state memory has been in since, a crash goes back to that, and nothing else changes it -
\* but for a crash with a patch in the file of a dict that had been replaced.
THEOREM WalletFileRefines == ASSUME "fsync" \notin Faults PROVE Spec => SavedStatesSpec
<1>1. Init => Saved!Init
  BY DEF Init, Saved!Init
<1>2. IInv /\ [Next]_vars => [Saved!Next \/ (Saved!Elsewhere /\ ~up' /\ Strays(disk'.patches))]_(Saved!vars)
  BY StepRefines
<1> QED BY <1>1, <1>2, IInvAlways, PTL DEF Spec, SavedStatesSpec
=============================================================================
