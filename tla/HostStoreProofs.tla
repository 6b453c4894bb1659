----------------------------- MODULE HostStoreProofs -----------------------------
(***************************************************************************)
(* Proofs about the host store, for any number of hosts, texts and         *)
(* passwords, any search and any files.                                    *)
(***************************************************************************)
EXTENDS HostStore, TLAPS, WellFoundedInduction

-------------------------------------------------------------------------------
(* Recursion over a list.                                                  *)

(* Induction on an interval.                                               *)
LEMMA IntervalInduction ==
    ASSUME NEW n \in Nat, NEW T, 0 \in T,
           \A k \in 1 .. n : k - 1 \in T => k \in T
    PROVE  0 .. n \subseteq T
  <1> DEFINE U == 0 .. n \ T
  <1>1. SUFFICES ASSUME U # {}
                 PROVE  FALSE
    OBVIOUS
  <1>2. PICK m \in U : \A l \in U : ~(<<l, m>> \in OpToRel(<, Nat))
    <2>1. U \subseteq Nat
      OBVIOUS
    <2> HIDE DEF U
    <2> QED
      BY <1>1, <2>1, NatLessThanWellFounded, WFMin
  <1>3. \A l \in U : ~(l < m)
    <2>1. U \subseteq Nat
      OBVIOUS
    <2> HIDE DEF U
    <2> QED
      BY <1>2, <2>1 DEF OpToRel
  <1>4. m \in 1 .. n /\ m - 1 \notin U
    BY <1>3
  <1> QED
    BY <1>4

\* Starting in x, each step k leads from the set X[k - 1] to the set X[k].
StepsStay(n, X, x, step) ==
    /\ x \in X[0]
    /\ \A k \in 1 .. n : \A y \in X[k - 1] : step[k][y] \in X[k]

\* f is where each step leads, and stays in these sets.
Follows(f, n, X, x, step) ==
    /\ f = [k \in 0 .. n |-> f[k]]
    /\ f[0] = x
    /\ \A k \in 1 .. n : f[k] = step[k][f[k - 1]]
    /\ \A k \in 0 .. n : f[k] \in X[k]

(* A recursion over the places of a list has a solution, if each of its    *)
(* steps stays in the set for its place.                                   *)
LEMMA Recursion ==
    ASSUME NEW n \in Nat, NEW X, NEW x, NEW step, StepsStay(n, X, x, step)
    PROVE  \E f : Follows(f, n, X, x, step)
  <1> DEFINE T == {m \in 0 .. n : \E f : Follows(f, m, X, x, step)}
  <1>1. 0 \in T
    <2> DEFINE f == [k \in 0 .. 0 |-> x]
    <2>1. Follows(f, 0, X, x, step)
      BY DEF Follows, StepsStay
    <2> QED
      BY <2>1
  <1>2. ASSUME NEW m \in 1 .. n, m - 1 \in T
        PROVE  m \in T
    <2>1. PICK g : Follows(g, m - 1, X, x, step)
      BY <1>2
    <2> DEFINE f == [k \in 0 .. m |-> IF k = m THEN step[m][g[m - 1]] ELSE g[k]]
    <2>2. /\ g[0] = x
          /\ \A k \in 1 .. m - 1 : g[k] = step[k][g[k - 1]]
          /\ \A k \in 0 .. m - 1 : g[k] \in X[k]
      BY <2>1 DEF Follows
    <2>3. \A k \in 0 .. m - 1 : f[k] = g[k]
      OBVIOUS
    <2>4. f[m] = step[m][g[m - 1]] /\ f[m - 1] = g[m - 1] /\ f[0] = x
      BY <2>2, <2>3
    <2>5. f = [k \in 0 .. m |-> f[k]]
      OBVIOUS
    <2> HIDE DEF f
    <2>6. step[m][g[m - 1]] \in X[m]
      BY <2>2 DEF StepsStay
    <2>7. \A k \in 1 .. m : f[k] = step[k][f[k - 1]]
      BY <2>2, <2>3, <2>4
    <2>8. \A k \in 0 .. m : f[k] \in X[k]
      BY <2>2, <2>3, <2>4, <2>6
    <2>9. Follows(f, m, X, x, step)
      BY <2>4, <2>5, <2>7, <2>8 DEF Follows
    <2> QED
      BY <2>9
  <1>3. n \in T
    <2> HIDE DEF T
    <2>1. 0 .. n \subseteq T
      BY <1>1, <1>2, IntervalInduction
    <2> QED
      BY <2>1
  <1> QED
    BY <1>3

(* What Kept keeps of a list is a list of some of its members, no longer   *)
(* than it.                                                                *)
LEMMA KeptIsKept ==
    ASSUME NEW A, NEW s \in Seq(A), NEW S
    PROVE  /\ Kept(s, S) \in Seq(A)
           /\ Len(Kept(s, S)) <= Len(s)
           /\ \A i \in DOMAIN Kept(s, S) : \E j \in DOMAIN s : s[j] = Kept(s, S)[i]
  <1> DEFINE n == Len(s)
             B == {s[j] : j \in DOMAIN s}
             Lists(k) == {t \in Seq(B) : Len(t) <= k}
             Next1(i, t) == IF s[i] \in S THEN Append(t, s[i]) ELSE t
             IsKept(f) == f = [i \in 0 .. n |->
                                 IF i = 0 THEN <<>>
                                 ELSE IF s[i] \in S THEN Append(f[i - 1], s[i])
                                 ELSE f[i - 1]]
  <1>n. n \in Nat /\ DOMAIN s = 1 .. n
    OBVIOUS
  <1>1. \A k \in 1 .. n : \A t \in Lists(k - 1) : Next1(k, t) \in Lists(k)
    <2> SUFFICES ASSUME NEW k \in 1 .. n, NEW t \in Lists(k - 1)
                 PROVE  Next1(k, t) \in Lists(k)
      OBVIOUS
    <2>1. s[k] \in B
      BY <1>n
    <2> QED
      BY <1>n, <2>1
  <1>2. <<>> \in Lists(0)
    OBVIOUS
  <1>3. \E f : IsKept(f)
    <2> DEFINE X == [k \in 0 .. n |-> Lists(k)]
               step == [k \in 1 .. n |-> [t \in X[k - 1] |-> Next1(k, t)]]
    <2>1. /\ \A k \in 0 .. n : X[k] = Lists(k)
          /\ \A k \in 1 .. n : \A t \in X[k - 1] : step[k][t] = Next1(k, t)
      OBVIOUS
    <2>2. \A k \in 1 .. n : \A t \in X[k - 1] : step[k][t] \in X[k]
      <3> SUFFICES ASSUME NEW k \in 1 .. n, NEW t \in X[k - 1]
                   PROVE  step[k][t] \in X[k]
        OBVIOUS
      <3>1. k \in 0 .. n /\ k - 1 \in 0 .. n
        BY <1>n
      <3> HIDE DEF X, step, Lists, Next1
      <3> QED
        BY <1>1, <2>1, <3>1
    <2>3. <<>> \in X[0]
      BY <1>2, <1>n
    <2> HIDE DEF n, X, step, Lists, Next1
    <2>4. PICK f : Follows(f, n, X, <<>>, step)
      BY <1>n, <2>2, <2>3, Recursion DEF StepsStay
    <2>5. ASSUME NEW k \in 0 .. n
          PROVE  f[k] = IF k = 0 THEN <<>>
                        ELSE IF s[k] \in S THEN Append(f[k - 1], s[k]) ELSE f[k - 1]
      <3>1. k # 0 => k \in 1 .. n /\ k - 1 \in 0 .. n
        BY <1>n
      <3>2. k # 0 => f[k] = Next1(k, f[k - 1])
        BY <2>1, <2>4, <3>1 DEF Follows
      <3> QED
        BY <2>4, <3>2 DEF Next1, Follows
    <2>6. IsKept(f)
      BY <2>4, <2>5 DEF Follows
    <2> QED
      BY <2>6
  <1> DEFINE kept == CHOOSE f : IsKept(f)
  <1>4. IsKept(kept)
    BY <1>3
  <1>5. Kept(s, S) = kept[n]
    BY DEF Kept
  <1> HIDE DEF kept
  <1>6. kept[n] \in Lists(n)
    <2> DEFINE T == {k \in 0 .. n : kept[k] \in Lists(k)}
    <2>1. 0 \in T
      BY <1>2, <1>4, <1>n
    <2>2. ASSUME NEW k \in 1 .. n, k - 1 \in T
          PROVE  k \in T
      <3>0. k \in 0 .. n /\ k # 0
        BY <1>n
      <3>1. kept[k] = Next1(k, kept[k - 1])
        BY <1>4, <3>0
      <3>2. kept[k - 1] \in Lists(k - 1)
        BY <2>2
      <3> HIDE DEF Lists, Next1
      <3> QED
        BY <1>1, <1>n, <3>1, <3>2
    <2>3. 0 .. n \subseteq T
      <3> HIDE DEF T
      <3> QED
        BY <1>n, <2>1, <2>2, IntervalInduction
    <2> QED
      BY <1>n, <2>3
  <1>7. B \subseteq A
    OBVIOUS
  <1>8. /\ kept[n] \in Seq(B) /\ Len(kept[n]) <= n
        /\ kept[n] \in Seq(A)
    BY <1>6, <1>7
  <1>9. ASSUME NEW i \in DOMAIN kept[n]
        PROVE  \E j \in DOMAIN s : s[j] = kept[n][i]
    <2>1. kept[n][i] \in B
      BY <1>8, <1>9
    <2> QED
      BY <2>1
  <1> QED
    BY <1>5, <1>8, <1>9
-------------------------------------------------------------------------------
(* The inductive invariant.                                                *)

\* m has the keys, or lies under the error that has them.
In(m) == mode = m \/ (mode = "error" /\ under = m)

\* What is where nothing has happened yet, and what the lists may hold.
ObjectsInv ==
    /\ mode = "down" => heap = <<>> /\ hosts = <<>> /\ target = 0 /\ unlocks = {}
    /\ Len(hosts) <= Len(heap)
    /\ IsStore(disk) => Len(disk) <= MaxObjects

\* What a prompt and a question are about.
TargetInv ==
    /\ In("unlock") => target # 0 /\ heap[target].pwd \in Master
    /\ mode = "confirm" => target # 0

\* The tree follows the store wherever the list comes back without being made
\* anew: everywhere but over the form, which leaves by making it anew.
TreeInv ==
    "import" \notin faults =>
        /\ mode # "down" /\ ~In("form") => rows = Shown(heap, hosts, filter)
        /\ In("form") /\ target # 0 => \E i \in DOMAIN hosts : hosts[i] = target

\* Without an encrypted password nothing asks for a master password.
BroughtInv ==
    ~brought =>
        /\ unlocks = {} /\ ~In("unlock") /\ masterPwd = NoMaster
        /\ ~Encrypted(heap)
        /\ IsStore(disk) /\ mode # "down" => ~Encrypted(disk)
-------------------------------------------------------------------------------
(* The lists the actions make.                                             *)

(* What a list of objects says is a list of hosts, and has a password by a *)
(* master password only if an object has.                                  *)
LEMMA ValuesAreHosts ==
    ASSUME NEW h \in Seq(Host), NEW s \in Seq(DOMAIN h)
    PROVE  /\ Values(h, s) \in Seq(Host)
           /\ Len(Values(h, s)) = Len(s)
           /\ ~Encrypted(h) => ~Encrypted(Values(h, s))
  <1>1. /\ DOMAIN s = 1 .. Len(s) /\ Len(s) \in Nat
        /\ \A i \in DOMAIN s : s[i] \in DOMAIN h /\ h[s[i]] \in Host
    OBVIOUS
  <1>2. Values(h, s) \in Seq(Host) /\ Len(Values(h, s)) = Len(s)
    BY <1>1 DEF Values
  <1>3. ~Encrypted(h) => ~Encrypted(Values(h, s))
    BY <1>1 DEF Encrypted, Values
  <1> QED
    BY <1>2, <1>3

\* What the file may be: nothing, no store, or a store of a size it can have.
DiskOK(d) == d \in {Absent, Torn} \/ (d \in Seq(Host) /\ Len(d) <= MaxObjects)

(* What is left of a list whose writing was cut short is no store, or no   *)
(* longer and no more encrypted than the list.                             *)
LEMMA CutShortIsShort ==
    ASSUME NEW s \in Seq(Host), NEW d \in CutShort(s), Len(s) <= MaxObjects
    PROVE  DiskOK(d) /\ (~Encrypted(s) /\ IsStore(d) => ~Encrypted(d))
  <1>1. CASE d = Torn
    BY <1>1 DEF DiskOK, IsStore
  <1>2. ASSUME NEW k \in 0 .. Len(s), d = SubSeq(s, 1, k)
        PROVE  DiskOK(d) /\ (~Encrypted(s) => ~Encrypted(d))
    <2>1. d \in Seq(Host) /\ Len(d) = k /\ \A i \in 1 .. k : d[i] = s[i]
      BY <1>2
    <2> QED
      BY <2>1, StoreAssumption DEF DiskOK, Encrypted, StoreAssumption
  <1>3. ASSUME NEW k \in 1 .. Len(s), d = [SubSeq(s, 1, k) EXCEPT ![k].pwd = None]
        PROVE  DiskOK(d) /\ (~Encrypted(s) => ~Encrypted(d))
    <2> DEFINE e == SubSeq(s, 1, k)
               last == [e[k] EXCEPT !.pwd = None]
    <2>1. e \in Seq(Host) /\ Len(e) = k /\ \A i \in 1 .. k : e[i] = s[i]
      OBVIOUS
    <2>2. d = [e EXCEPT ![k] = last]
      BY <1>3
    <2>3. last \in Host /\ last.pwd = None
      <3>1. e[k] \in Host
        BY <2>1
      <3> HIDE DEF e
      <3> QED
        BY <3>1 DEF Host, Password
    <2> HIDE DEF e, last
    <2>4. /\ d \in Seq(Host) /\ Len(d) = k
          /\ \A i \in 1 .. k : d[i] = IF i = k THEN last ELSE s[i]
      BY <2>1, <2>2, <2>3
    <2>5. None \notin Master
      BY StoreAssumption DEF StoreAssumption
    <2> QED
      BY <2>3, <2>4, <2>5, StoreAssumption DEF DiskOK, Encrypted, StoreAssumption
  <1> QED
    BY <1>1, <1>2, <1>3 DEF CutShort

(* The form's host takes its place among the objects, or is added; every   *)
(* host keeps its place in the list.                                       *)
LEMMA FilledIsTyped ==
    ASSUME TypeOK, ObjectsInv, HasRoom, NEW text \in Text, NEW pwd \in Password
    PROVE  /\ Filled(text, pwd) \in Seq(Host)
           /\ Len(heap) <= Len(Filled(text, pwd)) /\ Len(Filled(text, pwd)) <= MaxObjects
           /\ Entered \in Seq(DOMAIN Filled(text, pwd))
           /\ Len(Entered) <= Len(Filled(text, pwd))
           /\ \A i \in DOMAIN hosts : i \in DOMAIN Entered /\ Entered[i] = hosts[i]
           /\ ~Encrypted(heap) /\ pwd \notin Master => ~Encrypted(Filled(text, pwd))
  <1>1. /\ heap \in Seq(Host) /\ Len(heap) \in Nat /\ DOMAIN heap = 1 .. Len(heap)
        /\ hosts \in Seq(DOMAIN heap) /\ DOMAIN hosts = 1 .. Len(hosts)
        /\ Len(heap) <= MaxObjects /\ MaxObjects \in Nat
        /\ Len(hosts) \in Nat /\ Len(hosts) <= Len(heap)
        /\ target \in {0} \cup DOMAIN heap
    BY StoreAssumption DEF TypeOK, ObjectsInv, StoreAssumption
  <1>2. CASE target = 0
    <2> DEFINE new == [id |-> NewID, text |-> text, pwd |-> pwd]
    <2>1. NewID \in Id
      BY <1>2 DEF HasRoom, NewID
    <2>2. new \in Host /\ new.pwd = pwd
      BY <2>1 DEF Host
    <2>3. Filled(text, pwd) = Append(heap, new) /\ Entered = Append(hosts, Len(heap) + 1)
      BY <1>2 DEF Filled, Entered
    <2>4. Len(heap) < MaxObjects
      BY <1>2 DEF HasRoom
    <2> HIDE DEF new
    <2>5. /\ Append(heap, new) \in Seq(Host) /\ Len(Append(heap, new)) = Len(heap) + 1
          /\ DOMAIN Append(heap, new) = 1 .. Len(heap) + 1
          /\ \A i \in 1 .. Len(heap) : Append(heap, new)[i] = heap[i]
          /\ Append(heap, new)[Len(heap) + 1] = new
      BY <1>1, <2>2
    <2>6. hosts \in Seq(1 .. Len(heap) + 1)
      BY <1>1
    <2>7. /\ Append(hosts, Len(heap) + 1) \in Seq(1 .. Len(heap) + 1)
          /\ Len(Append(hosts, Len(heap) + 1)) = Len(hosts) + 1
          /\ \A i \in DOMAIN hosts : /\ i \in DOMAIN Append(hosts, Len(heap) + 1)
                                    /\ Append(hosts, Len(heap) + 1)[i] = hosts[i]
      BY <1>1, <2>6
    <2>8. ~Encrypted(heap) /\ pwd \notin Master => ~Encrypted(Append(heap, new))
      BY <1>1, <2>2, <2>5 DEF Encrypted
    <2> QED
      BY <1>1, <2>3, <2>4, <2>5, <2>7, <2>8
  <1>3. CASE target # 0
    <2> DEFINE new == [id |-> heap[target].id, text |-> text, pwd |-> pwd]
    <2>1. target \in DOMAIN heap /\ heap[target] \in Host
      BY <1>1, <1>3
    <2>2. new \in Host /\ new.pwd = pwd
      BY <2>1 DEF Host
    <2>3. Entered = hosts
      BY <1>3 DEF Entered
    <2>4. Filled(text, pwd) = [heap EXCEPT ![target] = new]
      BY <1>3, <2>1 DEF Filled
    <2> HIDE DEF new
    <2>5. /\ Filled(text, pwd) \in Seq(Host) /\ Len(Filled(text, pwd)) = Len(heap)
          /\ DOMAIN Filled(text, pwd) = DOMAIN heap
          /\ \A i \in DOMAIN heap : Filled(text, pwd)[i] = IF i = target THEN new ELSE heap[i]
      BY <1>1, <2>1, <2>2, <2>4
    <2>6. ~Encrypted(heap) /\ pwd \notin Master => ~Encrypted(Filled(text, pwd))
      BY <1>1, <2>2, <2>5 DEF Encrypted
    <2> QED
      BY <1>1, <2>3, <2>5, <2>6
  <1> QED
    BY <1>2, <1>3

(* What Merged makes of the list holds objects of the list and new ones.   *)
LEMMA MergedIsTyped ==
    ASSUME NEW A, hosts \in Seq(A), NEW h, NEW new \in Seq(A)
    PROVE  /\ Merged(h, new) \in Seq(A)
           /\ Len(Merged(h, new)) <= Len(hosts) + Len(new)
  <1> DEFINE n == Len(new)
             Lists(k) == {t \in Seq(A) : Len(t) <= Len(hosts) + k}
             Places(r) == {i \in DOMAIN hosts : h[hosts[i]].id = h[r].id}
             Merge(s, r) == IF Places(r) = {} THEN Append(s, r)
                            ELSE [s EXCEPT ![Max(Places(r))] = r]
             IsMerged(f) == f = [k \in 0 .. n |->
                                   IF k = 0 THEN hosts ELSE Merge(f[k - 1], new[k])]
  <1>n. n \in Nat /\ DOMAIN new = 1 .. n /\ Len(hosts) \in Nat
    OBVIOUS
  <1>1. \A k \in 1 .. n : \A t \in Lists(k - 1) : Merge(t, new[k]) \in Lists(k)
    <2> SUFFICES ASSUME NEW k \in 1 .. n, NEW t \in Lists(k - 1)
                 PROVE  Merge(t, new[k]) \in Lists(k)
      OBVIOUS
    <2>1. new[k] \in A
      BY <1>n
    <2> DEFINE r == new[k]
               p == Max(Places(r))
    <2> HIDE DEF r, p
    <2>2. Append(t, r) \in Lists(k)
      BY <1>n, <2>1 DEF r
    <2>3. [t EXCEPT ![p] = r] \in Lists(k)
      <3>1. t \in Seq(A) /\ Len(t) <= Len(hosts) + k - 1 /\ r \in A
        BY <2>1 DEF r
      <3>2. /\ [t EXCEPT ![p] = r] \in Seq(A)
            /\ Len([t EXCEPT ![p] = r]) = Len(t)
        <4>1. t \in [1 .. Len(t) -> A] /\ Len(t) \in Nat
          BY <3>1
        <4>2. [t EXCEPT ![p] = r] \in [1 .. Len(t) -> A]
          BY <3>1, <4>1
        <4> QED
          BY <4>1, <4>2
      <3> QED
        BY <1>n, <3>1, <3>2
    <2> HIDE DEF Lists, Places
    <2> QED
      BY <2>2, <2>3 DEF p, r
  <1>2. hosts \in Lists(0)
    BY <1>n
  <1>3. \E f : IsMerged(f)
    <2> DEFINE X == [k \in 0 .. n |-> Lists(k)]
               step == [k \in 1 .. n |-> [t \in X[k - 1] |-> Merge(t, new[k])]]
    <2>1. /\ \A k \in 0 .. n : X[k] = Lists(k)
          /\ \A k \in 1 .. n : \A t \in X[k - 1] : step[k][t] = Merge(t, new[k])
      <3> HIDE DEF Merge, Lists
      <3> QED
        OBVIOUS
    <2> HIDE DEF n, X, step, Lists, Merge
    <2>2. \A k \in 1 .. n : \A t \in X[k - 1] : step[k][t] \in X[k]
      <3> SUFFICES ASSUME NEW k \in 1 .. n, NEW t \in X[k - 1]
                   PROVE  step[k][t] \in X[k]
        OBVIOUS
      <3>1. k \in 0 .. n /\ k - 1 \in 0 .. n
        BY <1>n
      <3> QED
        BY <1>1, <2>1, <3>1
    <2>3. hosts \in X[0]
      BY <1>2, <1>n, <2>1
    <2>4. PICK f : Follows(f, n, X, hosts, step)
      BY <1>n, <2>2, <2>3, Recursion DEF StepsStay
    <2>5. ASSUME NEW k \in 0 .. n
          PROVE  f[k] = IF k = 0 THEN hosts ELSE Merge(f[k - 1], new[k])
      <3>1. k # 0 => k \in 1 .. n /\ k - 1 \in 0 .. n
        BY <1>n
      <3>2. k # 0 => f[k] = Merge(f[k - 1], new[k])
        BY <2>1, <2>4, <3>1 DEF Follows
      <3> QED
        BY <2>4, <3>2 DEF Follows
    <2>6. IsMerged(f)
      BY <2>4, <2>5 DEF Follows
    <2> QED
      BY <2>6
  <1> DEFINE merged == CHOOSE f : IsMerged(f)
  <1>4. IsMerged(merged)
    BY <1>3
  <1>5. Merged(h, new) = merged[n]
    BY DEF Merged
  <1> HIDE DEF merged
  <1>6. merged[n] \in Lists(n)
    <2> DEFINE T == {k \in 0 .. n : merged[k] \in Lists(k)}
    <2>0. merged[0] = hosts /\ \A k \in 1 .. n : merged[k] = Merge(merged[k - 1], new[k])
      <3> HIDE DEF Merge
      <3> QED
        BY <1>4, <1>n
    <2> HIDE DEF Merge, Lists, IsMerged
    <2>1. 0 \in T
      BY <1>2, <2>0, <1>n
    <2>2. ASSUME NEW k \in 1 .. n, k - 1 \in T
          PROVE  k \in T
      BY <1>1, <1>n, <2>0, <2>2
    <2>3. 0 .. n \subseteq T
      <3> HIDE DEF T
      <3> QED
        BY <1>n, <2>1, <2>2, IntervalInduction
    <2> QED
      BY <1>n, <2>3
  <1> QED
    BY <1>5, <1>6

(* The tree's rows are objects of the store.                               *)
LEMMA ShownIsTyped ==
    ASSUME NEW A, NEW h, NEW s \in Seq(A), NEW f
    PROVE  /\ Shown(h, s, f) \in Seq(A)
           /\ \A i \in DOMAIN Shown(h, s, f) : \E j \in DOMAIN s : s[j] = Shown(h, s, f)[i]
  <1> DEFINE S == {r \in DOMAIN h : Found(f, h[r].text)}
  <1>1. Shown(h, s, f) = Kept(s, S)
    BY DEF Shown
  <1> HIDE DEF S
  <1> QED
    BY <1>1, KeptIsKept

IInv == TypeOK /\ ObjectsInv /\ TargetInv /\ TreeInv /\ BroughtInv /\ MemoryIsOnDisk

\* What a key leaves alone that only changes what is in front.
StoreKept == UNCHANGED <<disk, list, filter, secret, edits, history>>

(* A key that moves between the list, the search, the form, a question and *)
(* a prompt keeps the invariant.                                           *)
LEMMA ScreenKeys ==
    ASSUME IInv,
           \/ PressOK \/ OpenSearch \/ GoToResults \/ OpenForm \/ InvalidForm
           \/ \E r \in DOMAIN heap : AskDelete(r)
           \/ PressNo \/ OpenPrompt("import") \/ OpenPrompt("export") \/ CancelPrompt
           \/ ImportNothing \/ Export \/ CancelMaster
    PROVE  IInv'
  <1>i. TypeOK /\ ObjectsInv /\ TargetInv /\ TreeInv /\ BroughtInv /\ MemoryIsOnDisk
    BY DEF IInv
  <1>k. StoreKept /\ searching' \in BOOLEAN
    BY <1>i DEF PressOK, OpenSearch, GoToResults, OpenForm, InvalidForm, AskDelete, PressNo,
       OpenPrompt, CancelPrompt, ImportNothing, Export, CancelMaster, StoreKept, search, TypeOK
  <1>m. mode # "down" /\ mode' # "down"
    BY <1>i DEF PressOK, OpenSearch, GoToResults, OpenForm, InvalidForm, AskDelete, PressNo,
       OpenPrompt, CancelPrompt, ImportNothing, Export, CancelMaster, At, About, ErrorOver,
       OnRow, TypeOK
  <1>t. /\ mode' \in {"list", "search", "form", "confirm", "import", "export",
                      "unlock", "error"}
        /\ under' \in {"list", "form", "import", "export", "unlock"}
        /\ target' \in {0} \cup DOMAIN heap
    BY <1>i DEF PressOK, OpenSearch, GoToResults, OpenForm, InvalidForm, AskDelete, PressNo,
       OpenPrompt, CancelPrompt, ImportNothing, Export, CancelMaster, At, About, ErrorOver,
       OnRow, TypeOK
  <1>1. TypeOK'
    BY <1>i, <1>k, <1>t DEF TypeOK, StoreKept, list, secret, history
  <1>2. ObjectsInv'
    BY <1>i, <1>k, <1>m DEF ObjectsInv, StoreKept, list, secret, history
  <1>3. TargetInv'
    <2>1. In("unlock")' => In("unlock") /\ target' = target
      BY <1>i DEF PressOK, OpenSearch, GoToResults, OpenForm, InvalidForm, AskDelete, PressNo,
         OpenPrompt, CancelPrompt, ImportNothing, Export, CancelMaster, At, About, ErrorOver,
         OnRow, In
    <2>2. mode' = "confirm" => target' # 0
      BY <1>i DEF PressOK, OpenSearch, GoToResults, OpenForm, InvalidForm, AskDelete, PressNo,
         OpenPrompt, CancelPrompt, ImportNothing, Export, CancelMaster, At, About, ErrorOver,
         OnRow, TargetInv, TypeOK
    <2> QED
      BY <1>i, <1>k, <2>1, <2>2 DEF TargetInv, StoreKept, list
  <1>4. TreeInv'
    <2>1. In("form") => In("form")'
      BY DEF PressOK, OpenSearch, GoToResults, OpenForm, InvalidForm, AskDelete, PressNo,
         OpenPrompt, CancelPrompt, ImportNothing, Export, CancelMaster, At, About, ErrorOver,
         OnRow, In
    <2>2. In("form")' => \/ target' = 0
                         \/ In("form") /\ target' = target
                         \/ mode = "list" /\ \E i \in DOMAIN rows : target' = rows[i]
      BY DEF PressOK, OpenSearch, GoToResults, OpenForm, InvalidForm, AskDelete, PressNo,
         OpenPrompt, CancelPrompt, ImportNothing, Export, CancelMaster, At, About, ErrorOver,
         OnRow, In
    <2>3. ASSUME rows = Shown(heap, hosts, filter), NEW i \in DOMAIN rows
          PROVE  \E j \in DOMAIN hosts : hosts[j] = rows[i]
      BY <1>i, <2>3, ShownIsTyped DEF TypeOK
    <2> QED
      BY <1>i, <1>k, <1>m, <2>1, <2>2, <2>3 DEF TreeInv, StoreKept, list, history, In
  <1>5. BroughtInv'
    <2>1. ~In("unlock") => ~In("unlock")'
      BY DEF PressOK, OpenSearch, GoToResults, OpenForm, InvalidForm, AskDelete, PressNo,
         OpenPrompt, CancelPrompt, ImportNothing, Export, CancelMaster, At, About, ErrorOver,
         OnRow, In
    <2> QED
      BY <1>i, <1>k, <1>m, <2>1 DEF BroughtInv, StoreKept, list, secret, history
  <1>6. MemoryIsOnDisk'
    BY <1>i, <1>k, <1>m DEF MemoryIsOnDisk, StoreKept, list, history
  <1> QED
    BY <1>1, <1>2, <1>3, <1>4, <1>5, <1>6 DEF IInv

(* A key that searches, or leaves the form, makes the tree anew and keeps  *)
(* the invariant.                                                          *)
LEMMA TreeKeys ==
    ASSUME IInv, Type \/ HideSearch \/ CancelForm
    PROVE  IInv'
  <1>i. TypeOK /\ ObjectsInv /\ TargetInv /\ TreeInv /\ BroughtInv /\ MemoryIsOnDisk
    BY DEF IInv
  <1>k. UNCHANGED <<disk, heap, hosts, masterPwd, unlocks, proven, edits, faults, brought>>
    BY DEF Type, HideSearch, CancelForm, search, secret, history
  <1>r. rows' = Shown(heap, hosts, filter')
    BY <1>k DEF Type, HideSearch, CancelForm, Rebuild
  <1>t. /\ mode \in {"list", "search", "form"} /\ mode' \in {"list", "search"}
        /\ under' = under /\ (target' = target \/ target' = 0)
        /\ filter' \in Filter \cup {NoFilter} /\ searching' \in BOOLEAN
    BY <1>i DEF Type, HideSearch, CancelForm, At, About, search, screen, TypeOK
  <1>1. TypeOK'
    <2>1. rows' \in Seq(DOMAIN heap)
      BY <1>i, <1>r, ShownIsTyped DEF TypeOK
    <2> QED
      BY <1>i, <1>k, <1>t, <2>1 DEF TypeOK
  <1>2. ObjectsInv' /\ TargetInv' /\ TreeInv'
    BY <1>i, <1>k, <1>t, <1>r DEF ObjectsInv, TargetInv, TreeInv, In
  <1>3. BroughtInv' /\ MemoryIsOnDisk'
    BY <1>i, <1>k, <1>t DEF BroughtInv, MemoryIsOnDisk, In
  <1> QED
    BY <1>1, <1>2, <1>3 DEF IInv

(* When the process ends, in the middle of saving or not, what it leaves   *)
(* on the disk is what a store's file may be.                              *)
LEMMA GoneKeeps ==
    ASSUME IInv, Gone, DiskOK(disk'), UNCHANGED history, edits' \in 0 .. MaxEdits
    PROVE  IInv'
  <1>1. TypeOK' /\ ObjectsInv'
    <2>1. DOMAIN <<>> = {} /\ Len(<<>>) = 0 /\ 0 <= MaxObjects /\ \A A : <<>> \in Seq(A)
      BY StoreAssumption DEF StoreAssumption
    <2>2. disk' \in {Absent, Torn} \/ disk' \in Seq(Host)
      BY DEF DiskOK
    <2>3. IsStore(disk') => Len(disk') <= MaxObjects
      BY DEF DiskOK, IsStore
    <2>4. TypeOK'
      BY <2>1, <2>2 DEF Gone, IInv, TypeOK, history
    <2>5. ObjectsInv'
      BY <2>1, <2>3 DEF Gone, ObjectsInv, IsStore
    <2> QED
      BY <2>4, <2>5
  <1>2. TargetInv' /\ TreeInv' /\ MemoryIsOnDisk'
    BY DEF Gone, TargetInv, TreeInv, MemoryIsOnDisk, In
  <1>3. BroughtInv'
    BY DEF Gone, BroughtInv, In, Encrypted
  <1> QED
    BY <1>1, <1>2, <1>3 DEF IInv

(* The program starts with what the file holds.                            *)
LEMMA StartKeeps ==
    ASSUME IInv, Start
    PROVE  IInv'
  <1>i. TypeOK /\ ObjectsInv
    BY DEF IInv
  <1>k. /\ mode = "down" /\ disk # Torn
        /\ heap' = (IF disk = Absent THEN <<>> ELSE disk)
        /\ hosts' = [i \in DOMAIN heap' |-> i]
        /\ mode' = "list" /\ UNCHANGED <<under, target>>
        /\ faults' = {} /\ brought' = (brought \/ Encrypted(heap'))
        /\ UNCHANGED <<disk, filter, searching, masterPwd, unlocks, proven, edits>>
        /\ rows' = Shown(heap', hosts', filter')
    BY DEF Start, At, Rebuild, search, secret
  <1>1. heap' \in Seq(Host) /\ Len(heap') \in Nat /\ Len(heap') <= MaxObjects
    BY <1>i, <1>k, StoreAssumption DEF TypeOK, ObjectsInv, IsStore, StoreAssumption
  <1>2. DOMAIN heap' = 1 .. Len(heap')
    BY <1>1
  <1>3. hosts' \in Seq(DOMAIN heap') /\ Len(hosts') = Len(heap')
    BY <1>1, <1>2, <1>k
  <1>4. rows' \in Seq(DOMAIN heap')
    BY <1>3, <1>k, ShownIsTyped
  <1>5. target = 0 /\ unlocks = {}
    BY <1>i, <1>k DEF ObjectsInv
  <1>6. TypeOK'
    BY <1>i, <1>k, <1>1, <1>3, <1>4, <1>5 DEF TypeOK
  <1>7. ObjectsInv' /\ TargetInv' /\ TreeInv'
    BY <1>i, <1>k, <1>1, <1>3, <1>5 DEF ObjectsInv, TargetInv, TreeInv, In
  <1>8. BroughtInv'
    <2>1. ~brought => masterPwd = NoMaster
      BY DEF IInv, BroughtInv
    <2>2. IsStore(disk') => heap' = disk'
      BY <1>k DEF IsStore
    <2> QED
      BY <1>k, <1>5, <2>1, <2>2 DEF BroughtInv, In
  <1>9. MemoryIsOnDisk'
    <2>1. Values(heap', hosts') = heap'
      <3>1. DOMAIN hosts' = DOMAIN heap' /\ \A i \in DOMAIN heap' : hosts'[i] = i
        BY <1>k
      <3>2. heap' = [i \in DOMAIN heap' |-> heap'[i]]
        BY <1>1
      <3>3. Values(heap', hosts') = [i \in DOMAIN heap' |-> heap'[i]]
        BY <3>1 DEF Values
      <3> QED
        BY <3>2, <3>3
    <2> QED
      BY <1>k, <2>1 DEF MemoryIsOnDisk, IsStore
  <1> QED
    BY <1>6, <1>7, <1>8, <1>9 DEF IInv

\* Saving the list s of objects in h, and its failure.
Saves(h, s) ==
    \/ disk' = Values(h, s) /\ faults' = {}
    \/ /\ disk' \in {disk} \cup CutShort(Values(h, s))
       /\ faults' # {} /\ faults' \subseteq faults \cup {"save", "import"}

(* Whatever comes of saving a list, the file is one a store may have, with *)
(* no password by a master password unless there was one before; and if it *)
(* is saved, the file is the list.                                         *)
LEMMA SavingIsSafe ==
    ASSUME IInv, NEW h \in Seq(Host), NEW s \in Seq(DOMAIN h), Len(s) <= MaxObjects,
           disk' \in {disk, Values(h, s)} \cup CutShort(Values(h, s))
    PROVE  /\ DiskOK(disk')
           /\ \/ ~Encrypted(h) /\ IsStore(disk') => ~Encrypted(disk')
              \/ disk' = disk
           /\ IsStore(Values(h, s))
  <1>1. /\ Values(h, s) \in Seq(Host) /\ Len(Values(h, s)) <= MaxObjects
        /\ ~Encrypted(h) => ~Encrypted(Values(h, s))
    BY ValuesAreHosts
  <1>2. IsStore(Values(h, s))
    BY <1>1, StoreAssumption DEF IsStore, StoreAssumption
  <1>3. CASE disk' = disk
    BY <1>2, <1>3 DEF IInv, TypeOK, ObjectsInv, IsStore, DiskOK
  <1>4. CASE disk' = Values(h, s)
    BY <1>1, <1>2, <1>4 DEF DiskOK
  <1>5. CASE disk' \in CutShort(Values(h, s))
    <2> DEFINE v == Values(h, s)
    <2> HIDE DEF v
    <2>1. v \in Seq(Host) /\ Len(v) <= MaxObjects /\ disk' \in CutShort(v)
      BY <1>1, <1>5 DEF v
    <2>2. DiskOK(disk') /\ (~Encrypted(v) /\ IsStore(disk') => ~Encrypted(disk'))
      BY <2>1, CutShortIsShort
    <2> QED
      BY <1>1, <1>2, <2>2 DEF v
  <1> QED
    BY <1>3, <1>4, <1>5

(* A change of the objects and the list that is saved, or not, keeps the   *)
(* invariant if the tree is made anew, or left with its objects by an      *)
(* import.                                                                 *)
LEMMA ChangeKeeps ==
    ASSUME IInv, NEW h \in Seq(Host), NEW s \in Seq(DOMAIN h),
           Len(heap) <= Len(h), Len(h) <= MaxObjects, Len(s) <= Len(h),
           ~brought' => ~Encrypted(h) /\ ~brought, brought' \in BOOLEAN,
           heap' = h, hosts' = s, Saves(h, s),
           \/ mode' = "list" /\ under' = under
           \/ mode' = "error" /\ under' = "list",
           target' = 0, mode # "down",
           UNCHANGED <<search, secret>>, edits' \in 0 .. MaxEdits,
           Rebuild \/ ("import" \in faults' /\ UNCHANGED rows)
    PROVE  IInv'
  <1>i. TypeOK /\ ObjectsInv /\ BroughtInv
    BY DEF IInv
  <1>k. UNCHANGED <<filter, searching, masterPwd, unlocks, proven>>
    BY DEF search, secret
  <1>l. Len(s) <= MaxObjects /\ DOMAIN heap \subseteq DOMAIN h
    BY <1>i, StoreAssumption DEF TypeOK, StoreAssumption
  <1>d. disk' \in {disk, Values(h, s)} \cup CutShort(Values(h, s))
    BY DEF Saves
  <1>s. /\ DiskOK(disk') /\ IsStore(Values(h, s))
        /\ \/ ~Encrypted(h) /\ IsStore(disk') => ~Encrypted(disk')
           \/ disk' = disk
    BY <1>l, <1>d, SavingIsSafe
  <1>r. rows' \in Seq(DOMAIN h) /\ (Rebuild \/ "import" \in faults')
    <2>1. CASE Rebuild
      BY <2>1, ShownIsTyped DEF Rebuild
    <2>2. CASE "import" \in faults' /\ UNCHANGED rows
      BY <1>i, <1>l, <2>2 DEF TypeOK
    <2> QED
      BY <2>1, <2>2
  <1>1. TypeOK'
    <2>1. disk' \in {Absent, Torn} \/ disk' \in Seq(Host)
      BY <1>s DEF DiskOK
    <2>2. faults' \subseteq {"save", "encrypt", "import", "export"}
      BY <1>i DEF Saves, TypeOK
    <2> QED
      BY <1>i, <1>k, <1>r, <2>1, <2>2 DEF TypeOK
  <1>2. ObjectsInv' /\ TargetInv'
    BY <1>s DEF ObjectsInv, TargetInv, In, DiskOK, IsStore
  <1>3. TreeInv'
    BY <1>r DEF TreeInv, In, Rebuild
  <1>4. BroughtInv'
    BY <1>i, <1>k, <1>s DEF BroughtInv, In
  <1>5. MemoryIsOnDisk'
    BY <1>s DEF Saves, MemoryIsOnDisk
  <1> QED
    BY <1>1, <1>2, <1>3, <1>4, <1>5 DEF IInv

(* A kill in the middle of saving.                                         *)
LEMMA KillKeeps ==
    ASSUME IInv, NEW h \in Seq(Host), NEW s \in Seq(DOMAIN h), Len(s) <= MaxObjects,
           KilledSaving(Values(h, s)), edits' \in 0 .. MaxEdits
    PROVE  IInv'
  <1>1. DiskOK(disk')
    BY SavingIsSafe DEF KilledSaving
  <1> QED
    BY <1>1, GoneKeeps DEF KilledSaving

(* Saving the form, whether the password is kept or new.                   *)
LEMMA SaveFormKeeps ==
    ASSUME IInv, NEW text \in Text, NEW pwd \in {OldPassword, NewPassword},
           SaveForm(text, pwd)
    PROVE  IInv'
  <1> DEFINE h == Filled(text, pwd)
             s == Entered
  <1>i. TypeOK /\ ObjectsInv /\ BroughtInv
    BY DEF IInv
  <1>p. pwd \in Password /\ (~brought => pwd \notin Master)
    <2>1. CASE pwd = OldPassword /\ target = 0
      BY <2>1, StoreAssumption DEF OldPassword, Password, StoreAssumption
    <2>2. CASE pwd = OldPassword /\ target # 0
      <3>1. target \in DOMAIN heap /\ heap[target] \in Host
        BY <1>i, <2>2 DEF TypeOK
      <3>2. pwd = heap[target].pwd
        BY <2>2 DEF OldPassword
      <3> QED
        BY <1>i, <3>1, <3>2 DEF BroughtInv, Encrypted, Host
    <2>3. CASE pwd = NewPassword
      BY <1>i, <2>3, StoreAssumption
         DEF NewPassword, BroughtInv, TypeOK, Password, StoreAssumption
    <2> QED
      BY <2>1, <2>2, <2>3
  <1>h. HasRoom /\ mode = "form" /\ edits' \in 0 .. MaxEdits
    BY <1>i, StoreAssumption DEF SaveForm, Edit, TypeOK, StoreAssumption
  <1>1. /\ h \in Seq(Host) /\ s \in Seq(DOMAIN h)
        /\ Len(heap) <= Len(h) /\ Len(h) <= MaxObjects /\ Len(s) <= Len(h)
        /\ ~brought => ~Encrypted(h)
    BY <1>i, <1>p, <1>h, FilledIsTyped DEF BroughtInv
  <1>2. Len(s) <= MaxObjects
    BY <1>1, StoreAssumption DEF StoreAssumption
  <1>c. \/ KilledSaving(Values(h, s))
        \/ /\ heap' = h /\ hosts' = s
           /\ Saved \/ SaveFails
           /\ About("list", 0)
           /\ UNCHANGED <<search, secret, brought>>
           /\ Rebuild
    BY DEF SaveForm
  <1> HIDE DEF h, s
  <1>3. CASE KilledSaving(Values(h, s))
    BY <1>h, <1>1, <1>2, <1>3, KillKeeps
  <1>4. CASE /\ heap' = h /\ hosts' = s
             /\ Saved \/ SaveFails
             /\ About("list", 0)
             /\ UNCHANGED <<search, secret, brought>>
             /\ Rebuild
    <2>1. Saves(h, s)
      BY <1>4 DEF Saved, SaveFails, Saves
    <2>2. mode' = "list" /\ under' = under /\ target' = 0 /\ mode # "down"
      BY <1>4, <1>h DEF About
    <2>3. UNCHANGED <<search, secret>> /\ brought' = brought /\ brought \in BOOLEAN
      BY <1>4, <1>i DEF TypeOK
    <2> QED
      BY <1>4, <1>h, <1>1, <2>1, <2>2, <2>3, ChangeKeeps
  <1> QED
    BY <1>c, <1>3, <1>4

(* A host that cannot be encrypted is in the store all the same, and the   *)
(* form stays over it.                                                     *)
LEMMA EncryptFailsKeeps ==
    ASSUME IInv, NEW text \in Text, EncryptFails(text)
    PROVE  IInv'
  <1> DEFINE h == Filled(text, OldPassword)
             s == Entered
  <1>i. TypeOK /\ ObjectsInv /\ TreeInv /\ BroughtInv
    BY DEF IInv
  <1>k. /\ mode = "form" /\ masterPwd # NoMaster /\ HasRoom
        /\ heap' = h /\ hosts' = s
        /\ faults' = faults \cup {"encrypt"}
        /\ mode' = "error" /\ under' = "form" /\ target' = target
        /\ UNCHANGED <<disk, rows, filter, searching, masterPwd, unlocks, proven, brought>>
        /\ edits' \in 0 .. MaxEdits
    BY <1>i, StoreAssumption
       DEF EncryptFails, ErrorOver, search, secret, Edit, TypeOK, StoreAssumption
  <1>p. OldPassword \in Password
    <2>1. CASE target = 0
      BY <2>1 DEF OldPassword, Password
    <2>2. CASE target # 0
      <3>1. target \in DOMAIN heap /\ heap[target] \in Host
        BY <1>i, <2>2 DEF TypeOK
      <3> QED
        BY <2>2, <3>1 DEF OldPassword, Host
    <2> QED
      BY <2>1, <2>2
  <1>1. /\ h \in Seq(Host) /\ s \in Seq(DOMAIN h)
        /\ Len(heap) <= Len(h) /\ Len(h) <= MaxObjects /\ Len(s) <= Len(h)
        /\ \A i \in DOMAIN hosts : i \in DOMAIN s /\ s[i] = hosts[i]
    BY <1>i, <1>p, <1>k, FilledIsTyped
  <1> HIDE DEF h, s
  <1>2. DOMAIN heap \subseteq DOMAIN h
    BY <1>i, <1>1 DEF TypeOK
  <1>3. TypeOK'
    <2>1. rows' \in Seq(DOMAIN h) /\ target' \in {0} \cup DOMAIN h
      BY <1>i, <1>k, <1>2 DEF TypeOK
    <2> QED
      BY <1>i, <1>k, <1>1, <2>1 DEF TypeOK
  <1>4. ObjectsInv' /\ TargetInv' /\ MemoryIsOnDisk'
    BY <1>i, <1>k, <1>1 DEF ObjectsInv, TargetInv, MemoryIsOnDisk, In
  <1>5. TreeInv'
    BY <1>i, <1>k, <1>1 DEF TreeInv, In
  <1>6. BroughtInv'
    BY <1>i, <1>k DEF BroughtInv
  <1> QED
    BY <1>3, <1>4, <1>5, <1>6 DEF IInv

(* Deleting keeps the invariant.                                           *)
LEMMA DeleteKeeps ==
    ASSUME IInv, Delete
    PROVE  IInv'
  <1>i. TypeOK /\ ObjectsInv /\ BroughtInv
    BY DEF IInv
  <1> DEFINE s == Left
  <1>1. s \in Seq(DOMAIN heap) /\ Len(s) <= Len(hosts)
    <2> DEFINE S == {r \in DOMAIN heap : heap[r].id # heap[target].id}
    <2>1. Left = Kept(hosts, S)
      BY DEF Left
    <2> HIDE DEF S
    <2> QED
      BY <1>i, <2>1, KeptIsKept DEF TypeOK
  <1>2. /\ heap \in Seq(Host) /\ Len(heap) <= Len(heap) /\ Len(heap) <= MaxObjects
        /\ Len(s) <= Len(heap) /\ Len(s) <= MaxObjects
        /\ ~brought => ~Encrypted(heap)
    BY <1>i, <1>1, StoreAssumption DEF TypeOK, ObjectsInv, BroughtInv, StoreAssumption
  <1>3. mode = "confirm" /\ edits' \in 0 .. MaxEdits
    BY <1>i DEF Delete, TypeOK
  <1>c. \/ KilledSaving(Values(heap, s))
        \/ /\ hosts' = s
           /\ UNCHANGED <<heap, search, secret, brought>>
           /\ (Saved /\ About("list", 0)) \/ (SaveFails /\ ErrorOver("list"))
           /\ Rebuild
    BY DEF Delete
  <1> HIDE DEF s
  <1>4. CASE KilledSaving(Values(heap, s))
    BY <1>1, <1>2, <1>3, <1>4, KillKeeps
  <1>5. CASE /\ hosts' = s
             /\ UNCHANGED <<heap, search, secret, brought>>
             /\ (Saved /\ About("list", 0)) \/ (SaveFails /\ ErrorOver("list"))
             /\ Rebuild
    <2>1. Saves(heap, s)
      BY <1>5 DEF Saved, SaveFails, Saves
    <2>2. /\ target' = 0 /\ mode # "down"
          /\ \/ mode' = "list" /\ under' = under
             \/ mode' = "error" /\ under' = "list"
      BY <1>5, <1>3 DEF About, ErrorOver
    <2>3. /\ UNCHANGED <<search, secret>> /\ brought' = brought /\ brought \in BOOLEAN
          /\ heap' = heap
      BY <1>5, <1>i DEF TypeOK
    <2> QED
      BY <1>5, <1>1, <1>2, <1>3, <2>1, <2>2, <2>3, ChangeKeeps
  <1> QED
    BY <1>c, <1>4, <1>5

(* Importing a list, saved or not, keeps the invariant.                    *)
LEMMA ImportKeeps ==
    ASSUME IInv, NEW imported \in Seq(Host), Import(imported)
    PROVE  IInv'
  <1> DEFINE h == heap \o imported
             new == [k \in DOMAIN imported |-> Len(heap) + k]
             s == Merged(h, new)
  <1>i. TypeOK /\ ObjectsInv /\ BroughtInv
    BY DEF IInv
  <1>1. /\ h \in Seq(Host) /\ Len(h) = Len(heap) + Len(imported)
        /\ Len(heap) \in Nat /\ Len(imported) \in Nat
        /\ \A i \in DOMAIN h : (\E j \in DOMAIN heap : h[i] = heap[j])
                                \/ \E j \in DOMAIN imported : h[i] = imported[j]
    <2>1. heap \in Seq(Host)
      BY <1>i DEF TypeOK
    <2>2. /\ DOMAIN heap = 1 .. Len(heap) /\ DOMAIN imported = 1 .. Len(imported)
          /\ Len(heap) \in Nat /\ Len(imported) \in Nat
      BY <2>1
    <2>3. /\ h \in Seq(Host) /\ Len(h) = Len(heap) + Len(imported)
          /\ DOMAIN h = 1 .. Len(heap) + Len(imported)
          /\ \A i \in DOMAIN h : h[i] = IF i <= Len(heap) THEN heap[i]
                                        ELSE imported[i - Len(heap)]
      BY <2>1, <2>2
    <2>4. ASSUME NEW i \in DOMAIN h
          PROVE  (\E j \in DOMAIN heap : h[i] = heap[j])
                 \/ \E j \in DOMAIN imported : h[i] = imported[j]
      <3>1. CASE i <= Len(heap)
        BY <2>2, <2>3, <3>1
      <3>2. CASE ~(i <= Len(heap))
        <4>1. i - Len(heap) \in DOMAIN imported
          BY <2>2, <2>3, <3>2
        <4> QED
          BY <2>3, <3>2, <4>1
      <3> QED
        BY <3>1, <3>2
    <2> QED
      BY <2>2, <2>3, <2>4
  <1>k. /\ mode = "import" /\ Len(h) <= MaxObjects /\ edits' \in 0 .. MaxEdits
        /\ \/ KilledSaving(Values(h, s))
           \/ /\ heap' = h /\ hosts' = s
              /\ brought' = (brought \/ Encrypted(imported))
              /\ UNCHANGED <<search, secret>>
              /\ \/ Saved /\ About("list", 0) /\ Rebuild
                 \/ /\ disk' \in {disk} \cup CutShort(Values(heap', hosts'))
                    /\ faults' = faults \cup {"save", "import"}
                    /\ ErrorOver("list")
                    /\ UNCHANGED rows
    BY <1>i, StoreAssumption DEF Import, Edit, TypeOK, StoreAssumption
  <1>2. new \in Seq(DOMAIN h) /\ Len(new) = Len(imported)
    <2>1. DOMAIN imported = 1 .. Len(imported) /\ DOMAIN h = 1 .. Len(h)
      BY <1>1
    <2> HIDE DEF h
    <2>2. \A k \in DOMAIN imported : Len(heap) + k \in DOMAIN h
      BY <1>1, <2>1
    <2> QED
      BY <1>1, <2>1, <2>2
  <1>3. hosts \in Seq(DOMAIN h) /\ Len(hosts) <= Len(heap) /\ Len(hosts) \in Nat
    <2>1. DOMAIN heap = 1 .. Len(heap) /\ DOMAIN h = 1 .. Len(h) /\ hosts \in Seq(DOMAIN heap)
      BY <1>i, <1>1 DEF TypeOK
    <2> HIDE DEF h
    <2>2. DOMAIN heap \subseteq DOMAIN h
      BY <1>1, <2>1
    <2>3. hosts \in Seq(DOMAIN h) /\ Len(hosts) \in Nat
      <3> DEFINE D == DOMAIN heap
                 E == DOMAIN h
      <3>1. hosts \in Seq(D) /\ D \subseteq E
        BY <2>1, <2>2
      <3> HIDE DEF D, E
      <3>2. hosts \in Seq(E) /\ Len(hosts) \in Nat
        BY <3>1
      <3> QED
        BY <3>2 DEF E
    <2> QED
      BY <1>i, <2>3 DEF ObjectsInv
  <1> HIDE DEF new, h
  <1>4. s \in Seq(DOMAIN h) /\ Len(s) <= Len(hosts) + Len(new)
    BY <1>2, <1>3, MergedIsTyped
  <1> HIDE DEF s
  <1>5. /\ Len(heap) <= Len(h) /\ Len(s) <= Len(h) /\ Len(s) <= MaxObjects
    BY <1>1, <1>2, <1>3, <1>4, <1>k, StoreAssumption DEF StoreAssumption
  <1>6. CASE KilledSaving(Values(h, s))
    BY <1>1, <1>4, <1>5, <1>6, <1>k, KillKeeps
  <1>7. CASE /\ heap' = h /\ hosts' = s
             /\ brought' = (brought \/ Encrypted(imported))
             /\ UNCHANGED <<search, secret>>
             /\ \/ Saved /\ About("list", 0) /\ Rebuild
                \/ /\ disk' \in {disk} \cup CutShort(Values(heap', hosts'))
                   /\ faults' = faults \cup {"save", "import"}
                   /\ ErrorOver("list")
                   /\ UNCHANGED rows
    <2>1. Saves(h, s)
      BY <1>7 DEF Saved, Saves
    <2>2. /\ target' = 0 /\ mode # "down"
          /\ \/ mode' = "list" /\ under' = under
             \/ mode' = "error" /\ under' = "list"
      BY <1>7, <1>k DEF About, ErrorOver
    <2>3. Rebuild \/ ("import" \in faults' /\ UNCHANGED rows)
      BY <1>7
    <2>4. brought' \in BOOLEAN
      BY <1>7, <1>i DEF TypeOK, Encrypted
    <2>5. ~brought' => ~Encrypted(h) /\ ~brought
      <3>1. ~brought' => ~brought /\ ~Encrypted(imported) /\ ~Encrypted(heap)
        BY <1>i, <1>7 DEF BroughtInv
      <3> QED
        BY <1>1, <3>1 DEF Encrypted
    <2> QED
      BY <1>7, <1>1, <1>4, <1>5, <1>k, <2>1, <2>2, <2>3, <2>4, <2>5, ChangeKeeps
  <1> QED
    BY <1>k, <1>6, <1>7

(* A store that is exported onto itself is lost on the disk only.          *)
LEMMA ExportKeeps ==
    ASSUME IInv, ExportOntoItself
    PROVE  IInv'
  <1>i. TypeOK /\ ObjectsInv /\ TargetInv /\ TreeInv /\ BroughtInv
    BY DEF IInv
  <1>k. /\ mode = "export" /\ mode' = "error" /\ under' = "list" /\ target' = 0
        /\ disk' = Torn /\ faults' = faults \cup {"export"}
        /\ UNCHANGED <<heap, hosts, rows, filter, searching, masterPwd, unlocks, proven,
                       brought>>
        /\ edits' \in 0 .. MaxEdits
    BY <1>i, StoreAssumption
       DEF ExportOntoItself, ErrorOver, list, search, secret, Edit, TypeOK, StoreAssumption
  <1>1. TypeOK'
    BY <1>i, <1>k DEF TypeOK
  <1>2. ObjectsInv' /\ TargetInv' /\ TreeInv'
    BY <1>i, <1>k DEF ObjectsInv, TargetInv, TreeInv, In, IsStore
  <1>3. BroughtInv' /\ MemoryIsOnDisk'
    BY <1>i, <1>k DEF BroughtInv, MemoryIsOnDisk, In, IsStore
  <1> QED
    BY <1>1, <1>2, <1>3 DEF IInv

(* Decrypting a password, whether it asks for a master password, tries one *)
(* or ends, keeps the invariant.                                           *)
LEMMA SecretKeeps ==
    ASSUME IInv, SecretNext
    PROVE  IInv'
  <1>i. TypeOK /\ ObjectsInv /\ TargetInv /\ TreeInv /\ BroughtInv /\ MemoryIsOnDisk
    BY DEF IInv
  <1>1. CASE CancelMaster
    BY <1>1, ScreenKeys
  <1>2. ASSUME UNCHANGED <<disk, list, search, edits, history>>,
               mode # "down", mode' # "down",
               mode' \in {"list", "unlock", "error"} \/ mode' = mode,
               under' \in {"list", "form", "import", "export", "unlock"},
               target' \in {0} \cup DOMAIN heap,
               masterPwd' \in Master \cup {NoMaster}, unlocks' \subseteq Unlock,
               proven' \in BOOLEAN,
               In("unlock")' => target' # 0 /\ heap[target'].pwd \in Master,
               mode' = "confirm" => target' # 0,
               In("form")' <=> In("form"),
               In("form")' => target' = target,
               ~brought => unlocks' = {} /\ ~In("unlock")' /\ masterPwd' = NoMaster
        PROVE  IInv'
    <2>1. TypeOK'
      BY <1>i, <1>2 DEF TypeOK, list, search, history
    <2>2. ObjectsInv' /\ TargetInv'
      BY <1>i, <1>2 DEF ObjectsInv, TargetInv, list
    <2>3. TreeInv'
      BY <1>i, <1>2 DEF TreeInv, list, search, history
    <2>4. BroughtInv' /\ MemoryIsOnDisk'
      BY <1>i, <1>2 DEF BroughtInv, MemoryIsOnDisk, list, history
    <2> QED
      BY <2>1, <2>2, <2>3, <2>4 DEF IInv
  <1>3. ASSUME NEW r \in DOMAIN heap, Decrypt(r)
        PROVE  IInv'
    <2>1. /\ mode = "list" /\ heap[r].pwd \in Master /\ r # 0
          /\ UNCHANGED <<disk, list, search, edits, history>> /\ brought
      BY <1>i, <1>3 DEF Decrypt, OnRow, TypeOK, BroughtInv, Encrypted
    <2>2. CASE masterPwd = NoMaster /\ Asks(r)
      <3>1. /\ mode' = "unlock" /\ target' = r /\ under' = under
            /\ UNCHANGED <<masterPwd, unlocks, proven>>
        BY <2>2 DEF Asks, About, secret
      <3> QED
        BY <1>i, <1>2, <2>1, <3>1 DEF TypeOK, In
    <2>3. CASE /\ masterPwd = heap[r].pwd
               /\ proven' = TRUE
               /\ UNCHANGED <<screen, masterPwd, unlocks>>
      BY <1>i, <1>2, <2>1, <2>3 DEF TypeOK, In, screen
    <2>4. CASE /\ masterPwd \notin {NoMaster, heap[r].pwd}
               /\ masterPwd' = NoMaster /\ proven' = FALSE
               /\ ErrorOver("list")
               /\ UNCHANGED unlocks
      <3>1. mode' = "error" /\ under' = "list" /\ target' = 0
        BY <2>4 DEF ErrorOver
      <3> QED
        BY <1>i, <1>2, <2>1, <2>4, <3>1 DEF TypeOK, In
    <2> QED
      BY <1>3, <2>2, <2>3, <2>4 DEF Decrypt
  <1>4. ASSUME NEW m \in Master, EnterMaster(m)
        PROVE  IInv'
    <2> DEFINE u == [pwd |-> heap[target].pwd, by |-> m]
    <2>1. /\ mode = "unlock" /\ mode' = "list" /\ target' = 0 /\ under' = under
          /\ masterPwd' = m /\ proven' = FALSE /\ unlocks' = unlocks \cup {u}
          /\ UNCHANGED <<disk, list, search, edits, history>>
      BY <1>4 DEF EnterMaster, About
    <2>2. brought /\ heap[target].pwd \in Master
      BY <1>i, <2>1 DEF BroughtInv, TargetInv, In
    <2>3. u \in Unlock
      BY <2>2 DEF Unlock
    <2> HIDE DEF u
    <2> QED
      BY <1>i, <1>2, <2>1, <2>2, <2>3 DEF TypeOK, In
  <1>5. ASSUME NEW u \in unlocks, UnlockEnds(u)
        PROVE  IInv'
    <2>1. /\ mode # "down" /\ brought
          /\ unlocks' = unlocks \ {u}
          /\ UNCHANGED <<disk, list, search, edits, history>>
      BY <1>i, <1>5 DEF UnlockEnds, ObjectsInv, BroughtInv
    <2>2. CASE UNCHANGED <<screen, masterPwd>> /\ proven' = (proven \/ masterPwd = u.by)
      <3>1. UNCHANGED <<mode, under, target, masterPwd>>
        BY <2>2 DEF screen
      <3>2. proven' \in BOOLEAN
        BY <1>i, <2>2 DEF TypeOK
      <3>3. /\ In("form")' <=> In("form")
            /\ In("unlock")' => target' # 0 /\ heap[target'].pwd \in Master
            /\ mode' = "confirm" => target' # 0
        BY <1>i, <3>1 DEF TargetInv, In
      <3>4. unlocks' \subseteq Unlock
        BY <1>i, <2>1 DEF TypeOK
      <3> QED
        BY <1>i, <1>2, <2>1, <3>1, <3>2, <3>3, <3>4 DEF TypeOK
    <2>3. CASE masterPwd' = NoMaster /\ proven' = FALSE /\ ErrorOver(Below)
      <3>1. /\ mode' = "error" /\ under' = Below
            /\ target' = IF Below \in {"form", "unlock"} THEN target ELSE 0
        BY <2>3 DEF ErrorOver
      <3>2. Below \in {"list", "form", "import", "export", "unlock"}
        BY <1>i, <2>1 DEF Below, TypeOK
      <3>3. (Below = "form" <=> In("form")) /\ (Below = "unlock" <=> In("unlock"))
        BY DEF Below, In
      <3>4. target' \in {0} \cup DOMAIN heap
        BY <1>i, <3>1 DEF TypeOK
      <3>5. (In("form")' <=> In("form")) /\ (In("unlock")' <=> In("unlock"))
        BY <3>1, <3>3 DEF In
      <3>6. In("form") \/ In("unlock") => target' = target
        BY <3>1, <3>3
      <3> QED
        BY <1>i, <1>2, <2>1, <2>3, <3>1, <3>2, <3>4, <3>5, <3>6 DEF TypeOK, TargetInv
    <2> QED
      BY <1>5, <2>2, <2>3 DEF UnlockEnds
  <1> QED
    BY <1>1, <1>3, <1>4, <1>5 DEF SecretNext

(* What changes nothing keeps the invariant.                               *)
LEMMA StutterKeeps ==
    ASSUME IInv, UNCHANGED vars
    PROVE  IInv'
  <1>1. TypeOK' /\ ObjectsInv' /\ TargetInv'
    BY DEF IInv, TypeOK, ObjectsInv, TargetInv, In, vars, list, search, screen, secret, history
  <1>2. TreeInv' /\ BroughtInv' /\ MemoryIsOnDisk'
    BY DEF IInv, TreeInv, BroughtInv, MemoryIsOnDisk, In, vars, list, search, screen, secret,
       history
  <1> QED
    BY <1>1, <1>2 DEF IInv

(* The end of the process by itself, and a file that cannot be decoded.    *)
LEMMA EndKeeps ==
    ASSUME IInv, End \/ StartFails
    PROVE  IInv'
  <1>1. CASE End
    <2>1. DiskOK(disk') /\ UNCHANGED history /\ edits' \in 0 .. MaxEdits /\ Gone
      BY <1>1 DEF End, IInv, TypeOK, ObjectsInv, IsStore, DiskOK
    <2> QED
      BY <2>1, GoneKeeps
  <1>2. CASE StartFails
    BY <1>2, StutterKeeps DEF StartFails
  <1> QED
    BY <1>1, <1>2

(* Every step keeps the invariant.                                         *)
LEMMA NextKeeps ==
    ASSUME IInv, Next
    PROVE  IInv'
  <1>1. CASE \/ PressOK \/ OpenSearch \/ GoToResults \/ PressNo
             \/ \E r \in DOMAIN heap : AskDelete(r)
    BY <1>1, ScreenKeys
  <1>2. CASE Type \/ HideSearch
    BY <1>2, TreeKeys
  <1>3. CASE FormNext
    <2>1. CASE OpenForm \/ InvalidForm
      BY <2>1, ScreenKeys
    <2>2. CASE CancelForm
      BY <2>2, TreeKeys
    <2>3. CASE \E t \in Text : \/ SaveForm(t, OldPassword) \/ SaveForm(t, NewPassword)
                               \/ EncryptFails(t)
      BY <2>3, SaveFormKeeps, EncryptFailsKeeps
    <2> QED
      BY <1>3, <2>1, <2>2, <2>3 DEF FormNext
  <1>4. CASE FileNext
    <2>1. CASE \/ OpenPrompt("import") \/ OpenPrompt("export") \/ CancelPrompt
               \/ ImportNothing \/ Export
      BY <2>1, ScreenKeys
    <2>2. ASSUME NEW s \in Importable \cup (IF IsStore(disk) THEN {disk} ELSE {}), Import(s)
          PROVE  IInv'
      <3>1. s \in Seq(Host)
        BY StoreAssumption DEF IInv, TypeOK, IsStore, StoreAssumption
      <3> QED
        BY <2>2, <3>1, ImportKeeps
    <2>3. CASE ExportOntoItself
      BY <2>3, ExportKeeps
    <2> QED
      BY <1>4, <2>1, <2>2, <2>3 DEF FileNext
  <1> QED
    BY <1>1, <1>2, <1>3, <1>4, StartKeeps, EndKeeps, DeleteKeeps, SecretKeeps DEF Next

(* The inductive invariant holds at the start, and always.                 *)
LEMMA InitIInv == Init => IInv
  <1> SUFFICES ASSUME Init PROVE IInv
    OBVIOUS
  <1>1. \A A : <<>> \in Seq(A) /\ Len(<<>>) = 0 /\ DOMAIN <<>> = {}
    OBVIOUS
  <1>2. /\ disk \in {Absent, Torn} \/ disk \in Seq(Host)
        /\ IsStore(disk) => Len(disk) <= MaxObjects
        /\ MaxObjects \in Nat /\ MaxEdits \in Nat
    BY StoreAssumption DEF Init, IsStore, StoreAssumption
  <1>3. TypeOK
    <2>1. heap \in Seq(Host) /\ hosts \in Seq(DOMAIN heap) /\ rows \in Seq(DOMAIN heap)
      BY <1>1 DEF Init
    <2>2. Len(heap) <= MaxObjects
      BY <1>1, <1>2 DEF Init
    <2>3. /\ mode = "down" /\ under = "list" /\ target = 0 /\ edits \in 0 .. MaxEdits
          /\ filter = NoFilter /\ searching = FALSE /\ masterPwd = NoMaster
          /\ unlocks = {} /\ proven = FALSE /\ faults = {} /\ brought = FALSE
      BY <1>2 DEF Init
    <2> QED
      BY <1>2, <2>1, <2>2, <2>3 DEF TypeOK
  <1>4. ObjectsInv /\ TargetInv /\ TreeInv /\ BroughtInv /\ MemoryIsOnDisk
    BY <1>1, <1>2 DEF Init, ObjectsInv, TargetInv, TreeInv, BroughtInv, MemoryIsOnDisk, In,
       Encrypted
  <1> QED
    BY <1>3, <1>4 DEF IInv

LEMMA AlwaysIInv == Spec => []IInv
  <1>1. IInv /\ [Next]_vars => IInv'
    BY NextKeeps, StutterKeeps
  <1> QED
    BY InitIInv, <1>1, PTL DEF Spec

-------------------------------------------------------------------------------
(* What follows from the invariant.                                        *)

(* Every variable has its type: whatever is pointed to is an object, and   *)
(* the file is nothing, no store or a list of hosts.                       *)
THEOREM TypeCorrect == Spec => []TypeOK
  BY AlwaysIInv, PTL DEF IInv

(* As long as no save or encryption failed, the file holds what is in      *)
(* memory, whatever was edited, deleted or imported, and whenever the      *)
(* process was killed before (app.go:57-62).                               *)
THEOREM MemoryIsAlwaysOnDisk == Spec => []MemoryIsOnDisk
  BY AlwaysIInv, PTL DEF IInv

(* The tree shows the store's objects that match the search, and the form  *)
(* edits an object of the store, unless an import could not be saved.      *)
THEOREM TreeFollowsStore == Spec => []RowsAreOfTheStore
  <1>1. IInv => RowsAreOfTheStore
    BY DEF IInv, TreeInv, In, RowsAreOfTheStore
  <1> QED
    BY AlwaysIInv, <1>1, PTL

(* Nothing is encrypted and no master password is asked for until a file   *)
(* brings an encrypted password.                                           *)
THEOREM NothingIsEncryptedUnasked == Spec => []EncryptedOnlyIfBrought
  <1>1. IInv => EncryptedOnlyIfBrought
    BY DEF IInv, BroughtInv, In, EncryptedOnlyIfBrought
  <1> QED
    BY AlwaysIInv, <1>1, PTL

-------------------------------------------------------------------------------
(* The master password.                                                    *)

\* What a step may do to the master password.
MasterKept == UNCHANGED secret

MasterLost == masterPwd' = NoMaster

(* A key for the list, a dialog, the form or a file leaves the master      *)
(* password alone, unless the process ends.                                *)
LEMMA KeysKeepMaster ==
    ASSUME \/ Start \/ StartFails \/ End \/ PressOK
           \/ OpenSearch \/ Type \/ GoToResults \/ HideSearch
           \/ FormNext
           \/ \E r \in DOMAIN heap : AskDelete(r)
           \/ PressNo \/ Delete
           \/ FileNext
    PROVE  MasterKept \/ MasterLost
  <1>1. CASE \/ Start \/ StartFails \/ End \/ PressOK
             \/ OpenSearch \/ Type \/ GoToResults \/ HideSearch
    BY <1>1 DEF Start, StartFails, End, PressOK, OpenSearch, Type, GoToResults, HideSearch,
       Gone, vars, secret, MasterKept, MasterLost
  <1>2. CASE FormNext
    BY <1>2 DEF FormNext, OpenForm, CancelForm, InvalidForm, SaveForm, EncryptFails,
       KilledSaving, Gone, secret, MasterKept, MasterLost
  <1>3. CASE (\E r \in DOMAIN heap : AskDelete(r)) \/ PressNo \/ Delete
    BY <1>3 DEF AskDelete, PressNo, Delete, KilledSaving, Gone, secret, MasterKept, MasterLost
  <1>4. CASE FileNext
    BY <1>4 DEF FileNext, OpenPrompt, CancelPrompt, Import, ImportNothing, Export,
       ExportOntoItself, KilledSaving, Gone, secret, MasterKept, MasterLost
  <1> QED
    BY <1>1, <1>2, <1>3, <1>4

(* A master password comes into use by being tried, and the end of a trial *)
(* proves it or takes it away, even if another one has come meanwhile.     *)
LEMMA TrialsTellMaster ==
    ASSUME MasterIsVerified, SecretNext
    PROVE  MasterIsVerified'
  <1>1. CASE (\E r \in DOMAIN heap : Decrypt(r)) \/ CancelMaster
    <2>1. MasterKept \/ MasterLost \/ proven'
      BY <1>1 DEF Decrypt, Asks, CancelMaster, secret, MasterKept, MasterLost
    <2> QED
      BY <2>1 DEF MasterKept, MasterLost, secret, MasterIsVerified
  <1>2. ASSUME NEW m \in Master, EnterMaster(m)
        PROVE  MasterIsVerified'
    <2> DEFINE u == [pwd |-> heap[target].pwd, by |-> m]
    <2>1. u \in unlocks' /\ u.by = masterPwd'
      BY <1>2 DEF EnterMaster
    <2> HIDE DEF u
    <2> QED
      BY <2>1 DEF MasterIsVerified
  <1>3. ASSUME NEW u \in unlocks, UnlockEnds(u)
        PROVE  MasterIsVerified'
    <2>1. CASE u.pwd = u.by
      <3>1. unlocks' = unlocks \ {u} /\ masterPwd' = masterPwd
        BY <1>3, <2>1 DEF UnlockEnds
      <3>2. proven' = (proven \/ masterPwd = u.by)
        BY <1>3, <2>1 DEF UnlockEnds
      <3>3. CASE masterPwd = u.by
        BY <3>2, <3>3 DEF MasterIsVerified
      <3>4. CASE masterPwd # u.by
        BY <3>1, <3>2, <3>4 DEF MasterIsVerified
      <3> QED
        BY <3>3, <3>4
    <2>2. CASE u.pwd # u.by
      BY <1>3, <2>2 DEF UnlockEnds, MasterIsVerified
    <2> QED
      BY <2>1, <2>2
  <1> QED
    BY <1>1, <1>2, <1>3 DEF SecretNext

(* A master password that fits nothing is in use only while it is tried.   *)
THEOREM MasterIsTriedOrProven == Spec => []MasterIsVerified
  <1>1. Init => MasterIsVerified
    BY DEF Init, MasterIsVerified
  <1>2. MasterIsVerified /\ [Next]_vars => MasterIsVerified'
    <2> SUFFICES ASSUME MasterIsVerified, [Next]_vars
                 PROVE  MasterIsVerified'
      OBVIOUS
    <2>1. CASE SecretNext
      BY <2>1, TrialsTellMaster
    <2>2. CASE Next /\ ~SecretNext
      <3>1. MasterKept \/ MasterLost
        BY <2>2, KeysKeepMaster DEF Next
      <3> QED
        BY <3>1 DEF MasterKept, MasterLost, secret, MasterIsVerified
    <2>3. CASE UNCHANGED vars
      BY <2>3 DEF vars, secret, MasterIsVerified
    <2> QED
      BY <2>1, <2>2, <2>3
  <1> QED
    BY <1>1, <1>2, PTL DEF Spec
===============================================================================
