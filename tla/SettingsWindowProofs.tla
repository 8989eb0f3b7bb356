------------------------- MODULE SettingsWindowProofs -------------------------
(***************************************************************************)
(* Proofs about SettingsWindow for any settings, rules, texts, requests    *)
(* and bounds: WindowInv is an invariant, so that the window shows what is *)
(* saved and an uncovered dialog the rules as they are, and an import      *)
(* keeps the decisions of the rules that stood; RequestInv is one too, so  *)
(* that what the core gets is built from the settings of a window; and the *)
(* generator decides every connection as those settings promise it, under  *)
(* names that each lead to one declaration.  Facts about the rules come    *)
(* first, then what the handlers share, then the steps, then the way of a  *)
(* rule through the generator, and then that of a name.                    *)
(*                                                                         *)
(* The last part is about Exchange, which shares the generator and the     *)
(* lemmas on joined lists: ExchangeInv is an invariant, for any texts and  *)
(* bodies, so that xhttp goes to Xray, and Xray is told all a link says.   *)
(***************************************************************************)
EXTENDS SettingsWindow, Exchange, FiniteSetTheorems, NaturalsInduction, SequenceTheorems, WellFoundedInduction, TLAPS

(***************************************************************************)
(* A set of numbers that is not empty has a least element.                 *)
(***************************************************************************)
LEMMA Least ==
  ASSUME NEW S \in SUBSET Nat, S # {}
  PROVE  \E x \in S : \A y \in S : x <= y
<1>1. PICK x \in S : \A y \in S : <<y, x>> \notin OpToRel(<, Nat)
  BY NatLessThanWellFounded, WFMin
<1>2. \A y \in S : ~(y < x)
  BY <1>1, Zenon DEF OpToRel
<1>3. x \in Nat /\ \A y \in S : y \in Nat /\ x <= y
  BY <1>2
<1>. QED
  BY <1>3

(***************************************************************************)
(* A condition has finitely many values.                                   *)
(***************************************************************************)
LEMMA NothingIsFinite == {} \in ValueSets
  BY FS_EmptySet DEF ValueSets

LEMMA KeptIsFinite ==
  ASSUME NEW v \in ValueSets
  PROVE  Kept(v) \in ValueSets
<1>1. v \in SUBSET STRING /\ IsFiniteSet(v)
  BY DEF ValueSets
<1>2. Kept(v) \in SUBSET v
  BY DEF Kept
<1>3. IsFiniteSet(Kept(v))
  BY <1>1, <1>2, FS_Subset
<1>. QED
  BY <1>1, <1>2, <1>3 DEF ValueSets

-----------------------------------------------------------------------------
(* Rules *)

(***************************************************************************)
(* Joining goes through the lists one at a time: f[n] has the first n.     *)
(***************************************************************************)
JoinsBy(f, seqs, N, S) ==
  /\ f \in [0 .. N -> Seq(S)]
  /\ f[0] = <<>> /\ Joined(seqs) = f[N]
  /\ \A n \in 1 .. N : f[n] = f[n - 1] \o seqs[n]

LEMMA JoinedRuns ==
  ASSUME NEW S, NEW seqs, NEW N \in Nat, Len(seqs) = N,
         \A n \in 1 .. N : seqs[n] \in Seq(S)
  PROVE  \E f : JoinsBy(f, seqs, N, S)
<1>. DEFINE Body(f, n) == IF n = 0 THEN <<>> ELSE f[n - 1] \o seqs[n]
            Runs(m) == \E f \in [0 .. m -> Seq(S)] : \A n \in 0 .. m : f[n] = Body(f, n)
            Stuck == {m \in 0 .. N : ~Runs(m)}
<1>1. Stuck = {}
  <2>. SUFFICES ASSUME Stuck # {} PROVE FALSE
    OBVIOUS
  <2>1. PICK m \in Stuck : \A k \in Stuck : m <= k
    <3>1. Stuck \in SUBSET Nat
      OBVIOUS
    <3>. HIDE DEF Stuck
    <3>. QED
      BY <3>1, Least
  <2>2. m # 0
    <3>. DEFINE none == [n \in 0 .. 0 |-> <<>>]
    <3>1. none \in [0 .. 0 -> Seq(S)]
      OBVIOUS
    <3>2. \A n \in 0 .. 0 : n = 0 /\ none[n] = <<>>
      OBVIOUS
    <3>3. \A n \in 0 .. 0 : none[n] = Body(none, n)
      BY <3>2, Zenon
    <3>4. Runs(0)
      <4>. HIDE DEF none, Body
      <4>. QED
        BY <3>1, <3>3
    <3>. HIDE DEF Runs
    <3>. QED
      BY <2>1, <3>4
  <2>3. Runs(m - 1)
    <3>. HIDE DEF Runs
    <3>1. m - 1 \in 0 .. N /\ ~(m <= m - 1)
      BY <2>1, <2>2
    <3>. QED
      BY <2>1, <3>1
  <2>4. PICK f \in [0 .. m - 1 -> Seq(S)] : \A n \in 0 .. m - 1 : f[n] = Body(f, n)
    BY <2>3
  <2>. DEFINE g == [n \in 0 .. m |-> IF n = m THEN Body(f, m) ELSE f[n]]
  <2>5. m \in 1 .. N /\ seqs[m] \in Seq(S) /\ f[m - 1] \in Seq(S)
    BY <2>1, <2>2, <2>4
  <2>6. Body(f, m) \in Seq(S)
    BY <2>5, <2>2
  <2>7. g \in [0 .. m -> Seq(S)]
    BY <2>6, <2>4, <2>5
  <2>8. \A n \in 0 .. m : g[n] = Body(g, n)
    <3>. TAKE n \in 0 .. m
    <3>1. n # 0 => n - 1 \in 0 .. m - 1 /\ g[n - 1] = f[n - 1]
      BY <2>5
    <3>2. Body(g, n) = Body(f, n)
      BY <3>1
    <3>3. CASE n = m
      BY <3>3, <3>2
    <3>4. CASE n # m
      <4>1. n \in 0 .. m - 1 /\ g[n] = f[n]
        BY <3>4, <2>5
      <4>2. f[n] = Body(f, n)
        BY <4>1, <2>4
      <4>. HIDE DEF g, Body
      <4>. QED
        BY <4>1, <4>2, <3>2
    <3>. QED
      BY <3>3, <3>4
  <2>9. Runs(m)
    BY <2>7, <2>8
  <2>. QED
    BY <2>9, <2>1
<1>2. PICK g \in [0 .. N -> Seq(S)] : \A n \in 0 .. N : g[n] = Body(g, n)
  <2>1. Runs(N)
    <3>. HIDE DEF Runs
    <3>1. N \in 0 .. N
      OBVIOUS
    <3>. QED
      BY <1>1, <3>1
  <2>. QED
    BY <2>1
<1>. DEFINE Solves(f) == f = [n \in 0 .. Len(seqs) |-> Body(f, n)]
            joined == CHOOSE f : Solves(f)
<1>3. Solves(g)
  BY <1>2
<1>4. Solves(joined)
  BY <1>3
<1>5. Joined(seqs) = joined[N]
  BY DEF Joined
<1>6. joined[N] = g[N]
  <2>. DEFINE Off == {n \in 0 .. N : joined[n] # g[n]}
  <2>0. Off \in SUBSET Nat
    <3>. HIDE DEF joined
    <3>. QED
      OBVIOUS
  <2>1. Off = {}
    <3>. SUFFICES ASSUME Off # {} PROVE FALSE
      OBVIOUS
    <3>1. PICK m \in Off : \A k \in Off : m <= k
      <4>. HIDE DEF Off
      <4>. QED
        BY <2>0, Least
    <3>. HIDE DEF joined
    <3>2. joined[m] = Body(joined, m) /\ g[m] = Body(g, m)
      BY <1>4, <1>2, <3>1
    <3>3. m # 0 => joined[m - 1] = g[m - 1]
      <4>. SUFFICES ASSUME m # 0 PROVE joined[m - 1] = g[m - 1]
        OBVIOUS
      <4>1. m - 1 \in 0 .. N /\ ~(m <= m - 1)
        BY <3>1
      <4>. QED
        BY <3>1, <4>1
    <3>4. Body(joined, m) = Body(g, m)
      BY <3>3
    <3>. HIDE DEF Body
    <3>. QED
      BY <3>1, <3>2, <3>4
  <2>2. N \in 0 .. N
    OBVIOUS
  <2>. HIDE DEF joined
  <2>. QED
    BY <2>1, <2>2
<1>7. g[0] = <<>>
  <2>1. 0 \in 0 .. N /\ Body(g, 0) = <<>>
    OBVIOUS
  <2>. HIDE DEF Body
  <2>. QED
    BY <1>2, <2>1
<1>8. \A n \in 1 .. N : g[n] = g[n - 1] \o seqs[n]
  <2>. TAKE n \in 1 .. N
  <2>1. n \in 0 .. N /\ n # 0
    OBVIOUS
  <2>2. g[n] = Body(g, n)
    <3>. HIDE DEF Body
    <3>. QED
      BY <1>2, <2>1
  <2>. QED
    BY <2>1, <2>2
<1>9. Joined(seqs) = g[N]
  <2>. HIDE DEF joined
  <2>. QED
    BY <1>5, <1>6
<1>. QED
  BY <1>2, <1>7, <1>8, <1>9, Zenon DEF JoinsBy

(***************************************************************************)
(* Lists of one kind, joined, make a list of that kind.                    *)
(***************************************************************************)
LEMMA JoinedType ==
  ASSUME NEW S, NEW seqs, NEW N \in Nat, Len(seqs) = N,
         \A n \in 1 .. N : seqs[n] \in Seq(S)
  PROVE  Joined(seqs) \in Seq(S)
<1>1. PICK f : JoinsBy(f, seqs, N, S)
  BY JoinedRuns
<1>. QED
  BY <1>1 DEF JoinsBy

(***************************************************************************)
(* The elements of two lists, one after the other.                         *)
(***************************************************************************)
LEMMA ConcatElements ==
  ASSUME NEW S, NEW a \in Seq(S), NEW b \in Seq(S)
  PROVE  ToSet(a \o b) = ToSet(a) \cup ToSet(b)
<1>1. /\ Len(a) \in Nat /\ Len(b) \in Nat /\ DOMAIN a = 1 .. Len(a) /\ DOMAIN b = 1 .. Len(b)
      /\ DOMAIN (a \o b) = 1 .. Len(a) + Len(b)
  OBVIOUS
<1>2. \A k \in 1 .. Len(a) : (a \o b)[k] = a[k] /\ k \in DOMAIN (a \o b)
  OBVIOUS
<1>3. \A k \in 1 .. Len(b) : (a \o b)[Len(a) + k] = b[k] /\ Len(a) + k \in DOMAIN (a \o b)
  OBVIOUS
<1>4. \A k \in DOMAIN (a \o b) : k \in 1 .. Len(a) \/ (k - Len(a) \in 1 .. Len(b)
                                                     /\ k = Len(a) + (k - Len(a)))
  BY <1>1
<1>. DEFINE ab == a \o b
<1>5. ASSUME NEW e \in ToSet(ab)
      PROVE  e \in ToSet(a) \cup ToSet(b)
  <2>1. PICK k \in DOMAIN ab : e = ab[k]
    BY DEF ToSet
  <2>2. CASE k \in 1 .. Len(a)
    BY <2>1, <2>2, <1>1, <1>2 DEF ToSet
  <2>3. CASE k \notin 1 .. Len(a)
    <3>1. k - Len(a) \in 1 .. Len(b) /\ e = b[k - Len(a)]
      <4>1. k - Len(a) \in 1 .. Len(b) /\ k = Len(a) + (k - Len(a))
        BY <1>4, <2>1, <2>3
      <4>2. ab[Len(a) + (k - Len(a))] = b[k - Len(a)]
        BY <4>1, <1>3
      <4>. HIDE DEF ab
      <4>. QED
        BY <2>1, <4>1, <4>2
    <3>. QED
      BY <3>1, <1>1 DEF ToSet
  <2>. QED
    BY <2>2, <2>3
<1>6. ASSUME NEW e \in ToSet(a)
      PROVE  e \in ToSet(ab)
  BY <1>1, <1>2 DEF ToSet
<1>7. ASSUME NEW e \in ToSet(b)
      PROVE  e \in ToSet(ab)
  <2>1. PICK k \in 1 .. Len(b) : e = b[k]
    BY <1>1 DEF ToSet
  <2>2. e = ab[Len(a) + k] /\ Len(a) + k \in DOMAIN ab
    BY <2>1, <1>3
  <2>. HIDE DEF ab
  <2>. QED
    BY <2>2 DEF ToSet
<1>. HIDE DEF ab
<1>8. ToSet(ab) = ToSet(a) \cup ToSet(b)
  BY <1>5, <1>6, <1>7
<1>. QED
  BY <1>8 DEF ab

(***************************************************************************)
(* A joined list has the elements of the lists.                            *)
(***************************************************************************)
LEMMA JoinedElements ==
  ASSUME NEW S, NEW seqs, NEW N \in Nat, Len(seqs) = N,
         \A n \in 1 .. N : seqs[n] \in Seq(S)
  PROVE  ToSet(Joined(seqs)) = UNION {ToSet(seqs[n]) : n \in 1 .. N}
<1>0. PICK f : JoinsBy(f, seqs, N, S)
  BY JoinedRuns
<1>1. /\ f \in [0 .. N -> Seq(S)]
      /\ f[0] = <<>> /\ Joined(seqs) = f[N]
      /\ \A n \in 1 .. N : f[n] = f[n - 1] \o seqs[n]
  BY <1>0 DEF JoinsBy
<1>. DEFINE Upto(m) == UNION {ToSet(seqs[n]) : n \in 1 .. m}
            Off == {m \in 0 .. N : ToSet(f[m]) # Upto(m)}
<1>2. Off = {}
  <2>. SUFFICES ASSUME Off # {} PROVE FALSE
    OBVIOUS
  <2>1. PICK m \in Off : \A k \in Off : m <= k
    <3>1. Off \in SUBSET Nat
      OBVIOUS
    <3>. HIDE DEF Off
    <3>. QED
      BY <3>1, Least
  <2>2. m # 0
    <3>1. Upto(0) = {}
      OBVIOUS
    <3>2. ToSet(f[0]) = {}
      BY <1>1 DEF ToSet
    <3>3. ToSet(f[m]) # Upto(m)
      BY <2>1
    <3>. HIDE DEF Upto
    <3>. QED
      BY <3>1, <3>2, <3>3, Zenon
  <2>3. m \in 1 .. N /\ m - 1 \in 0 .. N /\ m - 1 \notin Off
    <3>1. m \in 1 .. N /\ m - 1 \in 0 .. N /\ ~(m <= m - 1)
      BY <2>1, <2>2
    <3>. HIDE DEF Off
    <3>. QED
      BY <2>1, <3>1
  <2>4. ToSet(f[m - 1]) = Upto(m - 1)
    BY <2>3
  <2>5. f[m] = f[m - 1] \o seqs[m] /\ f[m - 1] \in Seq(S) /\ seqs[m] \in Seq(S)
    BY <1>1, <2>3
  <2>6. ToSet(f[m]) = ToSet(f[m - 1]) \cup ToSet(seqs[m])
    BY <2>5, ConcatElements
  <2>7. Upto(m) = Upto(m - 1) \cup ToSet(seqs[m])
    <3>1. \A n : n \in 1 .. m <=> (n \in 1 .. m - 1 \/ n = m)
      BY <2>3
    <3>. QED
      BY <3>1, Zenon
  <2>. QED
    BY <2>1, <2>4, <2>6, <2>7
<1>3. N \in 0 .. N
  OBVIOUS
<1>. QED
  BY <1>1, <1>2, <1>3

(***************************************************************************)
(* A rule is what its readers expect, however old its form; one that has   *)
(* that form is read as it is.                                             *)
(***************************************************************************)
LEMMA DeserializedType ==
  /\ \A r \in RouteRule \cup OldRule : Deserialized(r) \in RouteRule
  /\ \A r \in RouteRule : Deserialized(r) = r
<1>1. ASSUME NEW r \in RouteRule
      PROVE  Deserialized(r) = r
  BY DEF Deserialized, RouteRule
<1>2. ASSUME NEW r \in OldRule
      PROVE  Deserialized(r) \in RouteRule
  <2>1. /\ r.name \in STRING /\ r.enabled \in BOOLEAN /\ r.mode \in Modes
        /\ r.action \in Actions /\ r.conditions = <<>>
        /\ r.kind \in MatchKinds /\ r.values \in ValueSets
        /\ "kind" \in DOMAIN r
    BY DEF OldRule
  <2>2. <<[kind |-> r.kind, values |-> r.values]>> \in Seq(Condition)
    BY <2>1 DEF Condition
  <2>. QED
    BY <2>1, <2>2 DEF Deserialized, RouteRule
<1>. QED
  BY <1>1, <1>2

(***************************************************************************)
(* Settings that are read are those of a window, and those of a window are *)
(* read as they are.                                                       *)
(***************************************************************************)
LEMMA ReadType ==
  /\ \A db \in Tables : Read(db) \in Settings
  /\ \A s \in Settings : s \in Tables /\ Read(s) = s
<1>1. ASSUME NEW db \in Tables
      PROVE  Read(db) \in Settings
  <2>1. PICK rules \in Seq(RouteRule \cup OldRule) : rules = db.rules
    BY DEF Tables
  <2>2. [i \in DOMAIN rules |-> Deserialized(rules[i])] \in Seq(RouteRule)
    BY <2>1, DeserializedType
  <2>. QED
    BY <2>1, <2>2 DEF Read, Tables, Settings
<1>2. ASSUME NEW s \in Settings
      PROVE  s \in Tables /\ Read(s) = s
  <2>1. PICK rules \in Seq(RouteRule) : rules = s.rules
    BY DEF Settings
  <2>2. [i \in DOMAIN rules |-> Deserialized(rules[i])] = rules
    BY <2>1, DeserializedType
  <2>3. rules \in Seq(RouteRule \cup OldRule)
    BY <2>1
  <2>. QED
    BY <2>1, <2>2, <2>3 DEF Read, Tables, Settings
<1>. QED
  BY <1>1, <1>2

(***************************************************************************)
(* The rules of Throne become rules of the list.                           *)
(***************************************************************************)
LEMMA ImportedType ==
  ASSUME NEW throne \in Throne
  PROVE  Imported(throne) \in Seq(RouteRule)
<1>. DEFINE Foreign == [name : STRING, unsupported : BOOLEAN, action : STRING,
                        outbound_id : Int, conditions : Seq(Condition)]
<1>1. throne \in Seq(Foreign)
  BY SettingsWindowAssumption
<1>2. ASSUME NEW r \in Foreign
      PROVE  to_route_rule(r) \in Seq(RouteRule)
  <2>. DEFINE Given(c) == When(c.values # {}, <<c>>)
              given == [i \in DOMAIN r.conditions |-> Given(r.conditions[i])]
              conditions == Joined(given)
  <2>1. r.conditions \in Seq(Condition) /\ r.name \in STRING
    OBVIOUS
  <2>2. conditions \in Seq(Condition)
    <3>1. \A c \in Condition : Given(c) \in Seq(Condition)
      BY DEF When
    <3>2. PICK cs \in Seq(Condition) : cs = r.conditions
      BY <2>1
    <3>3. Len(given) = Len(cs) /\ Len(cs) \in Nat
      BY <3>2
    <3>4. \A n \in 1 .. Len(cs) : given[n] = Given(cs[n]) /\ cs[n] \in Condition
      BY <3>2
    <3>. HIDE DEF given, Given
    <3>. QED
      BY <3>1, <3>3, <3>4, JoinedType
  <2>3. route_action(r) \subseteq Actions
    BY DEF route_action, Actions
  <2>4. to_route_rule(r) =
          IF r.unsupported \/ route_action(r) = {} \/ conditions = <<>> THEN <<>>
          ELSE <<Rule(r.name, conditions, CHOOSE a \in route_action(r) : TRUE)>>
    BY DEF to_route_rule
  <2>5. route_action(r) # {} => (CHOOSE a \in route_action(r) : TRUE) \in Actions
    BY <2>3
  <2>6. \A a \in Actions : <<Rule(r.name, conditions, a)>> \in Seq(RouteRule)
    <3>. HIDE DEF conditions
    <3>. QED
      BY <2>1, <2>2 DEF Rule, RouteRule, Modes
  <2>. HIDE DEF conditions
  <2>. QED
    BY <2>4, <2>5, <2>6
<1>. DEFINE rules == [i \in DOMAIN throne |-> to_route_rule(throne[i])]
<1>3. Len(rules) = Len(throne) /\ Len(throne) \in Nat
  BY <1>1
<1>4. \A n \in 1 .. Len(throne) : rules[n] = to_route_rule(throne[n]) /\ throne[n] \in Foreign
  <2>. HIDE DEF Foreign
  <2>. QED
    BY <1>1
<1>5. \A n \in 1 .. Len(throne) : rules[n] \in Seq(RouteRule)
  BY <1>2, <1>4
<1>6. Imported(throne) = Joined(rules)
  BY DEF Imported
<1>. HIDE DEF rules
<1>. QED
  BY <1>3, <1>5, <1>6, JoinedType

-----------------------------------------------------------------------------
(* What the handlers share *)

(***************************************************************************)
(* Saving writes the settings of the window, or takes a failure.           *)
(***************************************************************************)
LEMMA SaveKeeps ==
  ASSUME TypeOK, NEW s \in Settings, Save(s)
  PROVE  /\ settings' = s /\ settings' \in Settings /\ database' \in Tables
         /\ faults' \in 0..MaxFaults
         /\ faults' = 0 => settings' = Read(database')
<1>1. settings' = s /\ s \in Tables /\ Read(s) = s
  BY ReadType DEF Save
<1>2. faults \in 0..MaxFaults /\ database \in Tables /\ MaxFaults \in Nat
  BY SettingsWindowAssumption DEF TypeOK
<1>3. CASE database' = s /\ UNCHANGED faults
  BY <1>1, <1>2, <1>3
<1>4. CASE Fault /\ UNCHANGED database
  BY <1>1, <1>2, <1>4 DEF Fault
<1>. QED
  BY <1>3, <1>4 DEF Save

(***************************************************************************)
(* A step is counted.                                                      *)
(***************************************************************************)
LEMMA StepCounts == TypeOK /\ Step => steps' \in 0..MaxSteps
BY SettingsWindowAssumption DEF TypeOK, Step

(***************************************************************************)
(* Where neither the dialogs nor the rules change, no dialog goes stale.   *)
(***************************************************************************)
LEMMA StillKeeps ==
  ASSUME StackInv, FreshUnlessCovered,
         app' = app, dialogs' = dialogs, settings'.rules = settings.rules
  PROVE  StackInv' /\ FreshUnlessCovered'
BY DEF StackInv, FreshUnlessCovered

(***************************************************************************)
(* Nor where no dialog is left.                                            *)
(***************************************************************************)
LEMMA NoneKeeps ==
  ASSUME dialogs' = <<>>
  PROVE  StackInv' /\ FreshUnlessCovered' /\ dialogs' \in Seq(Dialogs)
BY DEF StackInv, FreshUnlessCovered

(***************************************************************************)
(* The dialogs below the top one keep what they are when it is closed.     *)
(***************************************************************************)
LEMMA CloseKeeps ==
  ASSUME TypeOK, StackInv, FreshUnlessCovered, app = "up", app' = app,
         dialogs # <<>>, dialogs' = Front(dialogs), settings'.rules = settings.rules
  PROVE  StackInv' /\ FreshUnlessCovered' /\ dialogs' \in Seq(Dialogs)
<1>1. dialogs \in Seq(Dialogs) /\ dialogs' = SubSeq(dialogs, 1, Len(dialogs) - 1)
  BY DEF TypeOK, Front
<1>2. /\ dialogs' \in Seq(Dialogs) /\ Len(dialogs) \in Nat
      /\ \A n \in DOMAIN dialogs' : n \in DOMAIN dialogs /\ dialogs'[n] = dialogs[n]
      /\ \A n \in DOMAIN dialogs' : n > 1 => n - 1 \in DOMAIN dialogs'
  BY <1>1
<1>3. StackInv'
  BY <1>2 DEF StackInv, Listing
<1>4. FreshUnlessCovered'
  BY <1>2 DEF FreshUnlessCovered
<1>. QED
  BY <1>2, <1>3, <1>4

(***************************************************************************)
(* Filling a list again, with whatever stood on it closed, shows the rules *)
(* as they have become; the dialogs below it had been covered by it.       *)
(***************************************************************************)
LEMMA RebuiltKeeps ==
  ASSUME TypeOK, StackInv, app = "up", app' = app,
         NEW p \in DOMAIN dialogs, dialogs[p].k = "routes",
         settings'.rules \in Seq(RouteRule),
         dialogs' = Rebuilt(SubSeq(dialogs, 1, p), p, settings'.rules)
  PROVE  StackInv' /\ FreshUnlessCovered' /\ dialogs' \in Seq(Dialogs)
<1>1. PICK ds \in Seq(Dialogs) : ds = dialogs
  BY DEF TypeOK
<1>2. PICK l : l = List(settings'.rules)
  OBVIOUS
<1>3. l \in Dialogs /\ l.k = "routes" /\ l.rows = settings'.rules /\ l.under = FALSE
  BY <1>2 DEF List, Dialogs
<1>4. p \in 1 .. Len(ds) /\ dialogs' = [SubSeq(ds, 1, p) EXCEPT ![p] = l]
  BY <1>1, <1>2 DEF Rebuilt
<1>5. /\ dialogs' \in Seq(Dialogs) /\ DOMAIN dialogs' = 1 .. p
      /\ dialogs'[p] = l
      /\ \A n \in 1 .. p - 1 : n \in DOMAIN dialogs /\ dialogs'[n] = dialogs[n]
  <2>0. 1 \in 1 .. Len(ds) + 1 /\ p \in 0 .. Len(ds) /\ Len(ds) \in Nat
    BY <1>1, <1>4
  <2>1. PICK part \in Seq(Dialogs) : part = SubSeq(ds, 1, p)
    <3>1. \A n \in 1 .. p : ds[n] \in Dialogs
      BY <2>0
    <3>2. SubSeq(ds, 1, p) \in Seq(Dialogs)
      BY <2>0, <3>1, SubSeqProperties
    <3>. QED
      BY <3>2
  <2>2. Len(part) = p /\ DOMAIN part = 1 .. p /\ \A n \in 1 .. p : part[n] = ds[n]
    BY <2>0, <2>1
  <2>3. dialogs' = [part EXCEPT ![p] = l]
    BY <2>1, <1>4
  <2>4. dialogs' \in Seq(Dialogs) /\ DOMAIN dialogs' = 1 .. p /\ dialogs'[p] = l
    <3>1. p \in 1 .. Len(part) /\ l \in Dialogs
      BY <2>0, <2>2, <1>3, <1>4
    <3>2. [part EXCEPT ![p] = l] \in Seq(Dialogs) /\ Len([part EXCEPT ![p] = l]) = Len(part)
      BY <3>1, ExceptSeq
    <3>. QED
      BY <2>2, <2>3, <3>1, <3>2
  <2>5. \A n \in 1 .. p - 1 : n \in DOMAIN dialogs /\ dialogs'[n] = dialogs[n]
    <3>. TAKE n \in 1 .. p - 1
    <3>1. n \in 1 .. p /\ n # p /\ n \in 1 .. Len(ds)
      BY <2>0
    <3>2. dialogs'[n] = part[n]
      BY <2>2, <2>3, <3>1
    <3>. QED
      BY <2>2, <3>1, <3>2, <1>1
  <2>. QED
    BY <2>4, <2>5
<1>6. \A n \in 1 .. p - 1 : Listing(dialogs[n]) => dialogs[n].under
  BY <1>1, <1>4 DEF StackInv
<1>7. StackInv'
  <2>1. ASSUME NEW n \in DOMAIN dialogs', dialogs'[n].k = "rule"
        PROVE  n > 1 /\ dialogs'[n - 1].k = "routes" /\ dialogs'[n].under = dialogs'[n - 1].under
    <3>1. n \in 1 .. p - 1 /\ dialogs[n].k = "rule"
      BY <1>1, <1>3, <1>4, <1>5, <2>1
    <3>2. n > 1 /\ dialogs[n - 1].k = "routes" /\ dialogs[n].under = dialogs[n - 1].under
      BY <3>1, <1>5 DEF StackInv
    <3>3. n - 1 \in 1 .. p - 1
      BY <3>1, <3>2, <1>1, <1>4
    <3>4. dialogs'[n] = dialogs[n] /\ dialogs'[n - 1] = dialogs[n - 1]
      BY <3>1, <3>3, <1>5
    <3>. QED
      BY <3>2, <3>4
  <2>2. ASSUME NEW m \in DOMAIN dialogs', NEW n \in DOMAIN dialogs',
               n < m, Listing(dialogs'[n])
        PROVE  dialogs'[n].under
    BY <2>2, <1>1, <1>4, <1>5, <1>6
  <2>. QED
    BY <2>1, <2>2 DEF StackInv
<1>8. FreshUnlessCovered'
  <2>1. ASSUME NEW n \in DOMAIN dialogs', n # p, Listing(dialogs'[n])
        PROVE  dialogs'[n].under
    <3>1. n \in 1 .. p - 1
      BY <2>1, <1>1, <1>4, <1>5
    <3>2. dialogs'[n] = dialogs[n]
      BY <3>1, <1>5
    <3>. QED
      BY <2>1, <3>1, <3>2, <1>6
  <2>. QED
    BY <2>1, <1>3, <1>5 DEF FreshUnlessCovered, Fresh, Listing
<1>. QED
  BY <1>5, <1>7, <1>8

(***************************************************************************)
(* A dialog that shows the rules of the window, or says that it may not,   *)
(* is presented over the others.                                           *)
(***************************************************************************)
LEMMA PresentKeeps ==
  ASSUME WindowInv, NEW d \in Dialogs, Present(d),
         d.k = "routes" => d.rows = settings.rules /\ d.under = FALSE,
         d.k = "rule" => /\ TopIs("routes") /\ d.under = Top.under
                         /\ ~d.under /\ d.index > 0 =>
                                InRules(d.index) /\ settings.rules[d.index] = d.was
  PROVE  WindowInv'
<1>1. PICK ds \in Seq(Dialogs) : ds = dialogs
  BY DEF WindowInv, TypeOK
<1>2. PICK under \in Seq(Dialogs) :
         /\ under = IF d.k = "routes" THEN [i \in DOMAIN dialogs |-> Covered(dialogs[i])] ELSE dialogs
         /\ Len(under) = Len(ds)
         /\ \A i \in 1 .. Len(ds) : under[i] = IF d.k = "routes" THEN Covered(ds[i]) ELSE ds[i]
  <2>1. \A e \in Dialogs : Covered(e) \in Dialogs
    BY DEF Covered, Listing, Dialogs
  <2>. DEFINE covered == [i \in DOMAIN dialogs |-> Covered(dialogs[i])]
  <2>2. /\ covered \in Seq(Dialogs) /\ Len(covered) = Len(ds)
        /\ \A i \in 1 .. Len(ds) : covered[i] = Covered(ds[i])
    BY <1>1, <2>1
  <2>. HIDE DEF covered
  <2>3. ASSUME d.k = "routes"
        PROVE  /\ covered = IF d.k = "routes" THEN covered ELSE dialogs
               /\ \A i \in 1 .. Len(ds) :
                     covered[i] = IF d.k = "routes" THEN Covered(ds[i]) ELSE ds[i]
    BY <2>2, <2>3
  <2>4. ASSUME d.k # "routes"
        PROVE  /\ dialogs = IF d.k = "routes" THEN covered ELSE dialogs
               /\ \A i \in 1 .. Len(ds) :
                     dialogs[i] = IF d.k = "routes" THEN Covered(ds[i]) ELSE ds[i]
    BY <1>1, <2>4
  <2>5. /\ dialogs \in Seq(Dialogs) /\ Len(dialogs) = Len(ds)
        /\ covered = [i \in DOMAIN dialogs |-> Covered(dialogs[i])]
    BY <1>1 DEF covered
  <2>. QED
    BY <2>2, <2>3, <2>4, <2>5, Zenon
<1>3. /\ dialogs' = Append(under, d) /\ app' = app /\ settings' = settings
      /\ app = "up" /\ database' = database /\ faults' = faults /\ Step
  BY <1>2 DEF Present
<1>4. /\ dialogs' \in Seq(Dialogs) /\ DOMAIN dialogs' = 1 .. Len(ds) + 1
      /\ dialogs'[Len(ds) + 1] = d /\ Len(ds) \in Nat
      /\ \A n \in 1 .. Len(ds) : dialogs'[n] = under[n]
  BY <1>1, <1>2, <1>3
<1>5. \A e \in Dialogs : /\ Covered(e).k = e.k
                         /\ Listing(e) => Covered(e).under = TRUE
  BY DEF Covered, Listing, Dialogs
<1>6. \A n \in 1 .. Len(ds) : dialogs'[n].k = dialogs[n].k
  <2>. TAKE n \in 1 .. Len(ds)
  <2>1. ds[n] \in Dialogs
    BY <1>1
  <2>2. dialogs'[n] = under[n]
    BY <1>4
  <2>3. under[n] = IF d.k = "routes" THEN Covered(ds[n]) ELSE ds[n]
    BY <1>2, Zenon
  <2>. QED
    BY <2>1, <2>2, <2>3, <1>1, <1>5
<1>7. \A n \in 1 .. Len(ds) : d.k = "routes" /\ Listing(dialogs[n]) => dialogs'[n].under = TRUE
  <2>. TAKE n \in 1 .. Len(ds)
  <2>1. ds[n] \in Dialogs
    BY <1>1
  <2>2. dialogs'[n] = under[n]
    BY <1>4
  <2>3. under[n] = IF d.k = "routes" THEN Covered(ds[n]) ELSE ds[n]
    BY <1>2, Zenon
  <2>. QED
    BY <2>1, <2>2, <2>3, <1>1, <1>5
<1>8. \A n \in 1 .. Len(ds) : d.k # "routes" => dialogs'[n] = dialogs[n]
  BY <1>1, <1>2, <1>4
<1>9. StackInv'
  <2>1. ASSUME NEW n \in DOMAIN dialogs', dialogs'[n].k = "rule"
        PROVE  n > 1 /\ dialogs'[n - 1].k = "routes" /\ dialogs'[n].under = dialogs'[n - 1].under
    <3>1. CASE n = Len(ds) + 1
      <4>1. /\ d.k = "rule" /\ ds # <<>> /\ ds[Len(ds)].k = "routes"
            /\ d.under = ds[Len(ds)].under
        BY <3>1, <2>1, <1>1, <1>4 DEF TopIs, Top, Last
      <4>. QED
        BY <4>1, <3>1, <1>1, <1>4, <1>8
    <3>2. CASE n \in 1 .. Len(ds)
      <4>1. /\ n > 1 /\ n - 1 \in 1 .. Len(ds) /\ dialogs[n].k = "rule"
            /\ dialogs[n - 1].k = "routes" /\ dialogs[n].under = dialogs[n - 1].under
        BY <3>2, <2>1, <1>1, <1>6 DEF WindowInv, StackInv
      <4>2. dialogs'[n - 1].k = "routes"
        BY <4>1, <1>6
      <4>3. dialogs'[n].under = dialogs'[n - 1].under
        BY <4>1, <3>2, <1>7, <1>8 DEF Listing
      <4>. QED
        BY <4>1, <4>2, <4>3
    <3>. QED
      BY <3>1, <3>2, <1>4
  <2>2. ASSUME NEW m \in DOMAIN dialogs', NEW n \in DOMAIN dialogs', n < m,
               dialogs'[m].k = "routes", Listing(dialogs'[n])
        PROVE  dialogs'[n].under
    <3>1. n \in 1 .. Len(ds) /\ Listing(dialogs[n])
      BY <2>2, <1>4, <1>6 DEF Listing
    <3>2. CASE d.k = "routes"
      BY <3>1, <3>2, <1>7
    <3>3. CASE d.k # "routes"
      <4>1. m \in 1 .. Len(ds) /\ dialogs[m].k = "routes"
        BY <3>3, <2>2, <1>4, <1>6
      <4>2. dialogs[n].under
        BY <4>1, <3>1, <2>2, <1>1 DEF WindowInv, StackInv
      <4>. QED
        BY <4>2, <3>1, <3>3, <1>8
    <3>. QED
      BY <3>2, <3>3
  <2>. QED
    BY <2>1, <2>2, <1>3 DEF StackInv
<1>10. FreshUnlessCovered'
  <2>1. ASSUME NEW n \in DOMAIN dialogs'
        PROVE  Fresh(dialogs'[n], settings.rules)
    <3>1. CASE n = Len(ds) + 1
      <4>1. Fresh(d, settings.rules)
        BY DEF Fresh, InRules
      <4>. QED
        BY <3>1, <4>1, <1>4
    <3>2. CASE n \in 1 .. Len(ds)
      <4>1. CASE d.k # "routes"
        <5>1. n \in DOMAIN dialogs /\ dialogs'[n] = dialogs[n]
          BY <4>1, <3>2, <1>1, <1>8
        <5>. QED
          BY <5>1 DEF WindowInv, FreshUnlessCovered
      <4>2. CASE Listing(dialogs[n]) /\ d.k = "routes"
        BY <4>2, <3>2, <1>7 DEF Fresh
      <4>3. CASE ~Listing(dialogs[n])
        BY <4>3, <3>2, <1>6 DEF Listing, Fresh
      <4>. QED
        BY <4>1, <4>2, <4>3
    <3>. QED
      BY <3>1, <3>2, <1>4
  <2>. QED
    BY <2>1, <1>3 DEF FreshUnlessCovered
<1>11. TypeOK'
  BY <1>3, <1>4, StepCounts DEF WindowInv, TypeOK
<1>12. SavedIsShown'
  BY <1>3 DEF WindowInv, SavedIsShown, Read
<1>. QED
  BY <1>9, <1>10, <1>11, <1>12 DEF WindowInv

(***************************************************************************)
(* A handler that saves and leaves dialogs and rules alone.                *)
(***************************************************************************)
LEMMA SaveAside ==
  ASSUME WindowInv, NEW s \in Settings, s.rules = settings.rules, Save(s),
         Step \/ UNCHANGED steps, UNCHANGED <<app, dialogs>>
  PROVE  WindowInv'
<1>1. /\ settings' = s /\ settings' \in Settings /\ database' \in Tables
      /\ faults' \in 0..MaxFaults
      /\ faults' = 0 => settings' = Read(database')
  BY SaveKeeps DEF WindowInv
<1>2. StackInv' /\ FreshUnlessCovered'
  BY <1>1, StillKeeps DEF WindowInv
<1>3. TypeOK'
  <2>1. steps' \in 0..MaxSteps
    BY StepCounts DEF WindowInv, TypeOK
  <2>. QED
    BY <1>1, <2>1 DEF WindowInv, TypeOK
<1>4. SavedIsShown'
  BY <1>1 DEF SavedIsShown
<1>. QED
  BY <1>2, <1>3, <1>4 DEF WindowInv

(***************************************************************************)
(* A handler of the list, which saves changed rules and fills it again.    *)
(***************************************************************************)
LEMMA FillKeeps ==
  ASSUME WindowInv, TopIs("routes"), Step, NEW rules \in Seq(RouteRule), FillWith(rules)
  PROVE  WindowInv'
<1>1. Rules(rules) \in Settings /\ Rules(rules).rules = rules
  BY DEF WindowInv, TypeOK, Rules, Settings
<1>2. /\ settings' = Rules(rules) /\ settings' \in Settings /\ database' \in Tables
      /\ faults' \in 0..MaxFaults
      /\ faults' = 0 => settings' = Read(database')
  BY <1>1, SaveKeeps DEF WindowInv, FillWith
<1>3. PICK ds \in Seq(Dialogs) : ds = dialogs
  BY DEF WindowInv, TypeOK
<1>4. /\ Len(dialogs) \in DOMAIN dialogs /\ dialogs[Len(dialogs)].k = "routes"
      /\ SubSeq(dialogs, 1, Len(dialogs)) = dialogs
  BY <1>3 DEF TopIs, Top, Last
<1>5. StackInv' /\ FreshUnlessCovered' /\ dialogs' \in Seq(Dialogs)
  <2>1. dialogs' = Rebuilt(SubSeq(dialogs, 1, Len(dialogs)), Len(dialogs), settings'.rules)
    BY <1>1, <1>2, <1>4 DEF FillWith
  <2>. QED
    BY <2>1, <1>1, <1>2, <1>4, RebuiltKeeps DEF WindowInv, FillWith, TopIs
<1>6. TypeOK'
  <2>1. steps' \in 0..MaxSteps /\ app' = app
    BY StepCounts DEF WindowInv, FillWith
  <2>. QED
    BY <1>2, <1>5, <2>1 DEF WindowInv, TypeOK
<1>7. SavedIsShown'
  BY <1>2 DEF SavedIsShown
<1>. QED
  BY <1>5, <1>6, <1>7 DEF WindowInv

(***************************************************************************)
(* What a row makes of the rules is a list of rules, whatever place it     *)
(* has.                                                                    *)
(***************************************************************************)
LEMMA RowsGiveRules ==
  ASSUME TypeOK, NEW i
  PROVE  /\ \A j : Swapped(i, j) \in Seq(RouteRule)
         /\ \A on \in BOOLEAN :
               (IF InRules(i) THEN [settings.rules EXCEPT ![i].enabled = on] ELSE settings.rules)
                  \in Seq(RouteRule)
         /\ (IF InRules(i) THEN RemoveAt(settings.rules, i) ELSE settings.rules) \in Seq(RouteRule)
         /\ \A r \in RouteRule :
               /\ Append(settings.rules, r) \in Seq(RouteRule)
               /\ InRules(i) => [settings.rules EXCEPT ![i] = r] \in Seq(RouteRule)
<1>1. PICK rules \in Seq(RouteRule) : rules = settings.rules
  BY DEF TypeOK, Settings
<1>2. \A k \in DOMAIN rules : k \in 1 .. Len(rules) /\ rules[k] \in RouteRule
  BY <1>1
<1>3. \A k \in DOMAIN rules, r \in RouteRule : [rules EXCEPT ![k] = r] \in Seq(RouteRule)
  BY <1>2, ExceptSeq
<1>4. ASSUME NEW j
      PROVE  Swapped(i, j) \in Seq(RouteRule)
  <2>1. CASE InRules(i) /\ InRules(j)
    <3>1. [rules EXCEPT ![i] = rules[j]] \in Seq(RouteRule)
      BY <2>1, <1>1, <1>2, <1>3 DEF InRules
    <3>2. PICK once \in Seq(RouteRule) : once = [rules EXCEPT ![i] = rules[j]]
      BY <3>1
    <3>3. DOMAIN once = DOMAIN rules
      BY <3>2
    <3>4. j \in 1 .. Len(once) /\ rules[i] \in RouteRule
      BY <3>3, <2>1, <1>1, <1>2 DEF InRules
    <3>5. [once EXCEPT ![j] = rules[i]] \in Seq(RouteRule)
      BY <3>4, ExceptSeq
    <3>. QED
      BY <3>2, <3>5, <2>1, <1>1 DEF Swapped
  <2>2. CASE ~(InRules(i) /\ InRules(j))
    BY <2>2, <1>1 DEF Swapped
  <2>. QED
    BY <2>1, <2>2
<1>5. ASSUME NEW on \in BOOLEAN, InRules(i)
      PROVE  [settings.rules EXCEPT ![i].enabled = on] \in Seq(RouteRule)
  <2>1. [rules[i] EXCEPT !.enabled = on] \in RouteRule
    BY <1>5, <1>1, <1>2 DEF InRules, RouteRule
  <2>. QED
    BY <2>1, <1>5, <1>1, <1>3 DEF InRules
<1>6. ASSUME InRules(i)
      PROVE  RemoveAt(settings.rules, i) \in Seq(RouteRule)
  <2>1. i \in 1 .. Len(rules) /\ Len(rules) \in Nat
    BY <1>6, <1>1, <1>2 DEF InRules
  <2>2. SubSeq(rules, 1, i - 1) \in Seq(RouteRule)
    <3>1. \A k \in 1 .. i - 1 : rules[k] \in RouteRule
      BY <2>1, <1>2
    <3>. QED
      BY <3>1, <2>1, SubSeqProperties
  <2>3. SubSeq(rules, i + 1, Len(rules)) \in Seq(RouteRule)
    <3>1. \A k \in i + 1 .. Len(rules) : rules[k] \in RouteRule
      BY <2>1, <1>2
    <3>. QED
      BY <3>1, <2>1, SubSeqProperties
  <2>. QED
    BY <2>2, <2>3, <1>1 DEF RemoveAt
<1>. QED
  BY <1>1, <1>3, <1>4, <1>5, <1>6 DEF InRules

(***************************************************************************)
(* The dialog on top, where it is an editor, holds rules.                  *)
(***************************************************************************)
LEMMA EditorType ==
  ASSUME TypeOK, TopIs("rule")
  PROVE  /\ Len(dialogs) \in DOMAIN dialogs /\ Top = dialogs[Len(dialogs)] /\ Top \in Dialogs
         /\ Top.k = "rule" /\ Top.index \in Nat /\ Draft \in RouteRule
         /\ Edited \in RouteRule
<1>1. PICK ds \in Seq(Dialogs) : ds = dialogs
  BY DEF TypeOK
<1>2. /\ Len(dialogs) \in DOMAIN dialogs /\ Top = dialogs[Len(dialogs)] /\ Top \in Dialogs
      /\ Top.k = "rule"
  BY <1>1 DEF TopIs, Top, Last
<1>3. Top.index \in Nat /\ Draft \in RouteRule
  BY <1>2 DEF Draft, Dialogs
<1>4. PICK r \in RouteRule : r = Draft
  BY <1>3
<1>. DEFINE Trimmed(c) == When(Kept(c.values) # {}, <<[c EXCEPT !.values = Kept(@)]>>)
            trimmed == [i \in DOMAIN r.conditions |-> Trimmed(r.conditions[i])]
<1>5. \A c \in Condition : Trimmed(c) \in Seq(Condition)
  <2>1. ASSUME NEW c \in Condition
        PROVE  [c EXCEPT !.values = Kept(@)] \in Condition
    <3>1. c.values \in ValueSets
      BY DEF Condition
    <3>2. Kept(c.values) \in ValueSets
      BY <3>1, KeptIsFinite
    <3>. QED
      BY <3>2 DEF Condition
  <2>. QED
    BY <2>1 DEF When
<1>6. PICK cs \in Seq(Condition) : cs = r.conditions
  BY DEF RouteRule
<1>7. Len(trimmed) = Len(cs) /\ Len(cs) \in Nat
  BY <1>6
<1>8. \A n \in 1 .. Len(cs) : trimmed[n] = Trimmed(cs[n]) /\ cs[n] \in Condition
  <2>. HIDE DEF Trimmed
  <2>. QED
    BY <1>6
<1>9. \A n \in 1 .. Len(cs) : trimmed[n] \in Seq(Condition)
  <2>. HIDE DEF trimmed, Trimmed
  <2>. QED
    BY <1>5, <1>8
<1>10. Joined(trimmed) \in Seq(Condition)
  <2>. HIDE DEF trimmed
  <2>. QED
    BY <1>7, <1>9, JoinedType
<1>11. Edited = [r EXCEPT !.enabled = TRUE, !.conditions = Joined(trimmed)]
  BY <1>4 DEF Edited
<1>12. Edited \in RouteRule
  <2>. HIDE DEF trimmed
  <2>. QED
    BY <1>10, <1>11 DEF RouteRule
<1>. QED
  BY <1>2, <1>3, <1>12

(***************************************************************************)
(* A list stands right below the editor.                                   *)
(***************************************************************************)
LEMMA EditorOnList ==
  ASSUME WindowInv, TopIs("rule")
  PROVE  /\ Len(dialogs) - 1 \in DOMAIN dialogs
         /\ dialogs[Len(dialogs) - 1].k = "routes"
         /\ Front(dialogs) = SubSeq(dialogs, 1, Len(dialogs) - 1)
<1>1. PICK ds \in Seq(Dialogs) : ds = dialogs
  BY DEF WindowInv, TypeOK
<1>2. Len(dialogs) \in DOMAIN dialogs /\ dialogs[Len(dialogs)].k = "rule"
  BY EditorType DEF WindowInv
<1>3. Len(dialogs) > 1 /\ dialogs[Len(dialogs) - 1].k = "routes"
  BY <1>2 DEF WindowInv, StackInv
<1>. QED
  BY <1>1, <1>2, <1>3 DEF Front

-----------------------------------------------------------------------------
(* The steps *)

(***************************************************************************)
(* What an import adds to a database.                                      *)
(***************************************************************************)
LEMMA WithImportedReads ==
  ASSUME NEW db \in Tables, NEW throne \in Throne
  PROVE  /\ WithImported(db, throne) \in Settings /\ WithImported(db, throne) \in Tables
         /\ WithImported(db, throne) = Read(WithImported(db, throne))
         /\ WithImported(db, throne).rules = Read(db).rules \o Imported(throne)
<1>1. Read(db) \in Settings /\ Imported(throne) \in Seq(RouteRule)
  BY ReadType, ImportedType
<1>2. PICK old \in Seq(RouteRule) : old = Read(db).rules
  BY <1>1 DEF Settings
<1>3. old \o Imported(throne) \in Seq(RouteRule)
  BY <1>1
<1>4. /\ WithImported(db, throne) \in Settings
      /\ WithImported(db, throne).rules = Read(db).rules \o Imported(throne)
  <2>. HIDE DEF WithImported
  <2>1. WithImported(db, throne) = [Read(db) EXCEPT !.rules = old \o Imported(throne)]
    BY <1>2 DEF WithImported
  <2>. QED
    BY <2>1, <1>1, <1>2, <1>3 DEF Settings
<1>. QED
  BY <1>4, ReadType

(***************************************************************************)
(* The database after an import, and how the window reads it.              *)
(***************************************************************************)
LEMMA ImportReads ==
  ASSUME NEW db \in Tables, NEW throne \in Throne
  PROVE  /\ AfterImport(db, throne) \in Tables
         /\ Read(AfterImport(db, throne)) \in Settings
BY WithImportedReads, ReadType DEF AfterImport

(***************************************************************************)
(* The import of the list.                                                 *)
(***************************************************************************)
LEMMA ImportRoutesKeeps ==
  ASSUME WindowInv, NEW throne \in Throne, ImportRoutes(throne)
  PROVE  WindowInv'
<1>. DEFINE after == AfterImport(database, throne)
<1>1. database \in Tables /\ after \in Tables /\ Read(after) \in Settings
  BY ImportReads DEF WindowInv, TypeOK
<1>. HIDE DEF after
<1>2. steps' \in 0..MaxSteps /\ app' = app /\ app = "up"
  BY StepCounts DEF WindowInv, ImportRoutes, TopIs
<1>3. CASE Fault /\ database' \in {database, after} /\ UNCHANGED <<settings, dialogs>>
  <2>1. faults' \in 0..MaxFaults /\ faults' # 0
    BY <1>3, SettingsWindowAssumption DEF Fault, WindowInv, TypeOK
  <2>2. StackInv' /\ FreshUnlessCovered'
    BY <1>2, <1>3, StillKeeps DEF WindowInv
  <2>3. TypeOK'
    BY <1>1, <1>2, <1>3, <2>1 DEF WindowInv, TypeOK
  <2>. QED
    BY <2>1, <2>2, <2>3 DEF WindowInv, SavedIsShown
<1>4. CASE /\ database' = after /\ settings' = Read(database') /\ UNCHANGED faults
           /\ dialogs' = Rebuilt(dialogs, Len(dialogs), settings'.rules)
  <2>1. settings' = Read(after) /\ settings' \in Settings /\ settings'.rules \in Seq(RouteRule)
    BY <1>1, <1>4 DEF Settings
  <2>2. PICK ds \in Seq(Dialogs) : ds = dialogs
    BY DEF WindowInv, TypeOK
  <2>3. TopIs("routes")
    BY DEF ImportRoutes
  <2>4. /\ Len(dialogs) \in DOMAIN dialogs /\ dialogs[Len(dialogs)].k = "routes"
        /\ SubSeq(dialogs, 1, Len(dialogs)) = dialogs
    BY <2>2, <2>3 DEF TopIs, Top, Last
  <2>5. StackInv' /\ FreshUnlessCovered' /\ dialogs' \in Seq(Dialogs)
    <3>1. dialogs' = Rebuilt(SubSeq(dialogs, 1, Len(dialogs)), Len(dialogs), settings'.rules)
      BY <1>4, <2>4
    <3>. QED
      BY <3>1, <2>1, <2>4, <1>2, RebuiltKeeps DEF WindowInv
  <2>6. TypeOK'
    BY <1>1, <1>2, <1>4, <2>1, <2>5 DEF WindowInv, TypeOK
  <2>7. SavedIsShown'
    BY <1>1, <1>4 DEF SavedIsShown
  <2>. QED
    BY <2>5, <2>6, <2>7 DEF WindowInv
<1>. QED
  BY <1>3, <1>4 DEF ImportRoutes, after

(***************************************************************************)
(* The import of everything.                                               *)
(***************************************************************************)
LEMMA ImportEverythingKeeps ==
  ASSUME WindowInv, NEW throne \in Throne, ImportEverything(throne)
  PROVE  WindowInv'
<1>. DEFINE after == AfterImport(database, throne)
<1>1. database \in Tables /\ after \in Tables /\ Read(after) \in Settings
  BY ImportReads DEF WindowInv, TypeOK
<1>. HIDE DEF after
<1>2. steps' \in 0..MaxSteps /\ app' = app /\ dialogs' = dialogs /\ dialogs = <<>>
  BY StepCounts DEF WindowInv, ImportEverything
<1>3. StackInv' /\ FreshUnlessCovered' /\ dialogs' \in Seq(Dialogs)
  BY <1>2, NoneKeeps
<1>4. CASE Fault /\ database' \in {database, after} /\ UNCHANGED settings
  <2>1. faults' \in 0..MaxFaults /\ faults' # 0 /\ database' \in Tables
    BY <1>1, <1>4, SettingsWindowAssumption DEF Fault, WindowInv, TypeOK
  <2>2. TypeOK'
    BY <1>2, <1>3, <1>4, <2>1 DEF WindowInv, TypeOK
  <2>. QED
    BY <1>3, <2>1, <2>2 DEF WindowInv, SavedIsShown
<1>5. CASE database' = after /\ settings' = Read(database') /\ UNCHANGED faults
  <2>1. TypeOK'
    BY <1>1, <1>2, <1>3, <1>5 DEF WindowInv, TypeOK
  <2>2. SavedIsShown'
    BY <1>1, <1>5 DEF SavedIsShown
  <2>. QED
    BY <1>3, <2>1, <2>2 DEF WindowInv
<1>. QED
  BY <1>4, <1>5 DEF ImportEverything, after

(***************************************************************************)
(* A change in the editor.                                                 *)
(***************************************************************************)
LEMMA RedraftKeeps ==
  ASSUME WindowInv, NEW r \in RouteRule, Redraft(r)
  PROVE  WindowInv'
<1>1. PICK ds \in Seq(Dialogs) : ds = dialogs
  BY DEF WindowInv, TypeOK
<1>2. PICK top \in Dialogs : top = [dialogs[Len(dialogs)] EXCEPT !.draft = r]
  BY EditorType DEF Redraft, Dialogs, WindowInv
<1>3. /\ top.k = dialogs[Len(dialogs)].k /\ top.k = "rule"
      /\ top.under = dialogs[Len(dialogs)].under /\ top.under \in BOOLEAN
      /\ top.index = dialogs[Len(dialogs)].index /\ top.was = dialogs[Len(dialogs)].was
  BY <1>2, EditorType DEF Redraft, Dialogs, WindowInv
<1>4. Len(ds) \in 1 .. Len(ds) /\ dialogs' = [ds EXCEPT ![Len(ds)] = top]
  BY <1>1, <1>2, EditorType DEF Redraft, WindowInv
<1>5. /\ dialogs' \in Seq(Dialogs) /\ DOMAIN dialogs' = DOMAIN dialogs
      /\ \A n \in DOMAIN dialogs : dialogs'[n] = IF n = Len(ds) THEN top ELSE dialogs[n]
  BY <1>1, <1>4, ExceptSeq
<1>6. \A n \in DOMAIN dialogs : /\ dialogs'[n].k = dialogs[n].k
                               /\ dialogs'[n].under = dialogs[n].under
  BY <1>1, <1>3, <1>5
<1>7. app' = app /\ settings' = settings /\ database' = database /\ faults' = faults
  BY DEF Redraft
<1>8. StackInv'
  <2>1. \A n \in DOMAIN dialogs : n > 1 => n - 1 \in DOMAIN dialogs
    BY <1>1
  <2>2. app' = "up"
    BY <1>7 DEF Redraft, TopIs
  <2>3. ASSUME NEW n \in DOMAIN dialogs', dialogs'[n].k = "rule"
        PROVE  n > 1 /\ dialogs'[n - 1].k = "routes" /\ dialogs'[n].under = dialogs'[n - 1].under
    <3>1. n > 1 /\ dialogs[n - 1].k = "routes" /\ dialogs[n].under = dialogs[n - 1].under
      BY <2>3, <1>5, <1>6 DEF WindowInv, StackInv
    <3>. QED
      BY <3>1, <2>1, <1>5, <1>6
  <2>4. ASSUME NEW m \in DOMAIN dialogs', NEW n \in DOMAIN dialogs', n < m,
               dialogs'[m].k = "routes", Listing(dialogs'[n])
        PROVE  dialogs'[n].under
    <3>1. dialogs[m].k = "routes" /\ Listing(dialogs[n])
      BY <2>4, <1>5, <1>6 DEF Listing
    <3>2. dialogs[n].under
      BY <3>1, <2>4, <1>5 DEF WindowInv, StackInv
    <3>. QED
      BY <3>2, <1>5, <1>6
  <2>. QED
    BY <2>2, <2>3, <2>4 DEF StackInv
<1>9. FreshUnlessCovered'
  <2>1. ASSUME NEW n \in DOMAIN dialogs
        PROVE  Fresh(dialogs'[n], settings.rules)
    <3>1. Fresh(dialogs[n], settings.rules)
      BY DEF WindowInv, FreshUnlessCovered
    <3>2. CASE n = Len(ds)
      BY <3>1, <3>2, <1>1, <1>3, <1>5 DEF Fresh
    <3>3. CASE n # Len(ds)
      BY <3>1, <3>3, <1>5
    <3>. QED
      BY <3>2, <3>3
  <2>. QED
    BY <2>1, <1>5, <1>7 DEF FreshUnlessCovered
<1>10. TypeOK'
  <2>1. steps' \in 0..MaxSteps
    BY StepCounts DEF WindowInv, Redraft
  <2>. QED
    BY <2>1, <1>5, <1>7 DEF WindowInv, TypeOK
<1>11. SavedIsShown'
  BY <1>7 DEF WindowInv, SavedIsShown
<1>. QED
  BY <1>8, <1>9, <1>10, <1>11 DEF WindowInv

(***************************************************************************)
(* What the user does in an editor.                                        *)
(***************************************************************************)
LEMMA DraftingKeeps ==
  ASSUME WindowInv,
         \/ \E c \in Typed, i \in 1..3 : TypeCondition(i, c)
         \/ AddCondition
         \/ \E m \in Modes : ChooseMode(m)
         \/ \E a \in Actions : ChooseAction(a)
  PROVE  WindowInv'
<1>1. TopIs("rule")
  BY DEF TypeCondition, AddCondition, ChooseMode, ChooseAction
<1>2. PICK r \in RouteRule : r = Draft
  BY <1>1, EditorType DEF WindowInv
<1>3. PICK cs \in Seq(Condition) : cs = r.conditions
  BY DEF RouteRule
<1>4. ASSUME NEW c \in Typed, NEW i \in 1..3, TypeCondition(i, c)
      PROVE  WindowInv'
  <2>1. c \in Condition /\ i \in 1 .. Len(cs)
    BY <1>2, <1>3, <1>4, SettingsWindowAssumption DEF TypeCondition
  <2>2. [cs EXCEPT ![i] = c] \in Seq(Condition)
    BY <2>1, ExceptSeq
  <2>3. [r EXCEPT !.conditions = [cs EXCEPT ![i] = c]] \in RouteRule
    BY <2>2 DEF RouteRule
  <2>4. Redraft([r EXCEPT !.conditions = [cs EXCEPT ![i] = c]])
    BY <1>2, <1>3, <1>4 DEF TypeCondition
  <2>. QED
    BY <2>3, <2>4, RedraftKeeps
<1>5. ASSUME AddCondition
      PROVE  WindowInv'
  <2>1. NewCondition \in Condition
    BY NothingIsFinite DEF NewCondition, Condition, MatchKinds
  <2>2. Append(cs, NewCondition) \in Seq(Condition)
    BY <2>1
  <2>3. [r EXCEPT !.conditions = Append(cs, NewCondition)] \in RouteRule
    BY <2>2 DEF RouteRule
  <2>4. Redraft([r EXCEPT !.conditions = Append(cs, NewCondition)])
    BY <1>2, <1>3, <1>5 DEF AddCondition
  <2>. QED
    BY <2>3, <2>4, RedraftKeeps
<1>6. ASSUME NEW m \in Modes, ChooseMode(m)
      PROVE  WindowInv'
  <2>1. [r EXCEPT !.mode = m] \in RouteRule
    BY DEF RouteRule
  <2>2. Redraft([r EXCEPT !.mode = m])
    BY <1>2, <1>6 DEF ChooseMode
  <2>. QED
    BY <2>1, <2>2, RedraftKeeps
<1>7. ASSUME NEW a \in Actions, ChooseAction(a)
      PROVE  WindowInv'
  <2>1. [r EXCEPT !.action = a] \in RouteRule
    BY DEF RouteRule
  <2>2. Redraft([r EXCEPT !.action = a])
    BY <1>2, <1>7 DEF ChooseAction
  <2>. QED
    BY <2>1, <2>2, RedraftKeeps
<1>. QED
  BY <1>4, <1>5, <1>6, <1>7

(***************************************************************************)
(* The rule of an editor goes into the list that stands below it.          *)
(***************************************************************************)
LEMMA SaveRuleKeeps ==
  ASSUME WindowInv, SaveRule
  PROVE  WindowInv'
<1>1. TopIs("rule") /\ Step /\ app' = app /\ app = "up"
  BY DEF SaveRule, TopIs
<1>2. PICK i : i = Top.index
  OBVIOUS
<1>3. WithEdited(i) \in Seq(RouteRule)
  <2>1. PICK edited \in RouteRule : edited = Edited
    BY <1>1, EditorType DEF WindowInv
  <2>2. ASSUME InRules(i)
        PROVE  [edited EXCEPT !.enabled = settings.rules[i].enabled] \in RouteRule
    <3>1. PICK rules \in Seq(RouteRule) : rules = settings.rules
      BY DEF WindowInv, TypeOK, Settings
    <3>2. rules[i] \in RouteRule
      BY <3>1, <2>2 DEF InRules
    <3>. QED
      BY <3>1, <3>2 DEF RouteRule
  <2>. QED
    BY <2>1, <2>2, RowsGiveRules DEF WithEdited, WindowInv
<1>4. Rules(WithEdited(i)) \in Settings /\ Rules(WithEdited(i)).rules = WithEdited(i)
  BY <1>3 DEF WindowInv, TypeOK, Rules, Settings
<1>5. Save(Rules(WithEdited(i)))
  BY <1>2 DEF SaveRule
<1>6. /\ settings' = Rules(WithEdited(i)) /\ settings' \in Settings /\ database' \in Tables
      /\ faults' \in 0..MaxFaults
      /\ faults' = 0 => settings' = Read(database')
  BY <1>4, <1>5, SaveKeeps DEF WindowInv
<1>7. StackInv' /\ FreshUnlessCovered' /\ dialogs' \in Seq(Dialogs)
  <2>1. PICK p \in DOMAIN dialogs : /\ p = Len(dialogs) - 1 /\ dialogs[p].k = "routes"
                                   /\ Front(dialogs) = SubSeq(dialogs, 1, p)
    BY <1>1, EditorOnList
  <2>2. dialogs' = Rebuilt(SubSeq(dialogs, 1, p), p, settings'.rules)
    BY <2>1 DEF SaveRule
  <2>3. settings'.rules \in Seq(RouteRule)
    BY <1>3, <1>4, <1>6
  <2>. QED
    BY <2>1, <2>2, <2>3, <1>1, RebuiltKeeps DEF WindowInv
<1>8. TypeOK'
  <2>1. steps' \in 0..MaxSteps
    BY <1>1, StepCounts DEF WindowInv
  <2>. QED
    BY <2>1, <1>1, <1>6, <1>7 DEF WindowInv, TypeOK
<1>9. SavedIsShown'
  BY <1>6 DEF SavedIsShown
<1>. QED
  BY <1>7, <1>8, <1>9 DEF WindowInv

(***************************************************************************)
(* The buttons of a row.                                                   *)
(***************************************************************************)
LEMMA RowsKeep ==
  ASSUME WindowInv, NEW i, Toggle(i) \/ MoveUp(i) \/ MoveDown(i) \/ RemoveRule(i)
  PROVE  WindowInv'
<1>1. TopIs("routes") /\ Step /\ i \in DOMAIN Top.rows
  BY DEF Toggle, MoveUp, MoveDown, RemoveRule, Row
<1>2. \A rules \in Seq(RouteRule) : FillWith(rules) => WindowInv'
  BY <1>1, FillKeeps
<1>3. CASE Toggle(i)
  <2>1. PICK on \in BOOLEAN : on = ~Top.rows[i].enabled
    OBVIOUS
  <2>2. (IF InRules(i) THEN [settings.rules EXCEPT ![i].enabled = on] ELSE settings.rules)
           \in Seq(RouteRule)
    BY RowsGiveRules DEF WindowInv
  <2>3. FillWith(IF InRules(i) THEN [settings.rules EXCEPT ![i].enabled = on] ELSE settings.rules)
    BY <1>3, <2>1 DEF Toggle
  <2>. QED
    BY <1>2, <2>2, <2>3, Zenon
<1>4. CASE MoveUp(i)
  <2>1. Swapped(i, i - 1) \in Seq(RouteRule) /\ FillWith(Swapped(i, i - 1))
    BY <1>4, RowsGiveRules DEF WindowInv, MoveUp
  <2>. QED
    BY <1>2, <2>1
<1>5. CASE MoveDown(i)
  <2>1. Swapped(i, i + 1) \in Seq(RouteRule) /\ FillWith(Swapped(i, i + 1))
    BY <1>5, RowsGiveRules DEF WindowInv, MoveDown
  <2>. QED
    BY <1>2, <2>1
<1>6. CASE RemoveRule(i)
  <2>1. (IF InRules(i) THEN RemoveAt(settings.rules, i) ELSE settings.rules) \in Seq(RouteRule)
    BY RowsGiveRules DEF WindowInv
  <2>2. FillWith(IF InRules(i) THEN RemoveAt(settings.rules, i) ELSE settings.rules)
    BY <1>6 DEF RemoveRule
  <2>. QED
    BY <1>2, <2>1, <2>2, Zenon
<1>. QED
  BY <1>3, <1>4, <1>5, <1>6

(***************************************************************************)
(* What opens a dialog.                                                    *)
(***************************************************************************)
LEMMA OpeningKeeps ==
  ASSUME WindowInv,
         OpenRoutes \/ OpenPreferences \/ OpenText \/ AddRule \/ \E i : EditRule(i)
  PROVE  WindowInv'
<1>1. PICK rules \in Seq(RouteRule) : rules = settings.rules
  BY DEF WindowInv, TypeOK, Settings
<1>2. CASE OpenRoutes
  <2>1. PICK d \in Dialogs : d = List(rules)
    BY DEF List, Dialogs
  <2>2. d.k = "routes" /\ d.rows = rules /\ d.under = FALSE /\ Present(d)
    BY <2>1, <1>1, <1>2 DEF List, OpenRoutes
  <2>. QED
    BY <2>2, <1>1, PresentKeeps
<1>3. CASE OpenPreferences
  <2>1. PICK d \in Dialogs : d = [k |-> "prefs"]
    BY DEF Dialogs
  <2>2. d.k = "prefs" /\ Present(d)
    BY <2>1, <1>3 DEF OpenPreferences
  <2>. QED
    BY <2>2, PresentKeeps
<1>4. CASE OpenText
  <2>1. PICK d \in Dialogs : d = [k |-> "text"]
    BY DEF Dialogs
  <2>2. d.k = "text" /\ Present(d)
    BY <2>1, <1>4 DEF OpenText
  <2>. QED
    BY <2>2, PresentKeeps
<1>5. ASSUME TopIs("routes")
      PROVE  /\ Top.under \in BOOLEAN /\ Len(dialogs) \in DOMAIN dialogs
             /\ Top = dialogs[Len(dialogs)] /\ Top.k = "routes" /\ Top.rows \in Seq(RouteRule)
  <2>1. PICK ds \in Seq(Dialogs) : ds = dialogs
    BY DEF WindowInv, TypeOK
  <2>2. Len(ds) \in 1 .. Len(ds) /\ ds[Len(ds)] \in Dialogs
    BY <2>1, <1>5 DEF TopIs
  <2>3. Top = dialogs[Len(dialogs)] /\ Top \in Dialogs /\ Top.k = "routes"
    BY <2>1, <2>2, <1>5 DEF TopIs, Top, Last
  <2>. QED
    BY <2>1, <2>2, <2>3 DEF Dialogs
<1>6. ASSUME TopIs("routes"), NEW i \in Nat, NEW r \in RouteRule
      PROVE  /\ Editor(i, r) \in Dialogs /\ Editor(i, r).k = "rule"
             /\ Editor(i, r).index = i /\ Editor(i, r).was = r
             /\ Editor(i, r).under = Top.under
  <2>1. <<NewCondition>> \in Seq(Condition)
    BY NothingIsFinite DEF NewCondition, Condition, MatchKinds
  <2>2. PICK draft \in RouteRule :
           draft = IF r.conditions = <<>> THEN [r EXCEPT !.conditions = <<NewCondition>>] ELSE r
    BY <2>1 DEF RouteRule
  <2>3. Editor(i, r) = [k |-> "rule", index |-> i, under |-> Top.under, was |-> r, draft |-> draft]
    BY <2>2 DEF Editor
  <2>. QED
    BY <2>2, <2>3, <1>5, <1>6 DEF Dialogs
<1>7. NewRule \in RouteRule
  <2>1. Blank \in STRING
    BY SettingsWindowAssumption
  <2>. QED
    BY <2>1 DEF NewRule, RouteRule, Modes, Actions
<1>8. CASE AddRule
  <2>1. TopIs("routes") /\ Present(Editor(0, NewRule))
    BY <1>8 DEF AddRule
  <2>2. PICK d \in Dialogs : d = Editor(0, NewRule)
    BY <2>1, <1>6, <1>7
  <2>3. d.k = "rule" /\ d.index = 0 /\ d.under = Top.under
    BY <2>1, <2>2, <1>6, <1>7
  <2>4. ~(d.index > 0) /\ Present(d)
    BY <2>1, <2>2, <2>3
  <2>. QED
    BY <2>1, <2>3, <2>4, PresentKeeps
<1>9. ASSUME NEW i, EditRule(i)
      PROVE  WindowInv'
  <2>1. PICK r : r = IF InRules(i) THEN settings.rules[i] ELSE NewRule
    OBVIOUS
  <2>2. TopIs("routes") /\ i \in DOMAIN Top.rows /\ Present(Editor(i, r))
    BY <1>9, <2>1 DEF EditRule
  <2>3. r \in RouteRule /\ i \in Nat
    <3>1. InRules(i) => settings.rules[i] \in RouteRule
      BY <1>1 DEF InRules
    <3>. QED
      BY <3>1, <2>1, <2>2, <1>5, <1>7
  <2>4. PICK d \in Dialogs : d = Editor(i, r)
    BY <2>2, <2>3, <1>6
  <2>5. d.k = "rule" /\ d.index = i /\ d.was = r /\ d.under = Top.under /\ Present(d)
    BY <2>2, <2>3, <2>4, <1>6
  <2>6. ASSUME ~d.under
        PROVE  InRules(i) /\ settings.rules[i] = r
    <3>1. Fresh(Top, settings.rules)
      BY <2>2, <1>5 DEF WindowInv, FreshUnlessCovered
    <3>2. Top.rows = settings.rules
      BY <3>1, <2>2, <2>5, <2>6, <1>5 DEF Fresh
    <3>. QED
      BY <3>2, <2>1, <2>2 DEF InRules
  <2>. QED
    BY <2>2, <2>5, <2>6, PresentKeeps
<1>. QED
  BY <1>2, <1>3, <1>4, <1>8, <1>9

(***************************************************************************)
(* The handlers that save without touching a rule.                         *)
(***************************************************************************)
LEMMA SwitchesKeep ==
  ASSUME WindowInv,
         \/ \E t \in Texts : SaveText(t)
         \/ \E f \in Touched : EditSetting(f)
         \/ SwitchMode \/ Hide
  PROVE  WindowInv'
<1>1. settings \in Settings
  BY DEF WindowInv, TypeOK
<1>2. ASSUME NEW f \in STRING
      PROVE  Flipped(f) \in Settings /\ Flipped(f).rules = settings.rules
  BY <1>1 DEF Flipped, Settings
<1>3. ASSUME NEW t \in Texts, SaveText(t)
      PROVE  WindowInv'
  <2>1. PICK s \in Settings : s = [settings EXCEPT !.custom = t]
    BY <1>1 DEF Settings
  <2>2. s.rules = settings.rules /\ Save(s) /\ Step
    BY <2>1, <1>1, <1>3 DEF Settings, SaveText
  <2>3. /\ settings' = s /\ settings' \in Settings /\ database' \in Tables
        /\ faults' \in 0..MaxFaults
        /\ faults' = 0 => settings' = Read(database')
    BY <2>2, SaveKeeps DEF WindowInv
  <2>4. StackInv' /\ FreshUnlessCovered' /\ dialogs' \in Seq(Dialogs)
    BY <2>2, <2>3, <1>3, CloseKeeps DEF WindowInv, SaveText, TopIs
  <2>5. TypeOK'
    <3>1. steps' \in 0..MaxSteps /\ app' = app
      BY <2>2, <1>3, StepCounts DEF WindowInv, SaveText
    <3>. QED
      BY <3>1, <2>3, <2>4 DEF WindowInv, TypeOK
  <2>6. SavedIsShown'
    BY <2>3 DEF SavedIsShown
  <2>. QED
    BY <2>4, <2>5, <2>6 DEF WindowInv
<1>4. ASSUME NEW f \in Touched, EditSetting(f)
      PROVE  WindowInv'
  <2>1. f \in STRING
    BY SettingsWindowAssumption
  <2>2. Step /\ Save(Flipped(f)) /\ UNCHANGED <<app, dialogs>>
    BY <1>4 DEF EditSetting
  <2>. QED
    BY <2>1, <2>2, <1>2, SaveAside
<1>5. CASE SwitchMode
  <2>1. "vpn" \in STRING
    BY SettingsWindowAssumption
  <2>2. Step /\ Save(Flipped("vpn")) /\ UNCHANGED <<app, dialogs>>
    BY <1>5 DEF SwitchMode
  <2>. QED
    BY <2>1, <2>2, <1>2, SaveAside
<1>6. CASE Hide
  <2>1. Step /\ Save(settings) /\ UNCHANGED <<app, dialogs>>
    BY <1>6 DEF Hide
  <2>. QED
    BY <2>1, <1>1, SaveAside
<1>. QED
  BY <1>3, <1>4, <1>5, <1>6

(***************************************************************************)
(* What closes a dialog, ends the program or starts it.                    *)
(***************************************************************************)
LEMMA EndsKeep ==
  ASSUME WindowInv, CloseTop \/ RemoveCondition \/ Quit \/ Killed \/ StartProgram
  PROVE  WindowInv'
<1>1. CASE CloseTop
  <2>1. StackInv' /\ FreshUnlessCovered' /\ dialogs' \in Seq(Dialogs)
    BY <1>1, CloseKeeps DEF WindowInv, CloseTop
  <2>. QED
    BY <2>1, <1>1 DEF WindowInv, TypeOK, SavedIsShown, CloseTop
<1>2. CASE RemoveCondition
  <2>1. StackInv' /\ FreshUnlessCovered' /\ dialogs' \in Seq(Dialogs) /\ steps' \in 0..MaxSteps
    BY <1>2, NoneKeeps, StepCounts DEF WindowInv, RemoveCondition
  <2>. QED
    BY <2>1, <1>2 DEF WindowInv, TypeOK, SavedIsShown, RemoveCondition
<1>3. CASE Quit
  <2>1. StackInv' /\ FreshUnlessCovered' /\ dialogs' \in Seq(Dialogs)
    BY <1>3, NoneKeeps DEF Quit
  <2>2. settings \in Settings /\ Save(settings)
    BY <1>3 DEF WindowInv, TypeOK, Quit
  <2>3. settings' \in Settings /\ database' \in Tables /\ faults' \in 0..MaxFaults
    BY <2>2, SaveKeeps DEF WindowInv
  <2>. QED
    BY <2>1, <2>3, <1>3 DEF WindowInv, TypeOK, SavedIsShown, Quit
<1>4. CASE Killed
  <2>1. StackInv' /\ FreshUnlessCovered' /\ dialogs' \in Seq(Dialogs)
    BY <1>4, NoneKeeps DEF Killed
  <2>. QED
    BY <2>1, <1>4 DEF WindowInv, TypeOK, SavedIsShown, Killed
<1>5. CASE StartProgram
  <2>1. dialogs' = <<>> /\ settings' = Read(database) /\ database' = database /\ app' = "up"
    BY <1>5 DEF WindowInv, StackInv, StartProgram
  <2>2. /\ StackInv' /\ FreshUnlessCovered' /\ dialogs' \in Seq(Dialogs)
        /\ steps' \in 0..MaxSteps /\ faults' = faults
    BY <2>1, <1>5, NoneKeeps, StepCounts DEF WindowInv, StartProgram
  <2>3. settings' \in Settings
    BY <2>1, ReadType DEF WindowInv, TypeOK
  <2>. QED
    BY <2>1, <2>2, <2>3 DEF WindowInv, TypeOK, SavedIsShown
<1>. QED
  BY <1>1, <1>2, <1>3, <1>4, <1>5

LEMMA SubmitKeeps ==
  ASSUME WindowInv, NEW r, Submit(r)
  PROVE  WindowInv'
<1>1. /\ steps' \in 0..MaxSteps /\ app' = app /\ settings' = settings
      /\ database' = database /\ dialogs' = dialogs /\ faults' = faults
  BY StepCounts DEF WindowInv, Submit
<1>2. StackInv' /\ FreshUnlessCovered'
  BY <1>1, StillKeeps DEF WindowInv
<1>. QED
  BY <1>1, <1>2 DEF WindowInv, TypeOK, SavedIsShown

LEMMA WindowStep == WindowInv /\ [Next]_vars => WindowInv'
<1>. SUFFICES ASSUME WindowInv, [Next]_vars PROVE WindowInv'
  OBVIOUS
<1>1. CASE UNCHANGED vars
  <2>1. /\ app' = app /\ settings' = settings /\ database' = database
        /\ dialogs' = dialogs /\ steps' = steps /\ faults' = faults
    BY <1>1 DEF vars
  <2>2. StackInv' /\ FreshUnlessCovered'
    BY <2>1, StillKeeps DEF WindowInv
  <2>. QED
    BY <2>1, <2>2 DEF WindowInv, TypeOK, SavedIsShown
<1>2. CASE Next
  <2>1. ASSUME NEW i \in 1..MaxSteps + Len(settings.rules),
               Toggle(i) \/ MoveUp(i) \/ MoveDown(i) \/ RemoveRule(i) \/ EditRule(i)
        PROVE  WindowInv'
    BY <2>1, RowsKeep, OpeningKeeps
  <2>2. ASSUME NEW t \in Throne, ImportRoutes(t) \/ ImportEverything(t)
        PROVE  WindowInv'
    BY <2>2, ImportRoutesKeeps, ImportEverythingKeeps
  <2>. QED
    BY <1>2, <2>1, <2>2, OpeningKeeps, DraftingKeeps, SaveRuleKeeps, SwitchesKeep, EndsKeep,
       SubmitKeeps DEF Next
<1>. QED
  BY <1>1, <1>2

-----------------------------------------------------------------------------
(* Importing *)

(***************************************************************************)
(* Rules that come after the others take no decision from them.            *)
(***************************************************************************)
LEMMA LaterRulesYield ==
  ASSUME NEW S, NEW rules \in Seq(S), NEW more \in Seq(S), NEW conn,
         Intended(rules, conn) # "default"
  PROVE  Intended(rules \o more, conn) = Intended(rules, conn)
<1>. DEFINE all == rules \o more
            Hits == {k \in DOMAIN rules : Applies(rules[k], conn)}
            AllHits == {k \in DOMAIN all : Applies(all[k], conn)}
<1>1. /\ Len(rules) \in Nat /\ Len(more) \in Nat /\ DOMAIN rules = 1 .. Len(rules)
      /\ DOMAIN all = 1 .. Len(rules) + Len(more)
      /\ \A k \in 1 .. Len(rules) : all[k] = rules[k]
  OBVIOUS
<1>2. Hits # {}
  BY DEF Intended, FirstOf
<1>3. PICK i \in Hits : \A j \in Hits : i <= j
  <2>1. Hits \in SUBSET Nat
    BY <1>1
  <2>. HIDE DEF Hits
  <2>. QED
    BY <2>1, <1>2, Least
<1>4. i \in 1 .. Len(rules) /\ i \in AllHits
  <2>. HIDE DEF all
  <2>. QED
    BY <1>1, <1>3
<1>5. \A j \in AllHits : i <= j
  <2>. HIDE DEF all
  <2>1. ASSUME NEW j \in AllHits, j \in 1 .. Len(rules)
        PROVE  i <= j
    BY <2>1, <1>1, <1>3
  <2>2. ASSUME NEW j \in AllHits, j \notin 1 .. Len(rules)
        PROVE  i <= j
    BY <2>2, <1>1, <1>4
  <2>. QED
    BY <2>1, <2>2
<1>6. Hits \subseteq Nat /\ AllHits \subseteq Nat
  BY <1>1
<1>7. FirstOf(Hits, 0) = i /\ FirstOf(AllHits, 0) = i
  <2>. HIDE DEF Hits, AllHits
  <2>1. \A k \in Hits : (\A j \in Hits : k <= j) => k = i
    BY <1>3, <1>6
  <2>2. \A k \in AllHits : (\A j \in AllHits : k <= j) => k = i
    BY <1>4, <1>5, <1>6
  <2>. QED
    BY <2>1, <2>2, <1>3, <1>4, <1>5 DEF FirstOf
<1>8. Intended(rules, conn) = rules[i].action /\ Intended(all, conn) = all[i].action
  BY <1>4, <1>7 DEF Intended
<1>. QED
  BY <1>1, <1>4, <1>8

(***************************************************************************)
(* An import keeps what the rules of the database decide.                  *)
(***************************************************************************)
LEMMA ImportKeeps ==
  ASSUME WindowInv, NEW throne \in Throne, ImportRoutes(throne) \/ ImportEverything(throne),
         NEW conn, Intended(Read(database).rules, conn) # "default"
  PROVE  Intended(Read(database').rules, conn) = Intended(Read(database).rules, conn)
<1>1. database \in Tables
  BY DEF WindowInv, TypeOK
<1>2. database' \in {database, WithImported(database, throne)}
  BY DEF ImportRoutes, ImportEverything, AfterImport
<1>3. /\ Read(database).rules \in Seq(RouteRule) /\ Imported(throne) \in Seq(RouteRule)
  BY <1>1, ReadType, ImportedType DEF Settings
<1>4. Read(WithImported(database, throne)).rules = Read(database).rules \o Imported(throne)
  BY <1>1, WithImportedReads
<1>5. CASE database' = database
  BY <1>5
<1>6. CASE database' = WithImported(database, throne)
  <2>1. Read(database').rules = Read(database).rules \o Imported(throne)
    BY <1>4, <1>6
  <2>2. PICK rules \in Seq(RouteRule) : rules = Read(database).rules
    BY <1>3
  <2>3. PICK more \in Seq(RouteRule) : more = Imported(throne)
    BY <1>3
  <2>4. Intended(rules, conn) # "default"
    BY <2>2
  <2>5. Intended(rules \o more, conn) = Intended(rules, conn)
    BY <2>4, LaterRulesYield
  <2>. QED
    BY <2>1, <2>2, <2>3, <2>5
<1>. QED
  BY <1>2, <1>5, <1>6

-----------------------------------------------------------------------------
(* What the generated rules decide *)

(***************************************************************************)
(* A condition and its form for sing-box say the same of a connection; it  *)
(* has no form when it says nothing.                                       *)
(***************************************************************************)
LEMMA ConditionSays ==
  ASSUME NEW c \in Condition, NEW conn
  PROVE  /\ ConditionToSingbox(c) = {} <=> Kept(c.values) = {}
         /\ Kept(c.values) # {} => (PartMatches(ConditionToSingbox(c), conn) <=> Says(c, conn))
<1>. DEFINE V == Kept(c.values)
            F(v) == field(c.kind, v)
            Item(f) == [field |-> f, values |-> {v \in V : F(v) = f}]
            part == {Item(f) : f \in {F(v) : v \in V}}
<1>1. ConditionToSingbox(c) = part
  BY DEF ConditionToSingbox
<1>2. \A v \in V : KindOf(F(v)) = c.kind
  <2>1. c.kind \in MatchKinds
    BY DEF Condition
  <2>. QED
    BY <2>1 DEF field, KindOf, MatchKinds
<1>3. \A v, w \in V : Alternatives(F(v)) = Alternatives(F(w))
  BY DEF field, Alternatives
<1>. HIDE DEF F
<1>4. \A v \in V : Item(F(v)) \in part /\ v \in Item(F(v)).values /\ Item(F(v)).field = F(v)
  OBVIOUS
<1>5. \A item \in part : \E v \in V : item = Item(F(v))
  OBVIOUS
<1>6. \A item \in part : \A v \in item.values : v \in V /\ F(v) = item.field
  OBVIOUS
<1>. HIDE DEF Item, part
<1>7. part = {} <=> V = {}
  BY <1>4, <1>5
<1>8. ASSUME V # {}, PartMatches(part, conn)
      PROVE  \E v \in V : <<c.kind, v>> \in conn.facts
  <2>1. PICK item \in part : TRUE
    BY <1>7, <1>8
  <2>2. PICK other \in part : \E v \in other.values : <<KindOf(other.field), v>> \in conn.facts
    BY <2>1, <1>8 DEF PartMatches
  <2>3. PICK v \in other.values : <<KindOf(other.field), v>> \in conn.facts
    BY <2>2
  <2>. QED
    BY <2>3, <1>2, <1>6
<1>9. ASSUME NEW v \in V, <<c.kind, v>> \in conn.facts
      PROVE  PartMatches(part, conn)
  <2>1. ASSUME NEW item \in part
        PROVE  /\ Alternatives(Item(F(v)).field) = Alternatives(item.field)
               /\ \E w \in Item(F(v)).values : <<KindOf(Item(F(v)).field), w>> \in conn.facts
    <3>1. PICK u \in V : item = Item(F(u))
      BY <1>5
    <3>2. Alternatives(Item(F(v)).field) = Alternatives(item.field)
      BY <3>1, <1>3, <1>4
    <3>3. <<KindOf(Item(F(v)).field), v>> \in conn.facts
      BY <1>2, <1>4, <1>9
    <3>. QED
      BY <3>2, <3>3, <1>4
  <2>. QED
    BY <2>1, <1>4 DEF PartMatches
<1>. QED
  BY <1>1, <1>7, <1>8, <1>9 DEF Says

(***************************************************************************)
(* The parts of a rule are the forms of its conditions that say something. *)
(***************************************************************************)
LEMMA PartsOfRule ==
  ASSUME NEW rule \in RouteRule
  PROVE  /\ Parts(rule) \in Seq({ConditionToSingbox(c) : c \in Condition})
         /\ ToSet(Parts(rule)) = {ConditionToSingbox(rule.conditions[i]) : i \in Stated(rule)}
<1>. DEFINE S == {ConditionToSingbox(c) : c \in Condition}
            Given(part) == When(part # {}, <<part>>)
            given == [i \in DOMAIN rule.conditions |-> Given(ConditionToSingbox(rule.conditions[i]))]
<1>1. PICK cs \in Seq(Condition) : cs = rule.conditions
  BY DEF RouteRule
<1>2. Len(given) = Len(cs) /\ Len(cs) \in Nat /\ DOMAIN rule.conditions = 1 .. Len(cs)
  BY <1>1
<1>3. \A n \in 1 .. Len(cs) : cs[n] \in Condition /\ ConditionToSingbox(cs[n]) \in S
  BY <1>1
<1>4. \A n \in 1 .. Len(cs) : given[n] = Given(ConditionToSingbox(cs[n]))
  <2>. HIDE DEF Given
  <2>. QED
    BY <1>1
<1>. HIDE DEF S, given
<1>5. \A part \in S : Given(part) \in Seq(S) /\ ToSet(Given(part)) = IF part = {} THEN {} ELSE {part}
  BY DEF When, ToSet
<1>6. \A n \in 1 .. Len(cs) : given[n] \in Seq(S)
  <2>. TAKE n \in 1 .. Len(cs)
  <2>. HIDE DEF Given
  <2>1. PICK part \in S : part = ConditionToSingbox(cs[n])
    BY <1>3
  <2>2. given[n] = Given(part)
    BY <2>1, <1>4
  <2>. QED
    BY <2>2, <1>5
<1>7. Parts(rule) = Joined(given)
  BY DEF Parts, given
<1>8. Joined(given) \in Seq(S)
  BY <1>2, <1>6, JoinedType
<1>9. ToSet(Joined(given)) = UNION {ToSet(given[n]) : n \in 1 .. Len(cs)}
  BY <1>2, <1>6, JoinedElements
<1>10. \A n \in 1 .. Len(cs) : n \in Stated(rule) <=> ConditionToSingbox(cs[n]) # {}
  <2>. TAKE n \in 1 .. Len(cs)
  <2>1. ConditionToSingbox(cs[n]) = {} <=> Kept(cs[n].values) = {}
    BY <1>3, ConditionSays
  <2>2. n \in Stated(rule) <=> Kept(cs[n].values) # {}
    BY <1>1, <1>2 DEF Stated
  <2>. QED
    BY <2>1, <2>2
<1>11. Stated(rule) \subseteq 1 .. Len(cs)
  BY <1>2 DEF Stated
<1>12. \A n \in 1 .. Len(cs) :
          ToSet(given[n]) = IF n \in Stated(rule) THEN {ConditionToSingbox(cs[n])} ELSE {}
  <2>. HIDE DEF Given
  <2>. QED
    BY <1>3, <1>4, <1>5, <1>10
<1>13. UNION {ToSet(given[n]) : n \in 1 .. Len(cs)} = {ConditionToSingbox(cs[i]) : i \in Stated(rule)}
  BY <1>11, <1>12
<1>. QED
  BY <1>1, <1>7, <1>8, <1>9, <1>13 DEF S

(***************************************************************************)
(* A rule of one part applies where the part does.                         *)
(***************************************************************************)
LEMMA FlatMatches ==
  ASSUME NEW part, NEW conn
  PROVE  Matches(Flat(part), conn) <=> PartMatches(part, conn)
<1>1. "" # "or"
  OBVIOUS
<1>2. PICK none : none = "" /\ none # "or"
  BY <1>1, Zenon
<1>3. PICK only : only = <<part>> /\ DOMAIN only = {1} /\ only[1] = part
  <2>1. DOMAIN <<part>> = {1} /\ <<part>>[1] = part
    OBVIOUS
  <2>. QED
    BY <2>1
<1>4. PICK match : match = [type |-> "default", mode |-> none, parts |-> only]
  OBVIOUS
<1>5. Flat(part) = match
  BY <1>2, <1>3, <1>4, Zenon DEF Flat
<1>6. match.type = "default" /\ match.mode # "or" /\ match.parts = only
  BY <1>2, <1>4
<1>7. Matches(match, conn) <=> PartMatches(part, conn)
  BY <1>3, <1>6 DEF Matches
<1>. QED
  BY <1>5, <1>7

(***************************************************************************)
(* A rule and its form for sing-box apply to the same connections and do   *)
(* the same; a rule that never applies has no form.                        *)
(***************************************************************************)
LEMMA RuleSays ==
  ASSUME NEW rule \in RouteRule, NEW conn
  PROVE  \/ to_singbox(rule) = <<>> /\ ~Applies(rule, conn)
         \/ \E match : /\ to_singbox(rule) = <<GivenBy(match, ActionOf(rule.action))>>
                       /\ Matches(match, conn) <=> Applies(rule, conn)
<1>. DEFINE S == {ConditionToSingbox(c) : c \in Condition}
            Says1(i) == Says(rule.conditions[i], conn)
            holds == {i \in Stated(rule) : Says1(i)}
<1>1. PICK parts \in Seq(S) : parts = Parts(rule)
  BY PartsOfRule
<1>2. ToSet(parts) = {ConditionToSingbox(rule.conditions[i]) : i \in Stated(rule)}
  BY <1>1, PartsOfRule
<1>3. ASSUME NEW i \in Stated(rule)
      PROVE  PartMatches(ConditionToSingbox(rule.conditions[i]), conn) <=> Says1(i)
  <2>1. PICK cs \in Seq(Condition) : cs = rule.conditions
    BY DEF RouteRule
  <2>2. cs[i] \in Condition /\ Kept(cs[i].values) # {}
    BY <2>1 DEF Stated
  <2>. QED
    BY <2>1, <2>2, ConditionSays
<1>. HIDE DEF Says1, S
<1>4. Applies(rule, conn) <=> /\ rule.enabled /\ holds # {}
                              /\ rule.mode = "any" \/ holds = Stated(rule)
  BY DEF Applies, Says1
<1>5. holds # {} <=> \E part \in ToSet(parts) : PartMatches(part, conn)
  BY <1>2, <1>3
<1>6. holds = Stated(rule) <=> \A part \in ToSet(parts) : PartMatches(part, conn)
  BY <1>2, <1>3
<1>7. parts = <<>> <=> ToSet(parts) = {}
  <2>1. CASE parts = <<>>
    BY <2>1 DEF ToSet
  <2>2. CASE parts # <<>>
    <3>1. 1 \in DOMAIN parts
      BY <2>2
    <3>. QED
      BY <2>2, <3>1 DEF ToSet
  <2>. QED
    BY <2>1, <2>2
<1>8. CASE ~rule.enabled \/ parts = <<>>
  <2>1. to_singbox(rule) = <<>>
    BY <1>1, <1>8 DEF to_singbox
  <2>2. ~Applies(rule, conn)
    BY <1>8, <1>4, <1>5, <1>7
  <2>. QED
    BY <2>1, <2>2
<1>9. CASE ~(~rule.enabled \/ parts = <<>>)
  <2>. DEFINE mode == IF rule.mode = "any" THEN "or" ELSE "and"
              match == IF Len(parts) = 1 THEN Flat(parts[1])
                       ELSE [type |-> "logical", mode |-> mode, parts |-> parts]
  <2>1. to_singbox(rule) = <<GivenBy(match, ActionOf(rule.action))>>
    BY <1>1, <1>9 DEF to_singbox
  <2>2. Applies(rule, conn) <=> \/ rule.mode = "any" /\ \E part \in ToSet(parts) : PartMatches(part, conn)
                                \/ \A part \in ToSet(parts) : PartMatches(part, conn)
    BY <1>4, <1>5, <1>6, <1>7, <1>9
  <2>3. Matches(match, conn) <=> Applies(rule, conn)
    <3>1. CASE Len(parts) = 1
      <4>1. ToSet(parts) = {parts[1]}
        BY <3>1 DEF ToSet
      <4>2. match = Flat(parts[1])
        BY <3>1
      <4>3. Matches(match, conn) <=> PartMatches(parts[1], conn)
        BY <4>2, FlatMatches
      <4>. HIDE DEF match
      <4>. QED
        BY <2>2, <4>1, <4>3
    <3>2. CASE Len(parts) # 1
      <4>1. match.type = "logical" /\ match.mode = mode /\ match.parts = parts
        BY <3>2
      <4>. HIDE DEF match
      <4>2. Matches(match, conn) <=>
              IF rule.mode = "any" THEN \E part \in ToSet(parts) : PartMatches(part, conn)
              ELSE \A part \in ToSet(parts) : PartMatches(part, conn)
        BY <4>1 DEF Matches, ToSet
      <4>3. (\A part \in ToSet(parts) : PartMatches(part, conn))
               => \E part \in ToSet(parts) : PartMatches(part, conn)
        BY <1>7, <1>9
      <4>. QED
        BY <2>2, <4>2, <4>3
    <3>. QED
      BY <3>1, <3>2
  <2>. HIDE DEF match
  <2>. QED
    BY <2>1, <2>3
<1>. QED
  BY <1>8, <1>9

(***************************************************************************)
(* What a rule of sing-box that decides leads to.                          *)
(***************************************************************************)
Yielded(r) == IF r.action = "route" THEN r.outbound ELSE r.action

Hits(rules, conn) == {i \in DOMAIN rules : Final(rules[i]) /\ Matches(rules[i].match, conn)}

LEMMA FirstDecides ==
  ASSUME NEW S, NEW rules \in Seq(S), NEW conn, NEW final
  PROVE  /\ Hits(rules, conn) = {} => Decided(rules, final, conn) = final
         /\ \A i \in Hits(rules, conn) :
               (\A j \in Hits(rules, conn) : i <= j) => Decided(rules, final, conn) = Yielded(rules[i])
         /\ Hits(rules, conn) # {} =>
               \E i \in Hits(rules, conn) : \A j \in Hits(rules, conn) : i <= j
<1>. DEFINE hits == Hits(rules, conn)
<1>1. Decided(rules, final, conn) =
        IF FirstOf(hits, 0) = 0 THEN final ELSE Yielded(rules[FirstOf(hits, 0)])
  BY DEF Decided, Hits, Yielded
<1>2. hits \in SUBSET Nat /\ 0 \notin hits
  BY DEF Hits
<1>. HIDE DEF hits
<1>3. ASSUME NEW i \in hits, \A j \in hits : i <= j
      PROVE  Decided(rules, final, conn) = Yielded(rules[i])
  <2>1. \A k \in hits : (\A j \in hits : k <= j) => k = i
    BY <1>2, <1>3
  <2>2. FirstOf(hits, 0) = i /\ i # 0
    BY <2>1, <1>2, <1>3 DEF FirstOf
  <2>. QED
    BY <1>1, <2>2
<1>4. hits = {} => Decided(rules, final, conn) = final
  BY <1>1 DEF FirstOf
<1>5. hits # {} => \E i \in hits : \A j \in hits : i <= j
  BY <1>2, Least
<1>. QED
  BY <1>3, <1>4, <1>5 DEF hits

(***************************************************************************)
(* Of two lists, one after the other, the second decides what the first    *)
(* leaves open.                                                            *)
(***************************************************************************)
LEMMA DecidedInTurn ==
  ASSUME NEW S, NEW a \in Seq(S), NEW b \in Seq(S), NEW conn, NEW final
  PROVE  Decided(a \o b, final, conn) = Decided(a, Decided(b, final, conn), conn)
<1>1. PICK ab \in Seq(S) : ab = a \o b
  <2>1. a \o b \in Seq(S)
    OBVIOUS
  <2>. QED
    BY <2>1
<1>2. /\ Len(a) \in Nat /\ Len(b) \in Nat /\ DOMAIN a = 1 .. Len(a) /\ DOMAIN b = 1 .. Len(b)
      /\ DOMAIN ab = 1 .. Len(a) + Len(b)
  BY <1>1
<1>3. \A k \in 1 .. Len(a) : ab[k] = a[k]
  BY <1>1
<1>4. \A k \in 1 .. Len(b) : ab[Len(a) + k] = b[k]
  BY <1>1
<1>5. \A k \in 1 .. Len(a) : k \in Hits(ab, conn) <=> k \in Hits(a, conn)
  BY <1>2, <1>3 DEF Hits
<1>6. \A k \in 1 .. Len(b) : Len(a) + k \in Hits(ab, conn) <=> k \in Hits(b, conn)
  BY <1>2, <1>4 DEF Hits
<1>7. /\ Hits(a, conn) \subseteq 1 .. Len(a) /\ Hits(b, conn) \subseteq 1 .. Len(b)
      /\ Hits(ab, conn) \subseteq 1 .. Len(a) + Len(b)
  BY <1>2 DEF Hits
<1>8. \A k \in Hits(ab, conn) : \/ k \in Hits(a, conn)
                                \/ \E l \in Hits(b, conn) : k = Len(a) + l
  <2>. TAKE k \in Hits(ab, conn)
  <2>1. CASE k \in 1 .. Len(a)
    BY <2>1, <1>5
  <2>2. CASE k \notin 1 .. Len(a)
    <3>1. k - Len(a) \in 1 .. Len(b) /\ k = Len(a) + (k - Len(a))
      BY <2>2, <1>2, <1>7
    <3>. QED
      BY <3>1, <1>6
  <2>. QED
    BY <2>1, <2>2
<1>9. CASE Hits(a, conn) # {}
  <2>1. PICK i \in Hits(a, conn) : \A j \in Hits(a, conn) : i <= j
    BY <1>9, FirstDecides
  <2>2. Decided(a, Decided(b, final, conn), conn) = Yielded(a[i])
    BY <2>1, FirstDecides
  <2>3. i \in Hits(ab, conn) /\ ab[i] = a[i] /\ i \in 1 .. Len(a)
    BY <1>3, <1>5, <1>7
  <2>4. \A j \in Hits(ab, conn) : i <= j
    BY <2>1, <2>3, <1>2, <1>7, <1>8
  <2>5. Decided(ab, final, conn) = Yielded(ab[i])
    BY <2>3, <2>4, FirstDecides
  <2>. QED
    BY <2>2, <2>3, <2>5, <1>1
<1>10. CASE Hits(a, conn) = {} /\ Hits(b, conn) # {}
  <2>1. PICK i \in Hits(b, conn) : \A j \in Hits(b, conn) : i <= j
    BY <1>10, FirstDecides
  <2>2. Decided(a, Decided(b, final, conn), conn) = Decided(b, final, conn)
    BY <1>10, FirstDecides
  <2>3. Decided(b, final, conn) = Yielded(b[i])
    BY <2>1, FirstDecides
  <2>4. i \in 1 .. Len(b) /\ Len(a) + i \in Hits(ab, conn) /\ ab[Len(a) + i] = b[i]
    BY <1>4, <1>6, <1>7
  <2>5. \A j \in Hits(ab, conn) : Len(a) + i <= j
    BY <2>1, <2>4, <1>2, <1>7, <1>8, <1>10
  <2>6. Decided(ab, final, conn) = Yielded(ab[Len(a) + i])
    BY <2>4, <2>5, FirstDecides
  <2>. QED
    BY <2>2, <2>3, <2>4, <2>6, <1>1
<1>11. CASE Hits(a, conn) = {} /\ Hits(b, conn) = {}
  <2>1. Hits(ab, conn) = {}
    BY <1>8, <1>11
  <2>2. Decided(ab, final, conn) = final
    BY <2>1, FirstDecides
  <2>3. Decided(b, final, conn) = final
    BY <1>11, FirstDecides
  <2>4. Decided(a, final, conn) = final
    BY <1>11, FirstDecides
  <2>. QED
    BY <2>2, <2>3, <2>4, <1>1
<1>. QED
  BY <1>9, <1>10, <1>11

(***************************************************************************)
(* One rule decides the connections it applies to, and leaves the others.  *)
(***************************************************************************)
LEMMA OneDecides ==
  ASSUME NEW r, NEW conn, NEW final
  PROVE  Decided(<<r>>, final, conn)
           = IF Final(r) /\ Matches(r.match, conn) THEN Yielded(r) ELSE final
<1>1. PICK one \in Seq({r}) : one = <<r>>
  <2>1. <<r>> \in Seq({r})
    OBVIOUS
  <2>. QED
    BY <2>1
<1>2. DOMAIN one = {1} /\ one[1] = r
  BY <1>1
<1>3. CASE Final(r) /\ Matches(r.match, conn)
  <2>1. Hits(one, conn) = {1}
    BY <1>2, <1>3 DEF Hits
  <2>2. Decided(one, final, conn) = Yielded(one[1])
    BY <2>1, FirstDecides
  <2>. QED
    BY <2>2, <1>1, <1>2, <1>3
<1>4. CASE ~(Final(r) /\ Matches(r.match, conn))
  <2>1. Hits(one, conn) = {}
    BY <1>2, <1>4 DEF Hits
  <2>2. Decided(one, final, conn) = final
    BY <2>1, FirstDecides
  <2>. QED
    BY <2>2, <1>1, <1>4
<1>. QED
  BY <1>3, <1>4

LEMMA NoneDecides ==
  ASSUME NEW conn, NEW final
  PROVE  Decided(<<>>, final, conn) = final
<1>1. PICK none \in Seq({}) : none = <<>> /\ DOMAIN none = {}
  <2>1. <<>> \in Seq({}) /\ DOMAIN <<>> = {}
    OBVIOUS
  <2>. QED
    BY <2>1
<1>2. Hits(none, conn) = {}
  BY <1>1 DEF Hits
<1>3. Decided(none, final, conn) = final
  BY <1>2, FirstDecides
<1>. QED
  BY <1>1, <1>3

(***************************************************************************)
(* What the intention of the user leads to in sing-box.                    *)
(***************************************************************************)
Leads(own, rest) == CASE own = "block" -> "reject" [] own = "default" -> rest [] OTHER -> own

LEMMA RuleLeads ==
  ASSUME NEW rule \in RouteRule, NEW conn, NEW rest
  PROVE  Decided(to_singbox(rule), rest, conn)
           = IF Applies(rule, conn) THEN Leads(rule.action, rest) ELSE rest
<1>1. CASE to_singbox(rule) = <<>> /\ ~Applies(rule, conn)
  BY <1>1, NoneDecides
<1>2. ASSUME NEW match, to_singbox(rule) = <<GivenBy(match, ActionOf(rule.action))>>,
             Matches(match, conn) <=> Applies(rule, conn)
      PROVE  Decided(to_singbox(rule), rest, conn)
               = IF Applies(rule, conn) THEN Leads(rule.action, rest) ELSE rest
  <2>1. PICK r : r = GivenBy(match, ActionOf(rule.action))
    OBVIOUS
  <2>2. rule.action \in Actions
    BY DEF RouteRule
  <2>3. r.match = match /\ Final(r) /\ Yielded(r) = Leads(rule.action, rest)
    <3>1. CASE rule.action = "block"
      <4>1. ActionOf(rule.action).action = "reject"
        BY <3>1 DEF ActionOf
      <4>2. r.match = match /\ r.action = "reject"
        BY <2>1, <4>1 DEF GivenBy
      <4>. QED
        BY <3>1, <4>2 DEF Final, Yielded, Leads
    <3>2. CASE rule.action # "block"
      <4>1. ActionOf(rule.action) = [action |-> "route", outbound |-> rule.action]
        BY <3>2 DEF ActionOf
      <4>2. r.match = match /\ r.action = "route" /\ r.outbound = rule.action
        BY <2>1, <4>1 DEF GivenBy
      <4>3. rule.action # "default"
        BY <2>2 DEF Actions
      <4>. QED
        BY <3>2, <4>2, <4>3 DEF Final, Yielded, Leads
    <3>. QED
      BY <3>1, <3>2
  <2>4. Decided(<<r>>, rest, conn) = IF Final(r) /\ Matches(r.match, conn) THEN Yielded(r) ELSE rest
    BY OneDecides
  <2>. QED
    BY <2>1, <2>3, <2>4, <1>2
<1>. QED
  BY <1>1, <1>2, RuleSays

(***************************************************************************)
(* A rule after the others decides what they leave to the default.         *)
(***************************************************************************)
LEMMA LastRuleIntends ==
  ASSUME NEW rules \in Seq(RouteRule), NEW rule \in RouteRule, NEW conn,
         Intended(rules, conn) = "default"
  PROVE  Intended(Append(rules, rule), conn)
           = IF Applies(rule, conn) THEN rule.action ELSE "default"
<1>. DEFINE Applying(rs) == {k \in DOMAIN rs : Applies(rs[k], conn)}
<1>1. PICK all \in Seq(RouteRule) : all = Append(rules, rule)
  <2>1. Append(rules, rule) \in Seq(RouteRule)
    OBVIOUS
  <2>. QED
    BY <2>1
<1>2. /\ Len(rules) \in Nat /\ DOMAIN rules = 1 .. Len(rules)
      /\ DOMAIN all = 1 .. Len(rules) + 1 /\ all[Len(rules) + 1] = rule
      /\ \A k \in 1 .. Len(rules) : all[k] = rules[k]
  BY <1>1
<1>3. Applying(rules) = {}
  <2>. SUFFICES ASSUME Applying(rules) # {} PROVE FALSE
    OBVIOUS
  <2>1. PICK i \in Applying(rules) : \A j \in Applying(rules) : i <= j
    <3>1. Applying(rules) \in SUBSET Nat
      BY <1>2
    <3>. HIDE DEF Applying
    <3>. QED
      BY <3>1, Least
  <2>2. Applying(rules) \subseteq Nat \ {0}
    BY <1>2
  <2>3. FirstOf(Applying(rules), 0) = i
    <3>. HIDE DEF Applying
    <3>1. \A k \in Applying(rules) : (\A j \in Applying(rules) : k <= j) => k = i
      BY <2>1, <2>2
    <3>. QED
      BY <3>1, <2>1 DEF FirstOf
  <2>4. Intended(rules, conn) = rules[i].action
    BY <2>1, <2>2, <2>3 DEF Intended
  <2>5. rules[i].action \in Actions
    <3>1. rules[i] \in RouteRule
      BY <2>1
    <3>. QED
      BY <3>1 DEF RouteRule
  <2>. QED
    BY <2>4, <2>5 DEF Actions
<1>4. \A k \in 1 .. Len(rules) : ~Applies(all[k], conn)
  BY <1>2, <1>3
<1>5. CASE Applies(rule, conn)
  <2>1. Applying(all) = {Len(rules) + 1}
    BY <1>2, <1>4, <1>5
  <2>2. FirstOf(Applying(all), 0) = Len(rules) + 1
    <3>. HIDE DEF Applying
    <3>. QED
      BY <2>1, <1>2 DEF FirstOf
  <2>3. Intended(all, conn)
          = IF FirstOf(Applying(all), 0) = 0 THEN "default" ELSE all[FirstOf(Applying(all), 0)].action
    BY DEF Intended
  <2>4. Len(rules) + 1 # 0
    BY <1>2
  <2>. HIDE DEF Applying
  <2>. QED
    BY <2>2, <2>3, <2>4, <1>1, <1>2, <1>5
<1>6. CASE ~Applies(rule, conn)
  <2>1. Applying(all) = {}
    BY <1>2, <1>4, <1>6
  <2>. QED
    BY <2>1, <1>1, <1>6 DEF Intended, FirstOf
<1>. QED
  BY <1>5, <1>6

(***************************************************************************)
(* The generated form of the rules of the user decides what they intend.   *)
(***************************************************************************)
LEMMA UserRulesLead ==
  ASSUME NEW s \in Settings, NEW conn, NEW rest
  PROVE  /\ UserRules(s) \in Seq(UNION {ToSet(to_singbox(r)) : r \in RouteRule})
         /\ Decided(UserRules(s), rest, conn) = Leads(Intended(s.rules, conn), rest)
<1>. DEFINE M == UNION {ToSet(to_singbox(r)) : r \in RouteRule}
            seqs == [i \in DOMAIN s.rules |-> to_singbox(s.rules[i])]
<1>1. PICK rules \in Seq(RouteRule) : rules = s.rules
  BY DEF Settings
<1>2. PICK N \in Nat : N = Len(rules) /\ DOMAIN rules = 1 .. N
  BY <1>1
<1>3. Len(seqs) = N /\ \A n \in 1 .. N : seqs[n] = to_singbox(rules[n]) /\ rules[n] \in RouteRule
  BY <1>1, <1>2
<1>4. ASSUME NEW r \in RouteRule
      PROVE  to_singbox(r) \in Seq(M)
  <2>1. PICK one : to_singbox(r) = <<>> \/ to_singbox(r) = <<one>>
    BY RuleSays
  <2>2. CASE to_singbox(r) = <<>>
    BY <2>2
  <2>3. CASE to_singbox(r) = <<one>>
    <3>1. one \in ToSet(<<one>>)
      BY DEF ToSet
    <3>2. one \in M
      BY <2>3, <3>1
    <3>. HIDE DEF M
    <3>. QED
      BY <2>3, <3>2
  <2>. QED
    BY <2>1, <2>2, <2>3
<1>. HIDE DEF M, seqs
<1>5. \A n \in 1 .. N : seqs[n] \in Seq(M)
  BY <1>3, <1>4
<1>6. PICK f : JoinsBy(f, seqs, N, M)
  BY <1>3, <1>5, JoinedRuns
<1>7. /\ f \in [0 .. N -> Seq(M)]
      /\ f[0] = <<>> /\ Joined(seqs) = f[N]
      /\ \A n \in 1 .. N : f[n] = f[n - 1] \o seqs[n]
  BY <1>6 DEF JoinsBy
<1>. DEFINE First(n) == SubSeq(rules, 1, n)
            Leading(n) == \A x : Decided(f[n], x, conn) = Leads(Intended(First(n), conn), x)
            Off == {n \in 0 .. N : ~Leading(n)}
<1>8. Off = {}
  <2>. SUFFICES ASSUME Off # {} PROVE FALSE
    OBVIOUS
  <2>1. PICK m \in Off : \A k \in Off : m <= k
    <3>1. Off \in SUBSET Nat
      OBVIOUS
    <3>. HIDE DEF Off
    <3>. QED
      BY <3>1, Least
  <2>2. Leading(0)
    <3>1. First(0) = <<>>
      BY <1>1
    <3>2. Intended(<<>>, conn) = "default"
      BY DEF Intended, FirstOf
    <3>. HIDE DEF First
    <3>. QED
      BY <3>1, <3>2, <1>7, NoneDecides DEF Leads
  <2>3. m \in 1 .. N /\ m - 1 \in 0 .. N /\ ~(m <= m - 1)
    <3>1. m # 0
      <4>. HIDE DEF Leading
      <4>. QED
        BY <2>1, <2>2
    <3>. QED
      BY <2>1, <3>1
  <2>4. Leading(m - 1)
    <3>. HIDE DEF Leading
    <3>. QED
      BY <2>1, <2>3
  <2>5. PICK rule \in RouteRule : rule = rules[m]
    BY <1>1, <1>2, <2>3
  <2>6. First(m - 1) \in Seq(RouteRule) /\ First(m) = Append(First(m - 1), rule)
    BY <1>1, <1>2, <2>3, <2>5
  <2>. HIDE DEF First
  <2>7. f[m] = f[m - 1] \o to_singbox(rule) /\ f[m - 1] \in Seq(M) /\ to_singbox(rule) \in Seq(M)
    BY <1>3, <1>4, <1>7, <2>3, <2>5
  <2>8. ASSUME NEW x
        PROVE  Decided(f[m], x, conn) = Leads(Intended(First(m), conn), x)
    <3>1. PICK y : y = Decided(to_singbox(rule), x, conn)
      OBVIOUS
    <3>2. Decided(f[m], x, conn) = Decided(f[m - 1], y, conn)
      BY <2>7, <3>1, DecidedInTurn
    <3>3. Decided(f[m], x, conn) = Leads(Intended(First(m - 1), conn), y)
      BY <3>2, <2>4
    <3>4. y = IF Applies(rule, conn) THEN Leads(rule.action, x) ELSE x
      BY <3>1, RuleLeads
    <3>5. CASE Intended(First(m - 1), conn) = "default"
      <4>1. Intended(First(m), conn) = IF Applies(rule, conn) THEN rule.action ELSE "default"
        BY <2>6, <3>5, LastRuleIntends
      <4>. QED
        BY <4>1, <3>3, <3>4, <3>5 DEF Leads
    <3>6. CASE Intended(First(m - 1), conn) # "default"
      <4>1. <<rule>> \in Seq(RouteRule) /\ First(m) = First(m - 1) \o <<rule>>
        BY <2>6
      <4>2. PICK last \in Seq(RouteRule) : last = <<rule>>
        BY <4>1
      <4>3. Intended(First(m - 1) \o last, conn) = Intended(First(m - 1), conn)
        BY <2>6, <3>6, LaterRulesYield
      <4>. QED
        BY <4>1, <4>2, <4>3, <3>3, <3>6 DEF Leads
    <3>. QED
      BY <3>5, <3>6
  <2>. QED
    BY <2>1, <2>8
<1>9. Leading(N)
  <2>1. N \in 0 .. N
    OBVIOUS
  <2>. HIDE DEF Leading
  <2>. QED
    BY <2>1, <1>8
<1>10. First(N) = s.rules
  BY <1>1, <1>2
<1>11. UserRules(s) = Joined(seqs)
  BY DEF UserRules, seqs
<1>12. UserRules(s) \in Seq(M)
  BY <1>7, <1>11
<1>13. Decided(UserRules(s), rest, conn) = Leads(Intended(s.rules, conn), rest)
  <2>. HIDE DEF First
  <2>. QED
    BY <1>7, <1>9, <1>10, <1>11
<1>. QED
  BY <1>12, <1>13 DEF M

(***************************************************************************)
(* Where a rule of sing-box has its fields, wherever it comes from.        *)
(***************************************************************************)
Fields == {"match", "action", "outbound"}

LEMMA RuleFields ==
  \A match, action, outbound :
     LET r == GRule(match, action, outbound)
     IN  r.match = match /\ r.action = action /\ r.outbound = outbound /\ Fields \subseteq DOMAIN r
BY DEF GRule, Fields

LEMMA UserRulesFields ==
  ASSUME NEW rule \in RouteRule, NEW r \in ToSet(to_singbox(rule))
  PROVE  Fields \subseteq DOMAIN r
<1>1. PICK match : to_singbox(rule) = <<>> \/ to_singbox(rule) = <<GivenBy(match, ActionOf(rule.action))>>
  BY RuleSays
<1>2. r = GivenBy(match, ActionOf(rule.action))
  BY <1>1 DEF ToSet
<1>. QED
  BY <1>2 DEF GivenBy, Fields

(***************************************************************************)
(* The rules that stand first take over what is DNS and leave the rest to  *)
(* the next ones.                                                          *)
(***************************************************************************)
Past(conn, rest) == IF conn.dns THEN "hijack-dns" ELSE rest

LEMMA AutomaticLeaves ==
  ASSUME NEW s, NEW conn, conn.dns \in BOOLEAN, NEW rest
  PROVE  /\ Automatic(s) \in Seq(ToSet(Automatic(s)))
         /\ \A r \in ToSet(Automatic(s)) : Fields \subseteq DOMAIN r
         /\ Decided(Automatic(s), rest, conn) = Past(conn, rest)
<1>1. PICK none : none = ""
  BY Zenon
<1>2. PICK sniff : sniff = GRule(Anything, "sniff", none)
  OBVIOUS
<1>3. PICK hijack : hijack = GRule(DnsQuery, "hijack-dns", none)
  OBVIOUS
<1>4. PICK resolve : resolve = GRule(Anything, "resolve", none)
  OBVIOUS
<1>5. PICK a : a \in {<<sniff>>, <<>>} /\ a = When("sniffing" \in s.on, <<sniff>>)
  BY DEF When
<1>6. PICK b : b \in {<<resolve>>, <<>>} /\ b = When("dns_strategy" \in s.on, <<resolve>>)
  BY DEF When
<1>7. Automatic(s) = (a \o <<hijack>>) \o b
  BY <1>1, <1>2, <1>3, <1>4, <1>5, <1>6, Zenon DEF Automatic
<1>. DEFINE S == {sniff, hijack, resolve}
<1>8. PICK h \in Seq(S) : h = <<hijack>>
  <2>1. <<hijack>> \in Seq(S)
    OBVIOUS
  <2>. QED
    BY <2>1
<1>9. a \in Seq(S) /\ b \in Seq(S)
  <2>1. <<sniff>> \in Seq(S) /\ <<resolve>> \in Seq(S) /\ <<>> \in Seq(S)
    OBVIOUS
  <2>. HIDE DEF S
  <2>. QED
    BY <2>1, <1>5, <1>6
<1>10. \A r \in S : Fields \subseteq DOMAIN r
  BY <1>2, <1>3, <1>4, RuleFields
<1>11. /\ sniff.action = "sniff" /\ resolve.action = "resolve"
       /\ hijack.match = DnsQuery /\ hijack.action = "hijack-dns"
  BY <1>2, <1>3, <1>4, RuleFields
<1>12. ~Final(sniff) /\ ~Final(resolve)
  BY <1>11 DEF Final
<1>13. Matches(hijack.match, conn) <=> conn.dns
  <2>1. hijack.match.type = "dns"
    BY <1>11 DEF DnsQuery
  <2>. QED
    BY <2>1 DEF Matches
<1>14. \A x : Decided(h, x, conn) = Past(conn, x)
  <2>1. Final(hijack) /\ Yielded(hijack) = "hijack-dns"
    BY <1>11 DEF Final, Yielded
  <2>2. CASE conn.dns
    BY <2>1, <2>2, <1>8, <1>13, OneDecides DEF Past
  <2>3. CASE ~conn.dns
    BY <2>3, <1>8, <1>13, OneDecides DEF Past
  <2>. QED
    BY <2>2, <2>3
<1>15. \A x : Decided(a, x, conn) = x /\ Decided(b, x, conn) = x
  <2>1. \A x : Decided(<<sniff>>, x, conn) = x /\ Decided(<<resolve>>, x, conn) = x
    BY <1>12, OneDecides
  <2>2. \A x : Decided(<<>>, x, conn) = x
    BY NoneDecides
  <2>. QED
    BY <2>1, <2>2, <1>5, <1>6
<1>. HIDE DEF S
<1>16. a \o h \in Seq(S) /\ (a \o h) \o b \in Seq(S)
  BY <1>8, <1>9
<1>17. Decided((a \o h) \o b, rest, conn) = Past(conn, rest)
  <2>0. PICK ah \in Seq(S) : ah = a \o h
    BY <1>16
  <2>1. Decided(ah \o b, rest, conn) = Decided(ah, Decided(b, rest, conn), conn)
    <3>1. PICK last \in Seq(S) : last = b
      BY <1>9
    <3>2. Decided(ah \o last, rest, conn) = Decided(ah, Decided(last, rest, conn), conn)
      BY DecidedInTurn
    <3>. QED
      BY <3>1, <3>2
  <2>2. Decided(a \o h, rest, conn) = Decided(a, Decided(h, rest, conn), conn)
    <3>1. PICK first \in Seq(S) : first = a
      BY <1>9
    <3>2. Decided(first \o h, rest, conn) = Decided(first, Decided(h, rest, conn), conn)
      BY DecidedInTurn
    <3>. QED
      BY <3>1, <3>2
  <2>. QED
    BY <2>0, <2>1, <2>2, <1>14, <1>15
<1>18. PICK all \in Seq(S) : all = Automatic(s)
  BY <1>7, <1>8, <1>16
<1>19. all \in Seq(ToSet(all)) /\ ToSet(all) \subseteq S
  BY DEF ToSet
<1>. QED
  BY <1>7, <1>8, <1>10, <1>17, <1>18, <1>19

(***************************************************************************)
(* The rules for private networks send what is private directly.           *)
(***************************************************************************)
LEMMA PrivateLeads ==
  ASSUME NEW conn, conn.private \in BOOLEAN, NEW rest
  PROVE  /\ PrivateRules \in Seq(ToSet(PrivateRules))
         /\ \A r \in ToSet(PrivateRules) : Fields \subseteq DOMAIN r
         /\ Decided(PrivateRules, rest, conn)
              = IF conn.private \/ <<"rule_set", GeositePrivate>> \in conn.facts THEN "direct"
                ELSE rest
<1>1. PICK reserved : reserved = GRule(Private, "route", "direct")
  OBVIOUS
<1>2. PICK list : list = GRule(InList(GeositePrivate), "route", "direct")
  OBVIOUS
<1>. DEFINE S == {reserved, list}
<1>3. PICK a \in Seq(S) : a = <<reserved>>
  <2>1. <<reserved>> \in Seq(S)
    OBVIOUS
  <2>. QED
    BY <2>1
<1>4. PICK b \in Seq(S) : b = <<list>>
  <2>1. <<list>> \in Seq(S)
    OBVIOUS
  <2>. QED
    BY <2>1
<1>5. PrivateRules = a \o b
  <2>1. PrivateRules = <<reserved, list>>
    BY <1>1, <1>2 DEF PrivateRules
  <2>2. <<reserved, list>> = <<reserved>> \o <<list>>
    OBVIOUS
  <2>. QED
    BY <2>1, <2>2, <1>3, <1>4
<1>6. \A r \in S : Fields \subseteq DOMAIN r /\ Final(r) /\ Yielded(r) = "direct"
  BY <1>1, <1>2, RuleFields DEF Final, Yielded
<1>7. Matches(reserved.match, conn) <=> conn.private
  <2>1. reserved.match.type = "private"
    BY <1>1, RuleFields DEF Private
  <2>. QED
    BY <2>1 DEF Matches
<1>8. Matches(list.match, conn) <=> <<"rule_set", GeositePrivate>> \in conn.facts
  <2>. DEFINE item == [field |-> "rule_set", values |-> {GeositePrivate}]
  <2>1. list.match = Flat({item})
    BY <1>2, RuleFields DEF InList
  <2>2. PartMatches({item}, conn) <=> <<KindOf("rule_set"), GeositePrivate>> \in conn.facts
    <3>1. item.field = "rule_set" /\ item.values = {GeositePrivate}
      OBVIOUS
    <3>. HIDE DEF item
    <3>2. PartMatches({item}, conn) <=> \E v \in item.values : <<KindOf(item.field), v>> \in conn.facts
      BY Zenon DEF PartMatches
    <3>. QED
      BY <3>1, <3>2
  <2>3. KindOf("rule_set") = "rule_set"
    BY DEF KindOf
  <2>. HIDE DEF item
  <2>. QED
    BY <2>1, <2>2, <2>3, FlatMatches
<1>9. Decided(a, Decided(b, rest, conn), conn)
        = IF conn.private \/ <<"rule_set", GeositePrivate>> \in conn.facts THEN "direct" ELSE rest
  <2>1. Decided(b, rest, conn)
          = IF <<"rule_set", GeositePrivate>> \in conn.facts THEN "direct" ELSE rest
    BY <1>4, <1>6, <1>8, OneDecides
  <2>2. \A x : Decided(a, x, conn) = IF conn.private THEN "direct" ELSE x
    BY <1>3, <1>6, <1>7, OneDecides
  <2>. QED
    BY <2>1, <2>2
<1>. HIDE DEF S
<1>10. Decided(a \o b, rest, conn) = Decided(a, Decided(b, rest, conn), conn)
  BY DecidedInTurn
<1>11. a \o b \in Seq(S)
  OBVIOUS
<1>12. PICK all \in Seq(S) : all = PrivateRules
  BY <1>5, <1>11
<1>13. all \in Seq(ToSet(all)) /\ ToSet(all) \subseteq S
  BY DEF ToSet
<1>. QED
  BY <1>5, <1>6, <1>9, <1>10, <1>12, <1>13

(***************************************************************************)
(* In a test, what would go to the proxy goes directly.                    *)
(***************************************************************************)
LEMMA RewrittenDecides ==
  ASSUME NEW S, NEW rules \in Seq(S), \A r \in ToSet(rules) : Fields \subseteq DOMAIN r, NEW conn
  PROVE  Decided([i \in DOMAIN rules |-> Rewritten(rules[i])], "direct", conn)
           = IF Decided(rules, "proxy", conn) = "proxy" THEN "direct"
             ELSE Decided(rules, "proxy", conn)
<1>1. ASSUME NEW r, Fields \subseteq DOMAIN r
      PROVE  /\ Rewritten(r).match = r.match /\ Rewritten(r).action = r.action
             /\ Final(r) => Yielded(Rewritten(r)) = IF Yielded(r) = "proxy" THEN "direct" ELSE Yielded(r)
  BY <1>1 DEF Fields, Rewritten, Yielded, Final
<1>. DEFINE M == {Rewritten(r) : r \in S}
            new == [i \in DOMAIN rules |-> Rewritten(rules[i])]
<1>2. DOMAIN new = DOMAIN rules /\ \A i \in DOMAIN rules : new[i] = Rewritten(rules[i])
  OBVIOUS
<1>3. new \in Seq(M)
  <2>1. \A i \in 1 .. Len(rules) : rules[i] \in S
    OBVIOUS
  <2>. QED
    BY <2>1
<1>4. \A i \in DOMAIN rules : Fields \subseteq DOMAIN rules[i]
  BY DEF ToSet
<1>. HIDE DEF new, M
<1>5. Hits(new, conn) = Hits(rules, conn)
  <2>1. \A i \in DOMAIN rules : new[i].match = rules[i].match /\ new[i].action = rules[i].action
    BY <1>1, <1>2, <1>4
  <2>2. ASSUME NEW i \in Hits(new, conn)
        PROVE  i \in Hits(rules, conn)
    <3>1. i \in DOMAIN new /\ Final(new[i]) /\ Matches(new[i].match, conn)
      BY DEF Hits
    <3>2. i \in DOMAIN rules
      BY <3>1, <1>2
    <3>3. Final(rules[i])
      BY <3>1, <3>2, <2>1 DEF Final
    <3>4. Matches(rules[i].match, conn)
      BY <3>1, <3>2, <2>1
    <3>. QED
      BY <3>2, <3>3, <3>4 DEF Hits
  <2>3. \A i \in Hits(rules, conn) : i \in Hits(new, conn)
    <3>1. ASSUME NEW i \in Hits(rules, conn) PROVE i \in Hits(new, conn)
      <4>1. i \in DOMAIN rules /\ Final(rules[i]) /\ Matches(rules[i].match, conn)
        BY DEF Hits
      <4>2. i \in DOMAIN new
        BY <4>1, <1>2
      <4>3. Final(new[i])
        BY <4>1, <2>1 DEF Final
      <4>4. Matches(new[i].match, conn)
        BY <4>1, <2>1
      <4>. QED
        BY <4>2, <4>3, <4>4 DEF Hits
    <3>. QED
      BY <3>1
  <2>. QED
    BY <2>2, <2>3
<1>6. CASE Hits(rules, conn) = {}
  <2>1. Decided(rules, "proxy", conn) = "proxy"
    BY <1>6, FirstDecides
  <2>2. Decided(new, "direct", conn) = "direct"
    BY <1>3, <1>5, <1>6, FirstDecides
  <2>. QED
    BY <2>1, <2>2 DEF new
<1>7. CASE Hits(rules, conn) # {}
  <2>1. PICK i \in Hits(rules, conn) : \A j \in Hits(rules, conn) : i <= j
    BY <1>7, FirstDecides
  <2>2. Decided(rules, "proxy", conn) = Yielded(rules[i])
    BY <2>1, FirstDecides
  <2>3. Decided(new, "direct", conn) = Yielded(new[i])
    BY <2>1, <1>3, <1>5, FirstDecides
  <2>4. i \in DOMAIN rules /\ Final(rules[i])
    BY DEF Hits
  <2>5. Yielded(new[i]) = IF Yielded(rules[i]) = "proxy" THEN "direct" ELSE Yielded(rules[i])
    BY <2>4, <1>1, <1>2, <1>4
  <2>. QED
    BY <2>2, <2>3, <2>5 DEF new
<1>. QED
  BY <1>6, <1>7

(***************************************************************************)
(* The rules of a configuration decide a connection as its settings        *)
(* promise, and take over what is DNS outside tests.                       *)
(***************************************************************************)
LEMMA RouteDecides ==
  ASSUME NEW s \in Settings, NEW conn \in Conns, NEW for_test \in BOOLEAN
  PROVE  LET route == route_section(s, for_test)
         IN  Decided(route.rules, route.final, conn)
               = IF conn.dns /\ ~for_test THEN "hijack-dns"
                 ELSE IF for_test /\ Promised(s, conn) = "proxy" THEN "direct"
                 ELSE Promised(s, conn)
<1>1. conn.private \in BOOLEAN /\ conn.dns \in BOOLEAN
  BY SettingsWindowAssumption
<1>. DEFINE Led(x) == IF conn.dns /\ ~for_test THEN "hijack-dns" ELSE x
<1>2. PICK A : A = When(~for_test, Automatic(s))
  OBVIOUS
<1>3. PICK U : U = UserRules(s)
  OBVIOUS
<1>4. PICK C : C = s.custom.rules
  OBVIOUS
<1>5. PICK P : P = When("bypass_private" \in s.on, PrivateRules)
  OBVIOUS
<1>. DEFINE S == (ToSet(A) \cup ToSet(U)) \cup (ToSet(C) \cup ToSet(P))
<1>6. /\ A \in Seq(ToSet(A)) /\ \A r \in ToSet(A) : Fields \subseteq DOMAIN r
      /\ \A x : Decided(A, x, conn) = Led(x)
  <2>1. CASE for_test
    <3>1. A = <<>> /\ ToSet(A) = {}
      BY <1>2, <2>1 DEF When, ToSet
    <3>2. \A x : Led(x) = x
      BY <2>1
    <3>. HIDE DEF Led
    <3>. QED
      BY <3>1, <3>2, NoneDecides
  <2>2. CASE ~for_test
    <3>1. A = Automatic(s)
      BY <1>2, <2>2 DEF When
    <3>2. /\ Automatic(s) \in Seq(ToSet(Automatic(s)))
          /\ \A r \in ToSet(Automatic(s)) : Fields \subseteq DOMAIN r
      BY <1>1, AutomaticLeaves
    <3>3. \A x : Decided(Automatic(s), x, conn) = Past(conn, x)
      <4>1. ASSUME NEW x PROVE Decided(Automatic(s), x, conn) = Past(conn, x)
        BY <1>1, AutomaticLeaves
      <4>. QED
        BY <4>1
    <3>4. \A x : Led(x) = Past(conn, x)
      BY <2>2 DEF Past
    <3>. HIDE DEF Led
    <3>. QED
      BY <3>1, <3>2, <3>3, <3>4
  <2>. QED
    BY <2>1, <2>2
<1>7. /\ U \in Seq(ToSet(U)) /\ \A r \in ToSet(U) : Fields \subseteq DOMAIN r
      /\ \A x : Decided(U, x, conn) = Leads(Intended(s.rules, conn), x)
  <2>1. PICK user \in Seq(UNION {ToSet(to_singbox(r)) : r \in RouteRule}) : user = U
    BY <1>3, UserRulesLead
  <2>2. user \in Seq(ToSet(user))
    BY DEF ToSet
  <2>3. \A r \in ToSet(user) : \E rule \in RouteRule : r \in ToSet(to_singbox(rule))
    BY DEF ToSet
  <2>4. \A r \in ToSet(user) : Fields \subseteq DOMAIN r
    BY <2>3, UserRulesFields
  <2>5. \A x : Decided(U, x, conn) = Leads(Intended(s.rules, conn), x)
    BY <1>3, UserRulesLead
  <2>. QED
    BY <2>1, <2>2, <2>4, <2>5
<1>8. C \in Seq(ToSet(C)) /\ \A r \in ToSet(C) : Fields \subseteq DOMAIN r
  <2>1. s.custom \in Texts
    BY DEF Settings
  <2>. QED
    BY <2>1, <1>4, SettingsWindowAssumption DEF Fields
<1>. DEFINE private == conn.private \/ <<"rule_set", GeositePrivate>> \in conn.facts
            rest == IF "bypass_private" \in s.on /\ private THEN "direct" ELSE "proxy"
<1>9. /\ P \in Seq(ToSet(P)) /\ \A r \in ToSet(P) : Fields \subseteq DOMAIN r
      /\ Decided(P, "proxy", conn) = rest
  <2>1. CASE "bypass_private" \in s.on
    <3>1. P = PrivateRules
      BY <1>5, <2>1 DEF When
    <3>. QED
      BY <3>1, <2>1, <1>1, PrivateLeads
  <2>2. CASE "bypass_private" \notin s.on
    <3>1. P = <<>> /\ ToSet(P) = {}
      BY <1>5, <2>2 DEF When, ToSet
    <3>. QED
      BY <3>1, <2>2, NoneDecides
  <2>. QED
    BY <2>1, <2>2
<1>10. \A r \in S : Fields \subseteq DOMAIN r
  BY <1>6, <1>7, <1>8, <1>9
<1>11. A \in Seq(S) /\ U \in Seq(S) /\ C \in Seq(S) /\ P \in Seq(S)
  <2>1. /\ ToSet(A) \subseteq S /\ ToSet(U) \subseteq S
        /\ ToSet(C) \subseteq S /\ ToSet(P) \subseteq S
    OBVIOUS
  <2>. HIDE DEF S
  <2>. QED
    BY <2>1, <1>6, <1>7, <1>8, <1>9, SeqMonotonic
<1>. HIDE DEF S, rest, Led
<1>12. PICK a \in Seq(S) : a = A
  BY <1>11
<1>13. PICK u \in Seq(S) : u = U
  BY <1>11
<1>14. PICK c \in Seq(S) : c = C
  BY <1>11
<1>15. PICK p \in Seq(S) : p = P
  BY <1>11
<1>16. PICK au \in Seq(S) : au = a \o u
  <2>1. a \o u \in Seq(S)
    OBVIOUS
  <2>. QED
    BY <2>1
<1>17. PICK auc \in Seq(S) : auc = au \o c
  <2>1. au \o c \in Seq(S)
    OBVIOUS
  <2>. QED
    BY <2>1
<1>18. PICK all \in Seq(S) : all = auc \o p
  <2>1. auc \o p \in Seq(S)
    OBVIOUS
  <2>. QED
    BY <2>1
<1>19. Decided(all, "proxy", conn) = Led(Promised(s, conn))
  <2>1. Decided(auc \o p, "proxy", conn) = Decided(auc, Decided(p, "proxy", conn), conn)
    BY DecidedInTurn
  <2>2. Decided(all, "proxy", conn) = Decided(auc, rest, conn)
    BY <2>1, <1>9, <1>15, <1>18
  <2>3. PICK text : text = Decided(c, rest, conn)
    OBVIOUS
  <2>4. Decided(au \o c, rest, conn) = Decided(au, Decided(c, rest, conn), conn)
    BY DecidedInTurn
  <2>5. Decided(auc, rest, conn) = Decided(au, text, conn)
    BY <2>3, <2>4, <1>17
  <2>6. Decided(a \o u, text, conn) = Decided(a, Decided(u, text, conn), conn)
    BY DecidedInTurn
  <2>7. Decided(au, text, conn) = Led(Leads(Intended(s.rules, conn), text))
    BY <2>6, <1>6, <1>7, <1>12, <1>13, <1>16
  <2>8. Promised(s, conn) = Leads(Intended(s.rules, conn), text)
    <3>1. text = Decided(s.custom.rules, rest, conn)
      BY <2>3, <1>4, <1>14
    <3>2. PICK own : own = Intended(s.rules, conn)
      OBVIOUS
    <3>3. text = Decided(s.custom.rules,
                         IF "bypass_private" \in s.on /\ private THEN "direct" ELSE "proxy", conn)
      BY <3>1 DEF rest
    <3>4. Promised(s, conn) = CASE own = "block"   -> "reject"
                                [] own = "default" -> text
                                [] OTHER           -> own
      BY <3>2, <3>3, Zenon DEF Promised
    <3>5. Leads(own, text) = Promised(s, conn)
      <4>1. CASE own = "block"
        BY <4>1, <3>4 DEF Leads
      <4>2. CASE own = "default"
        BY <4>2, <3>4 DEF Leads
      <4>3. CASE own # "block" /\ own # "default"
        BY <4>3, <3>4 DEF Leads
      <4>. QED
        BY <4>1, <4>2, <4>3
    <3>. QED
      BY <3>2, <3>5
  <2>. QED
    BY <2>2, <2>5, <2>7, <2>8
<1>. DEFINE route == route_section(s, for_test)
<1>20. /\ route.rules = [i \in DOMAIN all |-> IF for_test THEN Rewritten(all[i]) ELSE all[i]]
       /\ route.final = IF for_test THEN "direct" ELSE "proxy"
  <2>1. all = When(~for_test, Automatic(s)) \o UserRules(s) \o s.custom.rules
              \o When("bypass_private" \in s.on, PrivateRules)
    BY <1>2, <1>3, <1>4, <1>5, <1>12, <1>13, <1>14, <1>15, <1>16, <1>17, <1>18
  <2>. QED
    BY <2>1 DEF route_section
<1>21. CASE for_test
  <2>1. \A r \in ToSet(all) : Fields \subseteq DOMAIN r
    BY <1>10 DEF ToSet
  <2>2. Decided([i \in DOMAIN all |-> Rewritten(all[i])], "direct", conn)
          = IF Decided(all, "proxy", conn) = "proxy" THEN "direct" ELSE Decided(all, "proxy", conn)
    BY <2>1, RewrittenDecides
  <2>3. route.rules = [i \in DOMAIN all |-> Rewritten(all[i])] /\ route.final = "direct"
    BY <1>20, <1>21
  <2>. HIDE DEF route
  <2>4. Led(Promised(s, conn)) = Promised(s, conn)
    BY <1>21 DEF Led
  <2>5. Decided(route.rules, route.final, conn)
          = IF Promised(s, conn) = "proxy" THEN "direct" ELSE Promised(s, conn)
    BY <2>2, <2>3, <2>4, <1>19
  <2>. QED
    BY <2>5, <1>21 DEF route
<1>22. CASE ~for_test
  <2>1. route.rules = all /\ route.final = "proxy"
    <3>1. route.rules = [i \in DOMAIN all |-> all[i]] /\ route.final = "proxy"
      BY <1>20, <1>22
    <3>2. [i \in DOMAIN all |-> all[i]] = all
      OBVIOUS
    <3>. HIDE DEF route
    <3>. QED
      BY <3>1, <3>2
  <2>. HIDE DEF route
  <2>2. Decided(route.rules, route.final, conn) = Led(Promised(s, conn))
    BY <2>1, <1>19
  <2>. QED
    BY <2>2, <1>22 DEF route, Led
<1>. QED
  BY <1>21, <1>22

-----------------------------------------------------------------------------
(* What the names of a configuration lead to *)

(***************************************************************************)
(* Map::insert gives one field its value and leaves the others.            *)
(***************************************************************************)
LEMMA InsertTakes ==
  ASSUME NEW o, NEW f, NEW v
  PROVE  /\ Insert(o, f, v)[f] = v
         /\ \A x : x \in DOMAIN Insert(o, f, v) <=> x \in DOMAIN o \/ x = f
         /\ \A x \in DOMAIN o : x # f => Insert(o, f, v)[x] = o[x]
BY DEF Insert

(***************************************************************************)
(* The outbound of a profile has the tag it was given, and is no group.    *)
(***************************************************************************)
LEMMA ProfileOutbound ==
  ASSUME NEW p, "outbounds" \notin DOMAIN p.outbound, NEW tag, NEW s
  PROVE  LET o == apply_mux(tagged(p, tag), s)
         IN  o["tag"] = tag /\ "outbounds" \notin DOMAIN o
<1>. DEFINE Good(o) == o["tag"] = tag /\ "tag" \in DOMAIN o /\ "outbounds" \notin DOMAIN o
<1>1. PICK named : named = Insert(p.outbound, "tag", tag)
  OBVIOUS
<1>2. Good(named)
  BY <1>1, InsertTakes, SMT
<1>3. ASSUME NEW o, Good(o), NEW f \in {"type", "multiplex"}, NEW v
      PROVE  Good(Insert(o, f, v))
  <2>1. Insert(o, f, v)["tag"] = o["tag"]
    BY <1>3, InsertTakes, SMT
  <2>2. "tag" \in DOMAIN Insert(o, f, v) /\ "outbounds" \notin DOMAIN Insert(o, f, v)
    BY <1>3, InsertTakes, SMT
  <2>. QED
    BY <1>3, <2>1, <2>2
<1>. HIDE DEF Good
<1>4. PICK out : out = tagged(p, tag)
  OBVIOUS
<1>5. out = named \/ out = Insert(named, "type", "vless")
  BY <1>1, <1>4, Zenon DEF tagged
<1>6. Good(out)
  BY <1>2, <1>3, <1>5
<1>7. PICK muxed : muxed = apply_mux(out, s)
  OBVIOUS
<1>8. muxed = out \/ muxed = Insert(out, "multiplex", "enabled")
  BY <1>7, Zenon DEF apply_mux
<1>9. Good(muxed)
  BY <1>3, <1>6, <1>8
<1>. QED
  BY <1>4, <1>7, <1>9 DEF Good

(***************************************************************************)
(* Both ends of a bridge have its tag.                                     *)
(***************************************************************************)
LEMMA BridgeEnds ==
  ASSUME NEW p, NEW tag, NEW port
  PROVE  LET b == Bridge(p, tag, port)
         IN  /\ {"port", "auth"} \subseteq DOMAIN b
             /\ b.port = port /\ b.auth = tag /\ b.to = tag /\ b.outbound["tag"] = tag
<1>1. PICK out : out = to_xray_outbound(p, tag)
  OBVIOUS
<1>2. \E o : out = Insert(o, "tag", tag)
  BY <1>1, Zenon DEF to_xray_outbound
<1>3. out["tag"] = tag
  BY <1>2, InsertTakes
<1>4. PICK in : in = tag \o "-in"
  OBVIOUS
<1>5. Bridge(p, tag, port) = [port |-> port, auth |-> tag, in |-> in, to |-> tag, outbound |-> out]
  BY <1>1, <1>4, Zenon DEF Bridge
<1>. QED
  BY <1>3, <1>5
(***************************************************************************)
(* A gate leads every port to the inbound that takes the password of the   *)
(* bridge, when no two bridges share a port or a password.                 *)
(***************************************************************************)
LEMMA GateLeads ==
  ASSUME NEW c, \A b \in c.bridges : {"port", "auth"} \subseteq DOMAIN b,
         \A a, b \in c.bridges : a.auth = b.auth => a = b,
         ~GateFails(c.bridges)
  PROVE  GateLeadsOn(c)
<1>1. SUFFICES ASSUME NEW moved \in Injection(c.bridges, 1 .. 2 * Cardinality(c.bridges)),
                     NEW b \in c.bridges
              PROVE  LET g == remapInbounds(c.bridges, moved)
                     IN  \E p \in g.pairs :
                           /\ \A y \in g.pairs : y.gate = b.port <=> y = p
                           /\ \A x \in g.inbounds : x.port = p.target <=> x.auth = b.auth
  BY DEF GateLeadsOn
<1>2. \A x, y \in c.bridges : (moved[x] = moved[y] => x = y) /\ (x.port = y.port => x = y)
  BY DEF Injection, IsInjective, GateFails
<1>. DEFINE Pair(x) == [gate |-> x.port, target |-> moved[x]]
            In(x) == [x EXCEPT !.port = moved[x]]
            g == remapInbounds(c.bridges, moved)
<1>3. g.pairs = {Pair(x) : x \in c.bridges} /\ g.inbounds = {In(x) : x \in c.bridges}
  BY DEF remapInbounds
<1>4. \A x \in c.bridges : In(x).port = moved[x] /\ In(x).auth = x.auth
  OBVIOUS
<1>5. \A x \in c.bridges : Pair(x).gate = x.port /\ Pair(x).target = moved[x]
  OBVIOUS
<1>. HIDE DEF g, Pair, In
<1>6. Pair(b) \in g.pairs
  BY <1>3
<1>7. \A y \in g.pairs : y.gate = b.port <=> y = Pair(b)
  BY <1>2, <1>3, <1>5
<1>8. \A x \in g.inbounds : x.port = Pair(b).target <=> x.auth = b.auth
  BY <1>2, <1>3, <1>4, <1>5
<1>. QED
  BY <1>6, <1>7, <1>8 DEF g

(***************************************************************************)
(* The tags of a request are distinct; none is `direct', and only that of  *)
(* an only profile is `proxy'.                                             *)
(***************************************************************************)
LEMMA AskedSays ==
  ASSUME NEW Q, Asked(Q)
  PROVE  /\ Q.purpose \in {"single", "test", "auto"} /\ Q.profiles \in Seq(ToSet(Q.profiles))
         /\ Q.purpose = "single" => Len(Q.profiles) = 1
         /\ \A i \in DOMAIN Q.profiles : /\ Q.profiles[i].kind.xray \in BOOLEAN
                                         /\ "outbounds" \notin DOMAIN Q.profiles[i].outbound
         /\ \A i, j \in DOMAIN Q.profiles : TagOf(Q.purpose, i) = TagOf(Q.purpose, j) => i = j
         /\ \A i \in DOMAIN Q.profiles :
               /\ TagOf(Q.purpose, i) # "direct"
               /\ TagOf(Q.purpose, i) = "proxy" <=> Q.purpose = "single"
<1>1. PICK r \in Requests : Q.purpose = r.purpose /\ Q.profiles = r.profiles
  BY DEF Asked
<1>2. /\ r.purpose \in {"single", "test", "auto"} /\ r.profiles \in Seq(ToSet(r.profiles))
      /\ r.purpose = "single" => Len(r.profiles) = 1
      /\ \A p \in ToSet(r.profiles) : p.kind.xray \in BOOLEAN /\ "outbounds" \notin DOMAIN p.outbound
      /\ \A i, j \in DOMAIN r.profiles :
            /\ Numbered(i - 1) = Numbered(j - 1) => i = j
            /\ Numbered(i - 1) \notin {"proxy", "direct"}
  BY RequestAssumption
<1>3. \A i \in DOMAIN Q.profiles : Q.profiles[i] \in ToSet(r.profiles)
  BY <1>1 DEF ToSet
<1>4. \A i \in DOMAIN Q.profiles : Q.purpose = "single" => i = 1
  BY <1>1, <1>2
<1>5. \A i \in DOMAIN Q.profiles :
         /\ Q.purpose = "single" => TagOf(Q.purpose, i) = "proxy"
         /\ Q.purpose # "single" => TagOf(Q.purpose, i) = Numbered(i - 1)
  BY DEF TagOf
<1>6. "proxy" # "direct"
  OBVIOUS
<1>7. \A i, j \in DOMAIN Q.profiles : TagOf(Q.purpose, i) = TagOf(Q.purpose, j) => i = j
  BY <1>1, <1>2, <1>4, <1>5
<1>8. \A i \in DOMAIN Q.profiles :
               /\ TagOf(Q.purpose, i) # "direct"
               /\ TagOf(Q.purpose, i) = "proxy" <=> Q.purpose = "single"
  BY <1>1, <1>2, <1>5, <1>6
<1>. QED
  BY <1>1, <1>2, <1>3, <1>7, <1>8

(***************************************************************************)
(* The outbounds of a configuration: one for every profile, the selector   *)
(* of a group, and the direct one last.                                    *)
(***************************************************************************)
OutOf(Q, s, i) ==
  IF is_xray(Q.profiles[i]) THEN socks_outbound(TagOf(Q.purpose, i), Q.ports[i])
  ELSE apply_mux(tagged(Q.profiles[i], TagOf(Q.purpose, i)), s)

LEMMA MadeOutbounds ==
  ASSUME NEW Q, Asked(Q), NEW s
  PROVE  LET made == build(Q, s)
             n    == Len(Q.profiles)
             last == IF Q.purpose = "auto" THEN n + 2 ELSE n + 1
         IN  /\ made.tags = [i \in 1 .. n |-> TagOf(Q.purpose, i)]
             /\ n \in Nat /\ DOMAIN Q.profiles = 1 .. n /\ DOMAIN made.outbounds = 1 .. last
             /\ \A i \in 1 .. n : made.outbounds[i] = OutOf(Q, s, i)
             /\ Q.purpose = "auto" => made.outbounds[n + 1] = auto_selector(made.tags)
             /\ made.outbounds[last] = [type |-> "direct", tag |-> "direct"]
<1>1. Q.profiles \in Seq(ToSet(Q.profiles))
  BY AskedSays
<1>2. PICK n \in Nat : n = Len(Q.profiles) /\ DOMAIN Q.profiles = 1 .. n
  BY <1>1
<1>3. PICK tags : tags = [i \in 1 .. n |-> TagOf(Q.purpose, i)]
  OBVIOUS
<1>4. PICK own : own = [i \in 1 .. n |-> OutOf(Q, s, i)]
  OBVIOUS
<1>5. PICK group : group = auto_selector(tags)
  OBVIOUS
<1>6. PICK direct : direct = [type |-> "direct", tag |-> "direct"]
  OBVIOUS
<1>7. build(Q, s).tags = tags
  <2>1. tags = [i \in DOMAIN Q.profiles |-> TagOf(Q.purpose, i)]
    BY <1>2, <1>3
  <2>. QED
    BY <2>1, Zenon DEF build
<1>8. build(Q, s).outbounds = own \o When(Q.purpose = "auto", <<group>>) \o <<direct>>
  <2>1. tags = [i \in DOMAIN Q.profiles |-> TagOf(Q.purpose, i)] /\ DOMAIN tags = 1 .. n
    BY <1>2, <1>3
  <2>2. own = [i \in DOMAIN tags |->
                 IF is_xray(Q.profiles[i]) THEN socks_outbound(tags[i], Q.ports[i])
                 ELSE apply_mux(tagged(Q.profiles[i], tags[i]), s)]
    <3>1. \A i \in 1 .. n : tags[i] = TagOf(Q.purpose, i)
      BY <1>3
    <3>. QED
      BY <2>1, <3>1, <1>4 DEF OutOf
  <2>. QED
    BY <2>1, <2>2, <1>5, <1>6 DEF build
<1>. DEFINE S == {own[i] : i \in 1 .. n} \cup {group, direct}
<1>9. PICK o \in Seq(S) : o = own
  <2>1. \A i \in 1 .. n : own[i] \in S
    OBVIOUS
  <2>. HIDE DEF S
  <2>2. own \in Seq(S)
    BY <2>1, <1>4
  <2>. QED
    BY <2>2
<1>10. Len(o) = n /\ \A i \in 1 .. n : o[i] = OutOf(Q, s, i)
  BY <1>4, <1>9
<1>11. group \in S /\ direct \in S
  OBVIOUS
<1>. HIDE DEF S
<1>12. CASE Q.purpose = "auto"
  <2>1. build(Q, s).outbounds = o \o <<group>> \o <<direct>>
    BY <1>8, <1>9, <1>12 DEF When
  <2>2. PICK made : made = o \o <<group>> \o <<direct>>
    OBVIOUS
  <2>3. /\ DOMAIN made = 1 .. n + 2 /\ \A i \in 1 .. n : made[i] = o[i]
        /\ made[n + 1] = group /\ made[n + 2] = direct
    BY <2>2, <1>10, <1>11
  <2>. QED
    BY <2>1, <2>2, <2>3, <1>2, <1>3, <1>5, <1>6, <1>7, <1>10, <1>12
<1>13. CASE Q.purpose # "auto"
  <2>1. build(Q, s).outbounds = o \o <<direct>>
    BY <1>8, <1>9, <1>13 DEF When
  <2>2. PICK made : made = o \o <<direct>>
    OBVIOUS
  <2>3. /\ DOMAIN made = 1 .. n + 1 /\ \A i \in 1 .. n : made[i] = o[i] /\ made[n + 1] = direct
    BY <2>2, <1>10, <1>11
  <2>. QED
    BY <2>1, <2>2, <2>3, <1>2, <1>3, <1>5, <1>6, <1>7, <1>10, <1>13
<1>. QED
  BY <1>12, <1>13

(***************************************************************************)
(* The outbound of the i-th profile has the i-th tag.                      *)
(***************************************************************************)
LEMMA ProfileTags ==
  ASSUME NEW Q, Asked(Q), NEW s, NEW i \in DOMAIN Q.profiles
  PROVE  LET o == OutOf(Q, s, i)
         IN  o["tag"] = TagOf(Q.purpose, i) /\ "outbounds" \notin DOMAIN o
<1>1. Q.profiles[i].kind.xray \in BOOLEAN /\ "outbounds" \notin DOMAIN Q.profiles[i].outbound
  BY AskedSays
<1>2. CASE is_xray(Q.profiles[i])
  <2>1. OutOf(Q, s, i) = socks_outbound(TagOf(Q.purpose, i), Q.ports[i])
    BY <1>2, Zenon DEF OutOf
  <2>. QED
    BY <2>1 DEF socks_outbound
<1>3. CASE ~is_xray(Q.profiles[i])
  <2>1. OutOf(Q, s, i) = apply_mux(tagged(Q.profiles[i], TagOf(Q.purpose, i)), s)
    BY <1>3, Zenon DEF OutOf
  <2>. QED
    BY <2>1, <1>1, ProfileOutbound
<1>. QED
  BY <1>2, <1>3

(***************************************************************************)
(* Every outbound has a tag of its own, among them `direct' and, but for a *)
(* test, `proxy'; a selector chooses among them.                           *)
(***************************************************************************)
Selected(c) == UNION {ToSet(o["outbounds"]) : o \in {x \in ToSet(c.outbounds) : Has(x, "outbounds")}}

LEMMA OutboundNames ==
  ASSUME NEW Q, Asked(Q), NEW s, NEW made, made = build(Q, s)
  PROVE  /\ \A i, j \in DOMAIN made.outbounds :
               made.outbounds[i]["tag"] = made.outbounds[j]["tag"] => i = j
         /\ "direct" \in OutboundTags(made)
         /\ Q.purpose # "test" => "proxy" \in OutboundTags(made)
         /\ Selected(made) \subseteq OutboundTags(made)
<1>. DEFINE M(i) == TagOf(Q.purpose, i)
            N(k) == made.outbounds[k]["tag"]
<1>1. PICK n \in Nat : n = Len(Q.profiles) /\ DOMAIN Q.profiles = 1 .. n
  BY MadeOutbounds
<1>2. /\ made.tags = [i \in 1 .. n |-> M(i)]
      /\ \A i \in 1 .. n : made.outbounds[i] = OutOf(Q, s, i)
  BY <1>1, MadeOutbounds
<1>3. \A i \in 1 .. n : N(i) = M(i) /\ "outbounds" \notin DOMAIN made.outbounds[i]
  BY <1>1, <1>2, ProfileTags
<1>4. /\ Q.purpose \in {"single", "test", "auto"}
      /\ Q.purpose = "single" => n = 1
      /\ \A i, j \in 1 .. n : M(i) = M(j) => i = j
      /\ \A i \in 1 .. n : M(i) # "direct" /\ (M(i) = "proxy" <=> Q.purpose = "single")
  BY <1>1, AskedSays
<1>. HIDE DEF M
<1>5. CASE Q.purpose = "auto"
  <2>1. /\ DOMAIN made.outbounds = 1 .. n + 2
        /\ made.outbounds[n + 1] = auto_selector(made.tags)
        /\ made.outbounds[n + 2] = [type |-> "direct", tag |-> "direct"]
    BY <1>1, <1>5, MadeOutbounds
  <2>2. N(n + 1) = "proxy" /\ made.outbounds[n + 1]["outbounds"] = made.tags /\ N(n + 2) = "direct"
    BY <2>1 DEF auto_selector
  <2>3. "outbounds" \notin DOMAIN made.outbounds[n + 2]
    BY <2>1
  <2>. HIDE DEF N
  <2>4. \A i \in 1 .. n + 2 : i \in 1 .. n \/ i = n + 1 \/ i = n + 2
    OBVIOUS
  <2>5. \A i, j \in 1 .. n + 2 : N(i) = N(j) => i = j
    BY <1>3, <1>4, <1>5, <2>2, <2>4
  <2>6. "direct" \in OutboundTags(made) /\ "proxy" \in OutboundTags(made)
    BY <2>1, <2>2 DEF OutboundTags, N
  <2>7. Selected(made) \subseteq ToSet(made.tags)
    <3>1. \A o \in ToSet(made.outbounds) : Has(o, "outbounds") => o = made.outbounds[n + 1]
      BY <1>3, <2>1, <2>3, <2>4 DEF ToSet, Has
    <3>. QED
      BY <3>1, <2>2 DEF Selected
  <2>8. ToSet(made.tags) \subseteq OutboundTags(made)
    BY <1>2, <1>3, <2>1 DEF ToSet, OutboundTags, N
  <2>. QED
    BY <2>1, <2>5, <2>6, <2>7, <2>8 DEF N
<1>6. CASE Q.purpose # "auto"
  <2>1. /\ DOMAIN made.outbounds = 1 .. n + 1
        /\ made.outbounds[n + 1] = [type |-> "direct", tag |-> "direct"]
    BY <1>1, <1>6, MadeOutbounds
  <2>2. N(n + 1) = "direct" /\ "outbounds" \notin DOMAIN made.outbounds[n + 1]
    BY <2>1
  <2>. HIDE DEF N
  <2>4. \A i \in 1 .. n + 1 : i \in 1 .. n \/ i = n + 1
    OBVIOUS
  <2>5. \A i, j \in 1 .. n + 1 : N(i) = N(j) => i = j
    BY <1>3, <1>4, <2>2, <2>4
  <2>6. "direct" \in OutboundTags(made)
    BY <2>1, <2>2 DEF OutboundTags, N
  <2>7. Q.purpose # "test" => "proxy" \in OutboundTags(made)
    <3>. SUFFICES ASSUME Q.purpose # "test" PROVE "proxy" \in OutboundTags(made)
      OBVIOUS
    <3>0. Q.purpose = "single" /\ n = 1
      BY <1>4, <1>6
    <3>1. 1 \in 1 .. n /\ M(1) = "proxy"
      BY <3>0, <1>4
    <3>2. N(1) = "proxy"
      BY <3>1, <1>3
    <3>. QED
      BY <3>0, <3>2, <2>1 DEF OutboundTags, N
  <2>8. Selected(made) = {}
    <3>1. \A o \in ToSet(made.outbounds) : ~Has(o, "outbounds")
      BY <1>3, <2>1, <2>2, <2>4 DEF ToSet, Has
    <3>. QED
      BY <3>1 DEF Selected
  <2>. QED
    BY <2>1, <2>5, <2>6, <2>7, <2>8 DEF N
<1>. QED
  BY <1>5, <1>6

(***************************************************************************)
(* Every bridge has a password of its own, and for a profile that runs in  *)
(* Xray the socks outbound leads to its bridge.                            *)
(***************************************************************************)
BridgesLead(Q, made) ==
  \A i \in DOMAIN made.tags : is_xray(Q.profiles[i]) =>
     LET o == made.outbounds[i] IN \E b \in made.bridges :
         /\ o["type"] = "socks" /\ o["server_port"] = b.port
         /\ o["tag"] = made.tags[i] /\ b.to = o["tag"] /\ b.outbound["tag"] = b.to
         /\ \A c \in made.bridges : c.auth = o["auth"] <=> c = b

LEMMA BridgesMatch ==
  ASSUME NEW Q, Asked(Q), NEW s, NEW made, made = build(Q, s)
  PROVE  /\ \A b \in made.bridges : {"port", "auth"} \subseteq DOMAIN b
         /\ \A a, b \in made.bridges : a.auth = b.auth => a = b
         /\ BridgesLead(Q, made)
<1>. DEFINE M(i) == TagOf(Q.purpose, i)
            B(i) == Bridge(Q.profiles[i], M(i), Q.ports[i])
<1>1. PICK n \in Nat : n = Len(Q.profiles) /\ DOMAIN Q.profiles = 1 .. n
  BY MadeOutbounds
<1>2. /\ made.tags = [i \in 1 .. n |-> M(i)]
      /\ \A i \in 1 .. n : made.outbounds[i] = OutOf(Q, s, i)
  BY <1>1, MadeOutbounds
<1>3. made.bridges = {B(i) : i \in {j \in 1 .. n : is_xray(Q.profiles[j])}}
  <2>1. PICK tags : tags = [i \in DOMAIN Q.profiles |-> M(i)]
    OBVIOUS
  <2>2. made.bridges = {Bridge(Q.profiles[i], tags[i], Q.ports[i]) :
                            i \in {j \in DOMAIN tags : is_xray(Q.profiles[j])}}
    BY <2>1, Zenon DEF build
  <2>3. DOMAIN tags = 1 .. n /\ \A i \in 1 .. n : tags[i] = M(i)
    BY <1>1, <2>1
  <2>. HIDE DEF M
  <2>. QED
    BY <2>2, <2>3
<1>4. \A i, j \in 1 .. n : M(i) = M(j) => i = j
  BY <1>1, AskedSays
<1>5. \A i \in 1 .. n : /\ {"port", "auth"} \subseteq DOMAIN B(i)
                        /\ B(i).port = Q.ports[i] /\ B(i).auth = M(i) /\ B(i).to = M(i)
                        /\ B(i).outbound["tag"] = M(i)
  BY BridgeEnds
<1>. HIDE DEF B, M
<1>6. \A b \in made.bridges : {"port", "auth"} \subseteq DOMAIN b
  BY <1>3, <1>5
<1>7. \A a, b \in made.bridges : a.auth = b.auth => a = b
  BY <1>3, <1>4, <1>5
<1>8. ASSUME NEW i \in 1 .. n, is_xray(Q.profiles[i])
      PROVE  LET o == made.outbounds[i] IN \E b \in made.bridges :
                   /\ o["type"] = "socks" /\ o["server_port"] = b.port
                   /\ o["tag"] = made.tags[i] /\ b.to = o["tag"] /\ b.outbound["tag"] = b.to
                   /\ \A c \in made.bridges : c.auth = o["auth"] <=> c = b
  <2>1. made.outbounds[i] = socks_outbound(M(i), Q.ports[i])
    BY <1>2, <1>8, Zenon DEF OutOf, M
  <2>2. PICK o : /\ o = made.outbounds[i] /\ o["type"] = "socks" /\ o["server_port"] = Q.ports[i]
                 /\ o["tag"] = M(i) /\ o["auth"] = M(i)
    BY <2>1 DEF socks_outbound
  <2>3. B(i) \in made.bridges
    BY <1>3, <1>8
  <2>4. made.tags[i] = M(i)
    BY <1>2
  <2>5. \A c \in made.bridges : c.auth = o["auth"] <=> c = B(i)
    BY <1>5, <1>7, <2>2, <2>3
  <2>. QED
    BY <1>5, <2>2, <2>3, <2>4, <2>5
<1>. QED
  BY <1>2, <1>6, <1>7, <1>8 DEF BridgesLead

(***************************************************************************)
(* The lists a condition names, in the form sing-box reads.                *)
(***************************************************************************)
LEMMA ConditionLists ==
  ASSUME NEW c \in Condition
  PROVE  UNION {item.values : item \in {x \in ConditionToSingbox(c) : x.field = "rule_set"}}
           = IF c.kind = "rule_set" THEN Kept(c.values) ELSE {}
<1>. DEFINE V == Kept(c.values)
            F(v) == field(c.kind, v)
            Item(f) == [field |-> f, values |-> {v \in V : F(v) = f}]
            part == {Item(f) : f \in {F(v) : v \in V}}
            lists == UNION {item.values : item \in {x \in part : x.field = "rule_set"}}
<1>1. ConditionToSingbox(c) = part
  BY DEF ConditionToSingbox
<1>2. \A v \in V : F(v) = "rule_set" <=> c.kind = "rule_set"
  <2>1. c.kind \in MatchKinds
    BY DEF Condition
  <2>. QED
    BY <2>1 DEF field, MatchKinds
<1>. HIDE DEF F
<1>3. \A f : Item(f).field = f /\ Item(f).values = {v \in V : F(v) = f}
  OBVIOUS
<1>. HIDE DEF Item
<1>4. ASSUME NEW v
      PROVE  v \in lists <=> v \in V /\ F(v) = "rule_set"
  <2>1. v \in lists => v \in V /\ F(v) = "rule_set"
    BY <1>3
  <2>2. ASSUME v \in V, F(v) = "rule_set"
        PROVE  v \in lists
    <3>1. Item("rule_set") \in part
      BY <2>2
    <3>2. Item("rule_set").field = "rule_set" /\ v \in Item("rule_set").values
      BY <1>3, <2>2
    <3>. QED
      BY <3>1, <3>2
  <2>. QED
    BY <2>1, <2>2
<1>. HIDE DEF lists, V
<1>5. lists = IF c.kind = "rule_set" THEN V ELSE {}
  BY <1>2, <1>4
<1>. QED
  BY <1>1, <1>5 DEF lists, V

(***************************************************************************)
(* A match of one part.                                                    *)
(***************************************************************************)
LEMMA FlatParts ==
  ASSUME NEW part
  PROVE  "parts" \in DOMAIN Flat(part) /\ ToSet(Flat(part).parts) = {part}
<1>1. PICK none : none = ""
  BY Zenon
<1>2. PICK only : only = <<part>> /\ ToSet(only) = {part}
  <2>1. ToSet(<<part>>) = {part}
    BY DEF ToSet
  <2>. QED
    BY <2>1
<1>3. PICK match : match = [type |-> "default", mode |-> none, parts |-> only]
  OBVIOUS
<1>4. Flat(part) = match
  BY <1>1, <1>2, <1>3, Zenon DEF Flat
<1>5. "parts" \in DOMAIN match /\ match.parts = only
  BY <1>3
<1>. QED
  BY <1>2, <1>4, <1>5

(***************************************************************************)
(* The form of a rule routes to `proxy' or `direct' and names the lists    *)
(* the rule asks for.                                                      *)
(***************************************************************************)
LEMMA RuleNames ==
  ASSUME NEW rule \in RouteRule
  PROVE  /\ \A r \in ToSet(to_singbox(rule)) : r.action = "route" => r.outbound \in {"proxy", "direct"}
         /\ Lists(to_singbox(rule)) = rule_sets(rule)
<1>. DEFINE S == {ConditionToSingbox(c) : c \in Condition}
            C(i) == ConditionToSingbox(rule.conditions[i])
            Named(part) == UNION {item.values : item \in {x \in part : x.field = "rule_set"}}
<1>1. PICK parts \in Seq(S) : parts = Parts(rule)
  BY PartsOfRule
<1>2. ToSet(parts) = {C(i) : i \in Stated(rule)}
  BY <1>1, PartsOfRule
<1>3. \A i \in DOMAIN rule.conditions :
         Named(C(i)) = IF rule.conditions[i].kind = "rule_set" THEN Kept(rule.conditions[i].values) ELSE {}
  <2>1. PICK cs \in Seq(Condition) : cs = rule.conditions
    BY DEF RouteRule
  <2>2. \A i \in DOMAIN cs : cs[i] \in Condition
    OBVIOUS
  <2>. HIDE DEF Named
  <2>3. ASSUME NEW i \in DOMAIN cs
        PROVE  Named(C(i)) = IF cs[i].kind = "rule_set" THEN Kept(cs[i].values) ELSE {}
    <3>1. PICK c \in Condition : c = cs[i]
      BY <2>2
    <3>. QED
      BY <3>1, <2>1, ConditionLists DEF Named
  <2>. QED
    BY <2>1, <2>3
<1>4. \A i \in DOMAIN rule.conditions : i \notin Stated(rule) => Kept(rule.conditions[i].values) = {}
  BY DEF Stated
<1>5. Stated(rule) \subseteq DOMAIN rule.conditions
  BY DEF Stated
<1>. HIDE DEF S, C, Named
<1>6. rule.enabled => rule_sets(rule) = UNION {Named(part) : part \in ToSet(parts)}
  <2>. SUFFICES ASSUME rule.enabled
                PROVE  rule_sets(rule) = UNION {Named(part) : part \in ToSet(parts)}
    OBVIOUS
  <2>1. rule_sets(rule) = UNION {Kept(rule.conditions[i].values) :
                    i \in {j \in DOMAIN rule.conditions : rule.conditions[j].kind = "rule_set"}}
    BY DEF rule_sets
  <2>2. ASSUME NEW v \in rule_sets(rule)
        PROVE  \E part \in ToSet(parts) : v \in Named(part)
    <3>1. PICK i \in DOMAIN rule.conditions :
             rule.conditions[i].kind = "rule_set" /\ v \in Kept(rule.conditions[i].values)
      BY <2>1
    <3>2. i \in Stated(rule) /\ v \in Named(C(i))
      BY <3>1, <1>3, <1>4
    <3>. QED
      BY <3>2, <1>2
  <2>3. ASSUME NEW part \in ToSet(parts), NEW v \in Named(part)
        PROVE  v \in rule_sets(rule)
    <3>1. PICK i \in Stated(rule) : part = C(i)
      BY <1>2
    <3>2. i \in DOMAIN rule.conditions
      BY <3>1, <1>5
    <3>3. rule.conditions[i].kind = "rule_set" /\ v \in Kept(rule.conditions[i].values)
      BY <2>3, <3>1, <3>2, <1>3
    <3>. QED
      BY <2>1, <3>2, <3>3
  <2>. QED
    BY <2>2, <2>3
<1>7. CASE ~rule.enabled \/ parts = <<>>
  <2>1. to_singbox(rule) = <<>>
    BY <1>1, <1>7 DEF to_singbox
  <2>2. ToSet(to_singbox(rule)) = {}
    BY <2>1 DEF ToSet
  <2>3. rule_sets(rule) = {}
    <3>1. CASE ~rule.enabled
      BY <3>1 DEF rule_sets
    <3>2. CASE rule.enabled
      <4>1. ToSet(parts) = {}
        BY <3>2, <1>7 DEF ToSet
      <4>. QED
        BY <4>1, <3>2, <1>6
    <3>. QED
      BY <3>1, <3>2
  <2>. QED
    BY <2>2, <2>3 DEF Lists
<1>8. CASE ~(~rule.enabled \/ parts = <<>>)
  <2>. DEFINE mode == IF rule.mode = "any" THEN "or" ELSE "and"
  <2>1. PICK match : match = IF Len(parts) = 1 THEN Flat(parts[1])
                             ELSE [type |-> "logical", mode |-> mode, parts |-> parts]
    OBVIOUS
  <2>2. PICK r : r = GivenBy(match, ActionOf(rule.action))
    OBVIOUS
  <2>3. to_singbox(rule) = <<r>>
    BY <1>1, <1>8, <2>1, <2>2 DEF to_singbox
  <2>4. ToSet(to_singbox(rule)) = {r}
    BY <2>3 DEF ToSet
  <2>5. r.match = match /\ r.action = ActionOf(rule.action).action /\ r.outbound = ActionOf(rule.action).outbound
    BY <2>2 DEF GivenBy
  <2>6. r.action = "route" => r.outbound \in {"proxy", "direct"}
    <3>1. rule.action \in Actions
      BY DEF RouteRule
    <3>2. CASE rule.action = "block"
      <4>1. PICK none : none = ""
        BY Zenon
      <4>2. ActionOf(rule.action) = [action |-> "reject", outbound |-> none]
        BY <3>2, <4>1, Zenon DEF ActionOf
      <4>. QED
        BY <4>2, <2>5
    <3>3. CASE rule.action # "block"
      <4>1. ActionOf(rule.action) = [action |-> "route", outbound |-> rule.action]
        BY <3>3, Zenon DEF ActionOf
      <4>. QED
        BY <3>1, <3>3, <4>1, <2>5 DEF Actions
    <3>. QED
      BY <3>2, <3>3
  <2>7. "parts" \in DOMAIN match /\ ToSet(match.parts) = ToSet(parts)
    <3>1. CASE Len(parts) = 1
      <4>1. match = Flat(parts[1])
        BY <3>1, <2>1
      <4>2. ToSet(parts) = {parts[1]}
        BY <3>1 DEF ToSet
      <4>. QED
        BY <4>1, <4>2, FlatParts
    <3>2. CASE Len(parts) # 1
      BY <3>2, <2>1
    <3>. QED
      BY <3>1, <3>2
  <2>8. ListsOf(match) = UNION {Named(part) : part \in ToSet(parts)}
    <3>1. ListsOf(match) = UNION {i.values : i \in {x \in UNION ToSet(parts) : x.field = "rule_set"}}
      BY <2>7 DEF ListsOf
    <3>. QED
      BY <3>1 DEF Named
  <2>9. Lists(to_singbox(rule)) = ListsOf(match)
    BY <2>4, <2>5 DEF Lists
  <2>. QED
    BY <2>4, <2>6, <2>8, <2>9, <1>6, <1>8
<1>. QED
  BY <1>7, <1>8

(***************************************************************************)
(* So do the rules of the user together.                                   *)
(***************************************************************************)
LEMMA UserNames ==
  ASSUME NEW s \in Settings
  PROVE  /\ RoutedTo(UserRules(s)) \subseteq {"proxy", "direct"}
         /\ Lists(UserRules(s)) = UserLists(s)
<1>. DEFINE seqs == [i \in DOMAIN s.rules |-> to_singbox(s.rules[i])]
            M == UNION {ToSet(to_singbox(r)) : r \in RouteRule}
<1>1. PICK rules \in Seq(RouteRule) : rules = s.rules
  BY DEF Settings
<1>2. PICK N \in Nat : N = Len(rules) /\ DOMAIN rules = 1 .. N
  BY <1>1
<1>3. Len(seqs) = N /\ \A n \in 1 .. N : seqs[n] = to_singbox(rules[n]) /\ rules[n] \in RouteRule
  BY <1>1, <1>2
<1>4. ASSUME NEW r \in RouteRule
      PROVE  to_singbox(r) \in Seq(M)
  <2>1. PICK one : to_singbox(r) = <<>> \/ to_singbox(r) = <<one>>
    BY RuleSays
  <2>2. CASE to_singbox(r) = <<>>
    BY <2>2
  <2>3. CASE to_singbox(r) = <<one>>
    <3>1. one \in ToSet(<<one>>)
      BY DEF ToSet
    <3>2. one \in M
      BY <2>3, <3>1
    <3>. HIDE DEF M
    <3>. QED
      BY <2>3, <3>2
  <2>. QED
    BY <2>1, <2>2, <2>3
<1>5. UserRules(s) = Joined(seqs)
  BY DEF UserRules
<1>. HIDE DEF M, seqs
<1>6. \A n \in 1 .. N : seqs[n] \in Seq(M)
  BY <1>3, <1>4
<1>7. ToSet(UserRules(s)) = UNION {ToSet(seqs[n]) : n \in 1 .. N}
  BY <1>3, <1>5, <1>6, JoinedElements
<1>8. ToSet(UserRules(s)) = UNION {ToSet(to_singbox(rules[n])) : n \in 1 .. N}
  BY <1>3, <1>7
<1>9. \A n \in 1 .. N : /\ \A r \in ToSet(to_singbox(rules[n])) : r.action = "route" => r.outbound \in {"proxy", "direct"}
                        /\ Lists(to_singbox(rules[n])) = rule_sets(rules[n])
  BY <1>3, RuleNames
<1>10. RoutedTo(UserRules(s)) \subseteq {"proxy", "direct"}
  BY <1>8, <1>9 DEF RoutedTo
<1>11. Lists(UserRules(s)) = UNION {Lists(to_singbox(rules[n])) : n \in 1 .. N}
  BY <1>8 DEF Lists
<1>12. UserLists(s) = UNION {rule_sets(rules[n]) : n \in 1 .. N}
  BY <1>1, <1>2 DEF UserLists
<1>. QED
  BY <1>9, <1>10, <1>11, <1>12

(***************************************************************************)
(* The match of one list names that list.                                  *)
(***************************************************************************)
LEMMA InListNames ==
  ASSUME NEW n
  PROVE  ListsOf(InList(n)) = {n}
<1>1. PICK item : item = [field |-> "rule_set", values |-> {n}]
  OBVIOUS
<1>2. InList(n) = Flat({item})
  BY <1>1 DEF InList
<1>3. "parts" \in DOMAIN InList(n) /\ ToSet(InList(n).parts) = {{item}}
  BY <1>2, FlatParts
<1>4. item.field = "rule_set" /\ item.values = {n}
  BY <1>1
<1>5. {x \in UNION {{item}} : x.field = "rule_set"} = {item}
  BY <1>4
<1>6. UNION {i.values : i \in {item}} = {n}
  BY <1>4
<1>. QED
  BY <1>3, <1>5, <1>6 DEF ListsOf

(***************************************************************************)
(* The rules that stand first name nothing.                                *)
(***************************************************************************)
LEMMA AutomaticNames ==
  ASSUME NEW s
  PROVE  /\ Automatic(s) \in Seq(ToSet(Automatic(s)))
         /\ \A r \in ToSet(Automatic(s)) : Fields \subseteq DOMAIN r
         /\ RoutedTo(Automatic(s)) = {} /\ Lists(Automatic(s)) = {}
<1>1. PICK none : none = ""
  BY Zenon
<1>2. PICK sniff : sniff = GRule(Anything, "sniff", none)
  OBVIOUS
<1>3. PICK hijack : hijack = GRule(DnsQuery, "hijack-dns", none)
  OBVIOUS
<1>4. PICK resolve : resolve = GRule(Anything, "resolve", none)
  OBVIOUS
<1>5. PICK a : a \in {<<sniff>>, <<>>} /\ a = When("sniffing" \in s.on, <<sniff>>)
  BY DEF When
<1>6. PICK b : b \in {<<resolve>>, <<>>} /\ b = When("dns_strategy" \in s.on, <<resolve>>)
  BY DEF When
<1>7. PICK all : all = (a \o <<hijack>>) \o b /\ all = Automatic(s)
  BY <1>1, <1>2, <1>3, <1>4, <1>5, <1>6, Zenon DEF Automatic
<1>. DEFINE S == {sniff, hijack, resolve}
<1>8. <<sniff>> \in Seq(S) /\ <<hijack>> \in Seq(S) /\ <<resolve>> \in Seq(S) /\ <<>> \in Seq(S)
  OBVIOUS
<1>9. all \in Seq(S)
  <2>. HIDE DEF S
  <2>1. PICK h \in Seq(S) : h = <<hijack>>
    BY <1>8
  <2>2. a \in Seq(S) /\ b \in Seq(S)
    BY <1>5, <1>6, <1>8
  <2>. QED
    BY <2>1, <2>2, <1>7
<1>10. ToSet(all) \subseteq S /\ all \in Seq(ToSet(all))
  BY <1>9 DEF ToSet
<1>11. \A r \in S : /\ r.action # "route" /\ r.match \in {Anything, DnsQuery}
                    /\ Fields \subseteq DOMAIN r
  BY <1>2, <1>3, <1>4, RuleFields
<1>12. \A m \in {Anything, DnsQuery} : ListsOf(m) = {}
  BY DEF Anything, DnsQuery, ListsOf
<1>. HIDE DEF S
<1>13. RoutedTo(all) = {}
  BY <1>10, <1>11 DEF RoutedTo
<1>14. Lists(all) = {}
  BY <1>10, <1>11, <1>12 DEF Lists
<1>. QED
  BY <1>7, <1>10, <1>11, <1>13, <1>14

(***************************************************************************)
(* The rules for private networks name `direct' and one list.              *)
(***************************************************************************)
LEMMA PrivateNames ==
  /\ PrivateRules \in Seq(ToSet(PrivateRules))
  /\ \A r \in ToSet(PrivateRules) : Fields \subseteq DOMAIN r
  /\ RoutedTo(PrivateRules) = {"direct"} /\ Lists(PrivateRules) = {GeositePrivate}
<1>1. PICK own : own = GRule(Private, "route", "direct")
  OBVIOUS
<1>2. PICK listed : listed = GRule(InList(GeositePrivate), "route", "direct")
  OBVIOUS
<1>3. PICK all : all = <<own, listed>> /\ all = PrivateRules
  BY <1>1, <1>2 DEF PrivateRules
<1>4. ToSet(all) = {own, listed} /\ all \in Seq(ToSet(all))
  BY <1>3 DEF ToSet
<1>5. own.action = "route" /\ own.outbound = "direct" /\ own.match = Private
  BY <1>1, RuleFields
<1>6. listed.action = "route" /\ listed.outbound = "direct" /\ listed.match = InList(GeositePrivate)
  BY <1>2, RuleFields
<1>7. Fields \subseteq DOMAIN own /\ Fields \subseteq DOMAIN listed
  BY <1>1, <1>2, RuleFields
<1>8. RoutedTo(all) = {"direct"}
  BY <1>4, <1>5, <1>6 DEF RoutedTo
<1>9. ListsOf(own.match) = {}
  BY <1>5 DEF ListsOf, Private
<1>10. ListsOf(listed.match) = {GeositePrivate}
  BY <1>6, InListNames
<1>11. Lists(all) = {GeositePrivate}
  BY <1>4, <1>9, <1>10 DEF Lists
<1>. QED
  BY <1>3, <1>4, <1>7, <1>8, <1>11

(***************************************************************************)
(* No rules name nothing, and two lists of rules what either names.        *)
(***************************************************************************)
LEMMA NothingNamed ==
  <<>> \in Seq(ToSet(<<>>)) /\ ToSet(<<>>) = {} /\ RoutedTo(<<>>) = {} /\ Lists(<<>>) = {}
<1>1. ToSet(<<>>) = {}
  BY DEF ToSet
<1>. QED
  BY <1>1 DEF RoutedTo, Lists

LEMMA ConcatNames ==
  ASSUME NEW S, NEW a \in Seq(S), NEW b \in Seq(S)
  PROVE  /\ RoutedTo(a \o b) = RoutedTo(a) \cup RoutedTo(b)
         /\ Lists(a \o b) = Lists(a) \cup Lists(b)
<1>1. ToSet(a \o b) = ToSet(a) \cup ToSet(b)
  BY ConcatElements
<1>2. PICK ab : ab = a \o b
  OBVIOUS
<1>. QED
  BY <1>1, <1>2 DEF RoutedTo, Lists

(***************************************************************************)
(* A test names `direct' where the rules name `proxy', and the same lists. *)
(***************************************************************************)
Bypassed(s) == IF "bypass_private" \in s.on THEN {GeositePrivate} ELSE {}

LEMMA RewrittenNames ==
  ASSUME NEW S, NEW rules \in Seq(S), \A r \in ToSet(rules) : Fields \subseteq DOMAIN r,
         NEW new, new = [i \in DOMAIN rules |-> Rewritten(rules[i])]
  PROVE  /\ RoutedTo(new) \subseteq {"direct"} \cup (RoutedTo(rules) \ {"proxy"})
         /\ RoutedTo(rules) \ {"proxy"} \subseteq RoutedTo(new)
         /\ Lists(new) = Lists(rules)
<1>1. ASSUME NEW r \in ToSet(rules)
      PROVE  /\ Rewritten(r).match = r.match /\ Rewritten(r).action = r.action
             /\ Rewritten(r).outbound = IF r.outbound = "proxy" THEN "direct" ELSE r.outbound
  <2>1. Fields \subseteq DOMAIN r
    OBVIOUS
  <2>. QED
    BY <2>1 DEF Fields, Rewritten
<1>2. ToSet(new) = {Rewritten(r) : r \in ToSet(rules)}
  BY DEF ToSet
<1>3. Lists(new) = Lists(rules)
  BY <1>1, <1>2 DEF Lists
<1>4. RoutedTo(new) \subseteq {"direct"} \cup (RoutedTo(rules) \ {"proxy"})
  BY <1>1, <1>2 DEF RoutedTo
<1>5. RoutedTo(rules) \ {"proxy"} \subseteq RoutedTo(new)
  BY <1>1, <1>2 DEF RoutedTo
<1>. QED
  BY <1>3, <1>4, <1>5

(***************************************************************************)
(* What the route section names: what the rules text names, the lists of   *)
(* the user, and little else.                                              *)
(***************************************************************************)
LEMMA RouteNames ==
  ASSUME NEW s \in Settings, NEW for_test \in BOOLEAN, NEW route, route = route_section(s, for_test)
  PROVE  /\ route.final = IF for_test THEN "direct" ELSE "proxy"
         /\ route.resolver = IF for_test THEN {} ELSE {"dns-direct"}
         /\ Lists(route.rules) = (UserLists(s) \cup Lists(s.custom.rules)) \cup Bypassed(s)
         /\ RoutedTo(route.rules) \subseteq
              (RoutedTo(s.custom.rules) \ {"proxy"})
                \cup (IF for_test THEN {"direct"} ELSE {"proxy", "direct"})
         /\ RoutedTo(s.custom.rules) \ {"proxy"} \subseteq RoutedTo(route.rules)
<1>1. PICK A : A = When(~for_test, Automatic(s))
  OBVIOUS
<1>2. PICK U : U = UserRules(s)
  OBVIOUS
<1>3. PICK C : C = s.custom.rules
  OBVIOUS
<1>4. PICK P : P = When("bypass_private" \in s.on, PrivateRules)
  OBVIOUS
<1>. DEFINE S == (ToSet(A) \cup ToSet(U)) \cup (ToSet(C) \cup ToSet(P))
<1>5. A \in Seq(ToSet(A)) /\ RoutedTo(A) = {} /\ Lists(A) = {}
  <2>1. A = <<>> \/ A = Automatic(s)
    BY <1>1 DEF When
  <2>. QED
    BY <2>1, AutomaticNames, NothingNamed
<1>6. U \in Seq(ToSet(U)) /\ RoutedTo(U) \subseteq {"proxy", "direct"} /\ Lists(U) = UserLists(s)
  <2>1. PICK user \in Seq(UNION {ToSet(to_singbox(r)) : r \in RouteRule}) : user = U
    BY <1>2, UserRulesLead
  <2>2. user \in Seq(ToSet(user))
    BY DEF ToSet
  <2>. QED
    BY <1>2, <2>1, <2>2, UserNames
<1>7. C \in Seq(ToSet(C))
  <2>1. s.custom \in Texts
    BY DEF Settings
  <2>. QED
    BY <2>1, <1>3, SettingsWindowAssumption
<1>8. P \in Seq(ToSet(P)) /\ RoutedTo(P) \subseteq {"direct"} /\ Lists(P) = Bypassed(s)
  <2>1. CASE "bypass_private" \in s.on
    BY <2>1, <1>4, PrivateNames DEF When, Bypassed
  <2>2. CASE "bypass_private" \notin s.on
    <3>1. P = <<>>
      BY <2>2, <1>4 DEF When
    <3>. QED
      BY <3>1, <2>2, NothingNamed DEF Bypassed
  <2>. QED
    BY <2>1, <2>2
<1>9. \A r \in S : Fields \subseteq DOMAIN r
  <2>1. \A r \in ToSet(A) : Fields \subseteq DOMAIN r
    <3>1. A = <<>> \/ A = Automatic(s)
      BY <1>1 DEF When
    <3>. QED
      BY <3>1, AutomaticNames, NothingNamed
  <2>2. \A r \in ToSet(U) : Fields \subseteq DOMAIN r
    <3>1. PICK user \in Seq(UNION {ToSet(to_singbox(r)) : r \in RouteRule}) : user = U
      BY <1>2, UserRulesLead
    <3>2. \A r \in ToSet(user) : \E rule \in RouteRule : r \in ToSet(to_singbox(rule))
      BY DEF ToSet
    <3>. QED
      BY <3>1, <3>2, UserRulesFields
  <2>3. \A r \in ToSet(C) : Fields \subseteq DOMAIN r
    <3>1. s.custom \in Texts
      BY DEF Settings
    <3>. QED
      BY <3>1, <1>3, SettingsWindowAssumption DEF Fields
  <2>4. \A r \in ToSet(P) : Fields \subseteq DOMAIN r
    <3>1. P = <<>> \/ P = PrivateRules
      BY <1>4 DEF When
    <3>. QED
      BY <3>1, PrivateNames, NothingNamed
  <2>. QED
    BY <2>1, <2>2, <2>3, <2>4
<1>10. A \in Seq(S) /\ U \in Seq(S) /\ C \in Seq(S) /\ P \in Seq(S)
  <2>1. /\ ToSet(A) \subseteq S /\ ToSet(U) \subseteq S
        /\ ToSet(C) \subseteq S /\ ToSet(P) \subseteq S
    OBVIOUS
  <2>. HIDE DEF S
  <2>. QED
    BY <2>1, <1>5, <1>6, <1>7, <1>8, SeqMonotonic
<1>. HIDE DEF S
<1>11. PICK a \in Seq(S) : a = A
  BY <1>10
<1>12. PICK u \in Seq(S) : u = U
  BY <1>10
<1>13. PICK c \in Seq(S) : c = C
  BY <1>10
<1>14. PICK p \in Seq(S) : p = P
  BY <1>10
<1>15. PICK au \in Seq(S) : au = a \o u
  <2>1. a \o u \in Seq(S)
    OBVIOUS
  <2>. QED
    BY <2>1
<1>16. PICK auc \in Seq(S) : auc = au \o c
  <2>1. au \o c \in Seq(S)
    OBVIOUS
  <2>. QED
    BY <2>1
<1>17. PICK all \in Seq(S) : all = auc \o p
  <2>1. auc \o p \in Seq(S)
    OBVIOUS
  <2>. QED
    BY <2>1
<1>18. /\ RoutedTo(all) = ((RoutedTo(a) \cup RoutedTo(u)) \cup RoutedTo(c)) \cup RoutedTo(p)
       /\ Lists(all) = ((Lists(a) \cup Lists(u)) \cup Lists(c)) \cup Lists(p)
  <2>1. RoutedTo(au) = RoutedTo(a) \cup RoutedTo(u) /\ Lists(au) = Lists(a) \cup Lists(u)
    BY <1>15, ConcatNames
  <2>2. RoutedTo(auc) = RoutedTo(au) \cup RoutedTo(c) /\ Lists(auc) = Lists(au) \cup Lists(c)
    BY <1>16, ConcatNames
  <2>3. RoutedTo(all) = RoutedTo(auc) \cup RoutedTo(p) /\ Lists(all) = Lists(auc) \cup Lists(p)
    BY <1>17, ConcatNames
  <2>. QED
    BY <2>1, <2>2, <2>3
<1>19. /\ route.rules = [i \in DOMAIN all |-> IF for_test THEN Rewritten(all[i]) ELSE all[i]]
       /\ route.final = IF for_test THEN "direct" ELSE "proxy"
       /\ route.resolver = IF for_test THEN {} ELSE {"dns-direct"}
  <2>1. all = When(~for_test, Automatic(s)) \o UserRules(s) \o s.custom.rules
              \o When("bypass_private" \in s.on, PrivateRules)
    BY <1>1, <1>2, <1>3, <1>4, <1>11, <1>12, <1>13, <1>14, <1>15, <1>16, <1>17
  <2>. QED
    BY <2>1 DEF route_section
<1>20. RoutedTo(c) \subseteq RoutedTo(all) /\ RoutedTo(all) \subseteq RoutedTo(c) \cup {"proxy", "direct"}
  BY <1>5, <1>6, <1>8, <1>11, <1>12, <1>13, <1>14, <1>18
<1>21. Lists(all) = (UserLists(s) \cup Lists(c)) \cup Bypassed(s)
  BY <1>5, <1>6, <1>8, <1>11, <1>12, <1>13, <1>14, <1>18
<1>22. CASE for_test
  <2>1. \A r \in ToSet(all) : Fields \subseteq DOMAIN r
    BY <1>9 DEF ToSet
  <2>2. route.rules = [i \in DOMAIN all |-> Rewritten(all[i])]
    BY <1>19, <1>22
  <2>3. /\ RoutedTo(route.rules) \subseteq {"direct"} \cup (RoutedTo(all) \ {"proxy"})
        /\ RoutedTo(all) \ {"proxy"} \subseteq RoutedTo(route.rules)
        /\ Lists(route.rules) = Lists(all)
    BY <2>1, <2>2, RewrittenNames
  <2>. QED
    BY <2>3, <1>3, <1>13, <1>19, <1>20, <1>21, <1>22
<1>23. CASE ~for_test
  <2>1. route.rules = all
    <3>1. route.rules = [i \in DOMAIN all |-> all[i]]
      BY <1>19, <1>23
    <3>2. [i \in DOMAIN all |-> all[i]] = all
      OBVIOUS
    <3>. QED
      BY <3>1, <3>2
  <2>. QED
    BY <2>1, <1>3, <1>13, <1>19, <1>20, <1>21, <1>23
<1>. QED
  BY <1>22, <1>23

(***************************************************************************)
(* Finitely many finite sets make a finite set.                            *)
(***************************************************************************)
LEMMA UnionIsFinite ==
  ASSUME NEW N \in Nat, NEW f, \A n \in 1 .. N : IsFiniteSet(f[n])
  PROVE  IsFiniteSet(UNION {f[n] : n \in 1 .. N})
<1>. DEFINE Upto(m) == UNION {f[n] : n \in 1 .. m}
            Off == {m \in 0 .. N : ~IsFiniteSet(Upto(m))}
<1>1. Off = {}
  <2>. SUFFICES ASSUME Off # {} PROVE FALSE
    OBVIOUS
  <2>1. PICK m \in Off : \A k \in Off : m <= k
    <3>1. Off \in SUBSET Nat
      OBVIOUS
    <3>. HIDE DEF Off
    <3>. QED
      BY <3>1, Least
  <2>2. m # 0
    <3>1. Upto(0) = {}
      OBVIOUS
    <3>2. ~IsFiniteSet(Upto(m))
      BY <2>1
    <3>. HIDE DEF Upto
    <3>. QED
      BY <3>1, <3>2, FS_EmptySet
  <2>3. m \in 1 .. N /\ m - 1 \in 0 .. N /\ m - 1 \notin Off
    <3>1. m \in 1 .. N /\ m - 1 \in 0 .. N /\ ~(m <= m - 1)
      BY <2>1, <2>2
    <3>. HIDE DEF Off
    <3>. QED
      BY <2>1, <3>1
  <2>4. IsFiniteSet(Upto(m - 1)) /\ ~IsFiniteSet(Upto(m))
    BY <2>1, <2>3
  <2>5. Upto(m) = Upto(m - 1) \cup f[m]
    <3>1. \A n : n \in 1 .. m <=> (n \in 1 .. m - 1 \/ n = m)
      BY <2>3
    <3>. QED
      BY <3>1, Zenon
  <2>. HIDE DEF Upto
  <2>6. IsFiniteSet(f[m])
    BY <2>3
  <2>7. PICK first : first = Upto(m - 1)
    OBVIOUS
  <2>8. PICK last : last = f[m]
    OBVIOUS
  <2>9. IsFiniteSet(first \cup last)
    BY <2>4, <2>6, <2>7, <2>8, FS_Union
  <2>. QED
    BY <2>4, <2>5, <2>7, <2>8, <2>9
<1>2. N \in 0 .. N
  OBVIOUS
<1>. QED
  BY <1>1, <1>2

(***************************************************************************)
(* The rules of the user name finitely many lists.                         *)
(***************************************************************************)
LEMMA RuleListsFinite ==
  ASSUME NEW rule \in RouteRule
  PROVE  IsFiniteSet(rule_sets(rule))
<1>1. PICK cs \in Seq(Condition) : cs = rule.conditions
  BY DEF RouteRule
<1>2. PICK N \in Nat : N = Len(cs) /\ DOMAIN cs = 1 .. N
  BY <1>1
<1>. DEFINE f == [n \in 1 .. N |-> IF cs[n].kind = "rule_set" THEN Kept(cs[n].values) ELSE {}]
<1>3. \A n \in 1 .. N : IsFiniteSet(f[n])
  <2>. TAKE n \in 1 .. N
  <2>1. cs[n] \in Condition
    BY <1>2
  <2>2. cs[n].values \in ValueSets
    BY <2>1 DEF Condition
  <2>3. IsFiniteSet(Kept(cs[n].values))
    BY <2>2, KeptIsFinite DEF ValueSets
  <2>4. f[n] = Kept(cs[n].values) \/ f[n] = {}
    OBVIOUS
  <2>. HIDE DEF f
  <2>. QED
    BY <2>3, <2>4, FS_EmptySet
<1>4. rule.enabled => rule_sets(rule) = UNION {f[n] : n \in 1 .. N}
  BY <1>1, <1>2 DEF rule_sets
<1>5. ~rule.enabled => rule_sets(rule) = {}
  BY DEF rule_sets
<1>. HIDE DEF f
<1>6. IsFiniteSet(UNION {f[n] : n \in 1 .. N})
  BY <1>3, UnionIsFinite
<1>. QED
  BY <1>4, <1>5, <1>6, FS_EmptySet

LEMMA UserListsFinite ==
  ASSUME NEW s \in Settings
  PROVE  IsFiniteSet(UserLists(s))
<1>1. PICK rules \in Seq(RouteRule) : rules = s.rules
  BY DEF Settings
<1>2. PICK N \in Nat : N = Len(rules) /\ DOMAIN rules = 1 .. N
  BY <1>1
<1>. DEFINE f == [n \in 1 .. N |-> rule_sets(rules[n])]
<1>3. \A n \in 1 .. N : f[n] = rule_sets(rules[n]) /\ rules[n] \in RouteRule
  BY <1>2
<1>4. UserLists(s) = UNION {f[n] : n \in 1 .. N}
  BY <1>1, <1>2 DEF UserLists
<1>. HIDE DEF f
<1>5. \A n \in 1 .. N : IsFiniteSet(f[n])
  BY <1>3, RuleListsFinite
<1>. QED
  BY <1>4, <1>5, UnionIsFinite

(***************************************************************************)
(* The lists are declared in some order, each once.                        *)
(***************************************************************************)
NoneTwice(seq, N) ==
  DOMAIN seq = 1 .. N /\ Len(seq) = N /\ \A i, j \in 1 .. N : seq[i] = seq[j] => i = j

LEMMA ListedOnce ==
  ASSUME NEW S, IsFiniteSet(S)
  PROVE  ToSet(SetToSeq(S)) = S /\ \E N \in Nat : NoneTwice(SetToSeq(S), N)
<1>1. PICK n \in Nat : n = Cardinality(S)
  BY FS_CardinalityType
<1>2. \E f \in [1 .. n -> S] : IsInjective(f)
  <2>1. ExistsBijection(1 .. n, S)
    BY <1>1, FS_CardinalityType
  <2>. QED
    BY <2>1 DEF ExistsBijection, Bijection, Injection, Surjection, IsInjective
<1>3. PICK f : f = SetToSeq(S)
  OBVIOUS
<1>4. f \in [1 .. n -> S] /\ IsInjective(f)
  BY <1>1, <1>2, <1>3 DEF SetToSeq
<1>5. \A i, j \in 1 .. n : f[i] = f[j] => i = j
  BY <1>4 DEF IsInjective
<1>6. ToSet(f) = S
  <2>1. IsFiniteSet(1 .. n) /\ Cardinality(1 .. n) = n
    BY FS_Interval
  <2>2. f \in Injection(1 .. n, S)
    BY <1>4, <1>5 DEF Injection
  <2>3. f \in Surjection(1 .. n, S)
    BY <1>1, <2>1, <2>2, FS_Injection
  <2>4. f \in [1 .. n -> S] /\ \A y \in S : \E i \in 1 .. n : f[i] = y
    BY <2>3 DEF Surjection
  <2>. QED
    BY <2>4 DEF ToSet
<1>7. NoneTwice(f, n)
  BY <1>4, <1>5 DEF NoneTwice
<1>. QED
  BY <1>3, <1>6, <1>7

(***************************************************************************)
(* The tags of a sequence are those of its elements.                       *)
(***************************************************************************)
LEMMA TagsOf ==
  ASSUME NEW S, NEW a \in Seq(S)
  PROVE  Tags(a) = {x.tag : x \in ToSet(a)}
BY DEF Tags, ToSet

(***************************************************************************)
(* Tags stay unique when two sequences that share none are put together.   *)
(***************************************************************************)
LEMMA UniqueConcat ==
  ASSUME NEW S, NEW a \in Seq(S), NEW b \in Seq(S), Unique(a), Unique(b),
         Tags(a) \cap Tags(b) = {}
  PROVE  Unique(a \o b)
<1>1. PICK m \in Nat : m = Len(a) /\ DOMAIN a = 1 .. m
  OBVIOUS
<1>2. PICK n \in Nat : n = Len(b) /\ DOMAIN b = 1 .. n
  OBVIOUS
<1>3. PICK ab : ab = a \o b
  OBVIOUS
<1>4. /\ DOMAIN ab = 1 .. m + n /\ \A k \in 1 .. m : ab[k] = a[k]
      /\ \A k \in m + 1 .. m + n : k - m \in 1 .. n /\ ab[k] = b[k - m]
  BY <1>1, <1>2, <1>3
<1>5. \A i \in 1 .. m, j \in m + 1 .. m + n : ab[i].tag # ab[j].tag
  <2>1. \A i \in 1 .. m : a[i].tag \in Tags(a)
    BY <1>1 DEF Tags
  <2>2. \A j \in 1 .. n : b[j].tag \in Tags(b)
    BY <1>2 DEF Tags
  <2>. QED
    BY <2>1, <2>2, <1>4
<1>6. \A i, j \in 1 .. m : ab[i].tag = ab[j].tag => i = j
  BY <1>1, <1>4 DEF Unique
<1>7. \A i, j \in m + 1 .. m + n : ab[i].tag = ab[j].tag => i = j
  <2>1. \A i, j \in 1 .. n : b[i].tag = b[j].tag => i = j
    BY <1>2 DEF Unique
  <2>. TAKE i, j \in m + 1 .. m + n
  <2>. HAVE ab[i].tag = ab[j].tag
  <2>2. i - m \in 1 .. n /\ j - m \in 1 .. n /\ b[i - m].tag = b[j - m].tag
    BY <1>4
  <2>3. i - m = j - m
    BY <2>1, <2>2
  <2>. QED
    BY <2>3
<1>8. \A i \in 1 .. m + n : i \in 1 .. m \/ i \in m + 1 .. m + n
  OBVIOUS
<1>9. Unique(ab)
  BY <1>4, <1>5, <1>6, <1>7, <1>8 DEF Unique
<1>. QED
  BY <1>3, <1>9

(***************************************************************************)
(* A name has one declaration when it is published, and none otherwise.    *)
(***************************************************************************)
Entries(detour) == {[tag |-> n, download_detour |-> detour] : n \in Published}

LEMMA Declares ==
  ASSUME NEW name, NEW detour
  PROVE  /\ rule_set_declaration(name, detour) \in Seq(Entries(detour))
         /\ Tags(rule_set_declaration(name, detour)) = IF name \in Published THEN {name} ELSE {}
         /\ Unique(rule_set_declaration(name, detour))
<1>1. CASE name \in Published
  <2>1. PICK e : e = [tag |-> name, download_detour |-> detour]
    OBVIOUS
  <2>2. e \in Entries(detour) /\ e.tag = name
    BY <2>1, <1>1 DEF Entries
  <2>3. rule_set_declaration(name, detour) = <<e>>
    BY <1>1, <2>1 DEF rule_set_declaration
  <2>4. <<e>> \in Seq(Entries(detour))
    BY <2>2
  <2>5. Tags(<<e>>) = {name} /\ Unique(<<e>>)
    BY <2>2 DEF Tags, Unique
  <2>. QED
    BY <1>1, <2>3, <2>4, <2>5
<1>2. CASE name \notin Published
  <2>1. rule_set_declaration(name, detour) = <<>>
    BY <1>2 DEF rule_set_declaration
  <2>. QED
    BY <1>2, <2>1 DEF Tags, Unique
<1>. QED
  BY <1>1, <1>2

(***************************************************************************)
(* The declarations of a sequence of names that has none twice.            *)
(***************************************************************************)
Declared(names, detour) == Joined([i \in DOMAIN names |-> rule_set_declaration(names[i], detour)])

LEMMA DeclaresAll ==
  ASSUME NEW names, NEW N \in Nat, NoneTwice(names, N), NEW detour
  PROVE  LET all == Declared(names, detour)
         IN  all \in Seq(Entries(detour)) /\ Tags(all) = ToSet(names) \cap Published /\ Unique(all)
<1>0. /\ DOMAIN names = 1 .. N /\ Len(names) = N
      /\ \A i, j \in 1 .. N : names[i] = names[j] => i = j
  BY DEF NoneTwice
<1>. DEFINE D(i) == rule_set_declaration(names[i], detour)
            S == Entries(detour)
<1>1. PICK seqs : seqs = [i \in 1 .. N |-> D(i)]
  OBVIOUS
<1>2. Len(seqs) = N /\ \A n \in 1 .. N : seqs[n] = D(n)
  BY <1>1
<1>3. \A n \in 1 .. N : /\ D(n) \in Seq(S) /\ Unique(D(n))
                        /\ Tags(D(n)) = IF names[n] \in Published THEN {names[n]} ELSE {}
  BY Declares
<1>. HIDE DEF D, S
<1>4. \A n \in 1 .. N : seqs[n] \in Seq(S)
  BY <1>2, <1>3
<1>5. PICK f : JoinsBy(f, seqs, N, S)
  BY <1>2, <1>4, JoinedRuns
<1>6. /\ f \in [0 .. N -> Seq(S)]
      /\ f[0] = <<>> /\ Joined(seqs) = f[N]
      /\ \A n \in 1 .. N : f[n] = f[n - 1] \o seqs[n]
  BY <1>5 DEF JoinsBy
<1>7. Declared(names, detour) = f[N]
  BY <1>0, <1>1, <1>6 DEF D, Declared
<1>. DEFINE Upto(m) == {names[k] : k \in 1 .. m} \cap Published
            Right(m) == Tags(f[m]) = Upto(m) /\ Unique(f[m])
            Off == {m \in 0 .. N : ~Right(m)}
<1>8. Off = {}
  <2>. SUFFICES ASSUME Off # {} PROVE FALSE
    OBVIOUS
  <2>1. PICK m \in Off : \A k \in Off : m <= k
    <3>1. Off \in SUBSET Nat
      OBVIOUS
    <3>. HIDE DEF Off
    <3>. QED
      BY <3>1, Least
  <2>2. Right(0)
    <3>1. Tags(<<>>) = {} /\ Unique(<<>>)
      BY DEF Tags, Unique
    <3>2. Upto(0) = {}
      OBVIOUS
    <3>. HIDE DEF Upto
    <3>. QED
      BY <3>1, <3>2, <1>6
  <2>3. m \in 1 .. N /\ m - 1 \in 0 .. N /\ ~(m <= m - 1)
    <3>1. m # 0
      <4>. HIDE DEF Right
      <4>. QED
        BY <2>1, <2>2
    <3>. QED
      BY <2>1, <3>1
  <2>4. Right(m - 1) /\ ~Right(m)
    <3>. HIDE DEF Right
    <3>. QED
      BY <2>1, <2>3
  <2>5. Upto(m) = Upto(m - 1) \cup (IF names[m] \in Published THEN {names[m]} ELSE {})
    <3>1. \A n : n \in 1 .. m <=> (n \in 1 .. m - 1 \/ n = m)
      BY <2>3
    <3>. QED
      BY <3>1, Zenon
  <2>6. names[m] \notin Upto(m - 1)
    <3>1. \A k \in 1 .. m - 1 : k \in 1 .. N /\ k # m
      BY <2>3
    <3>. QED
      BY <2>3, <3>1, <1>0
  <2>. HIDE DEF Upto
  <2>7. PICK a \in Seq(S) : a = f[m - 1] /\ Tags(a) = Upto(m - 1) /\ Unique(a)
    BY <1>6, <2>3, <2>4
  <2>8. PICK b \in Seq(S) : /\ b = D(m) /\ Unique(b)
                            /\ Tags(b) = IF names[m] \in Published THEN {names[m]} ELSE {}
    BY <1>3, <2>3
  <2>9. f[m] = a \o b
    BY <1>2, <1>6, <2>3, <2>7, <2>8
  <2>10. Unique(a \o b)
    BY <2>6, <2>7, <2>8, UniqueConcat
  <2>11. Tags(a \o b) = Tags(a) \cup Tags(b)
    <3>1. a \o b \in Seq(S)
      OBVIOUS
    <3>2. PICK ab \in Seq(S) : ab = a \o b
      BY <3>1
    <3>3. ToSet(ab) = ToSet(a) \cup ToSet(b)
      BY <3>2, ConcatElements
    <3>4. Tags(ab) = Tags(a) \cup Tags(b)
      BY <3>3, TagsOf
    <3>. QED
      BY <3>2, <3>4
  <2>. QED
    BY <2>4, <2>5, <2>7, <2>8, <2>9, <2>10, <2>11
<1>9. Right(N)
  <2>1. N \in 0 .. N
    OBVIOUS
  <2>. HIDE DEF Right
  <2>. QED
    BY <2>1, <1>8
<1>10. Upto(N) = ToSet(names) \cap Published
  BY <1>0 DEF ToSet
<1>11. Declared(names, detour) \in Seq(S)
  BY <1>6, <1>7
<1>. HIDE DEF Upto
<1>. QED
  BY <1>7, <1>9, <1>10, <1>11 DEF S

(***************************************************************************)
(* The rule sets of a configuration: the published lists of the user and   *)
(* the one of the switch, each once unless both name that one.             *)
(***************************************************************************)
LEMMA DeclaredNames ==
  ASSUME NEW s \in Settings, NEW for_test \in BOOLEAN, NEW route, route = route_section(s, for_test)
  PROVE  /\ Tags(route.rule_set) = (UserLists(s) \cap Published) \cup Bypassed(s)
         /\ \/ Unique(route.rule_set)
            \/ "bypass_private" \in s.on /\ GeositePrivate \in UserLists(s)
         /\ \A x \in ToSet(route.rule_set) :
               x.download_detour = IF for_test THEN "direct" ELSE "proxy"
<1>1. PICK detour : detour = IF for_test THEN "direct" ELSE "proxy"
  OBVIOUS
<1>2. PICK names : names = SetToSeq(UserLists(s))
  OBVIOUS
<1>. DEFINE S == Entries(detour)
<1>3. PICK all : all = Declared(names, detour)
  OBVIOUS
<1>4. PICK own : own = When("bypass_private" \in s.on, rule_set_declaration(GeositePrivate, detour))
  OBVIOUS
<1>5. route.rule_set = all \o own
  BY <1>1, <1>2, <1>3, <1>4 DEF route_section, Declared
<1>6. all \in Seq(S) /\ Tags(all) = UserLists(s) \cap Published /\ Unique(all)
  <2>1. IsFiniteSet(UserLists(s))
    BY UserListsFinite
  <2>2. ToSet(names) = UserLists(s) /\ \E N \in Nat : NoneTwice(names, N)
    BY <1>2, <2>1, ListedOnce
  <2>. QED
    BY <1>3, <2>2, DeclaresAll
<1>7. own \in Seq(S) /\ Tags(own) = Bypassed(s) /\ Unique(own)
  <2>1. CASE "bypass_private" \in s.on
    <3>1. own = rule_set_declaration(GeositePrivate, detour) /\ GeositePrivate \in Published
      BY <1>4, <2>1, RequestAssumption DEF When
    <3>. QED
      BY <3>1, <2>1, Declares DEF Bypassed
  <2>2. CASE "bypass_private" \notin s.on
    <3>1. own = <<>>
      BY <1>4, <2>2 DEF When
    <3>. QED
      BY <3>1, <2>2 DEF Tags, Unique, Bypassed
  <2>. QED
    BY <2>1, <2>2
<1>. HIDE DEF S
<1>8. PICK a \in Seq(S) : a = all
  BY <1>6
<1>9. PICK b \in Seq(S) : b = own
  BY <1>7
<1>10. PICK ab \in Seq(S) : ab = a \o b
  <2>1. a \o b \in Seq(S)
    OBVIOUS
  <2>. QED
    BY <2>1
<1>11. route.rule_set = ab
  BY <1>5, <1>8, <1>9, <1>10
<1>12. Tags(ab) = Tags(a) \cup Tags(b)
  <2>1. ToSet(ab) = ToSet(a) \cup ToSet(b)
    BY <1>10, ConcatElements
  <2>. QED
    BY <2>1, TagsOf
<1>13. \/ Tags(a) \cap Tags(b) = {}
       \/ "bypass_private" \in s.on /\ GeositePrivate \in UserLists(s)
  BY <1>6, <1>7, <1>8, <1>9 DEF Bypassed
<1>14. Tags(a) \cap Tags(b) = {} => Unique(ab)
  BY <1>6, <1>7, <1>8, <1>9, <1>10, UniqueConcat
<1>15. \A x \in ToSet(ab) : x.download_detour = detour
  <2>1. \A x \in ToSet(ab) : x \in Entries(detour)
    BY DEF ToSet, S
  <2>. QED
    BY <2>1 DEF Entries
<1>. QED
  BY <1>1, <1>6, <1>7, <1>8, <1>9, <1>11, <1>12, <1>13, <1>14, <1>15

(***************************************************************************)
(* The DNS servers have distinct tags and go through the proxy or          *)
(* directly.                                                               *)
(***************************************************************************)
LEMMA DnsServerNames ==
  ASSUME NEW s
  PROVE  /\ Unique(DnsServers(s))
         /\ {x.detour : x \in ToSet(DnsServers(s))} \ {Blank} \subseteq {"proxy"}
         /\ {"dns-remote", "dns-direct", "dns-local"} \subseteq Tags(DnsServers(s))
         /\ "fakedns" \in s.on => "dns-fake" \in Tags(DnsServers(s))
<1>1. PICK none : none = "" /\ none = Blank
  BY Zenon DEF Blank
<1>2. PICK remote : remote = [tag |-> "dns-remote", detour |-> "proxy"]
  OBVIOUS
<1>3. PICK direct : direct = [tag |-> "dns-direct", detour |-> none]
  OBVIOUS
<1>4. PICK local : local = [tag |-> "dns-local", detour |-> none]
  OBVIOUS
<1>5. PICK fake : fake = [tag |-> "dns-fake", detour |-> none]
  OBVIOUS
<1>6. DnsServers(s) = <<remote, direct, local>> \o When("fakedns" \in s.on, <<fake>>)
  BY <1>1, <1>2, <1>3, <1>4, <1>5, Zenon DEF DnsServers
<1>7. PICK listing : listing = DnsServers(s)
  OBVIOUS
<1>8. /\ listing[1] = remote /\ listing[2] = direct /\ listing[3] = local
      /\ \/ DOMAIN listing = 1 .. 3 /\ "fakedns" \notin s.on
         \/ DOMAIN listing = 1 .. 4 /\ listing[4] = fake
  <2>1. CASE "fakedns" \in s.on
    <3>1. listing = <<remote, direct, local>> \o <<fake>>
      BY <1>6, <1>7, <2>1 DEF When
    <3>. QED
      BY <3>1
  <2>2. CASE "fakedns" \notin s.on
    <3>1. listing = <<remote, direct, local>> \o <<>>
      BY <1>6, <1>7, <2>2 DEF When
    <3>. QED
      BY <3>1, <2>2
  <2>. QED
    BY <2>1, <2>2
<1>9. /\ remote.tag = "dns-remote" /\ direct.tag = "dns-direct" /\ local.tag = "dns-local"
      /\ fake.tag = "dns-fake" /\ remote.detour = "proxy"
      /\ direct.detour = none /\ local.detour = none /\ fake.detour = none
  BY <1>2, <1>3, <1>4, <1>5
<1>10. \A i \in DOMAIN listing : i \in 1 .. 4 /\ i \in {1, 2, 3, 4}
  BY <1>8
<1>11. Unique(listing)
  BY <1>8, <1>9, <1>10 DEF Unique
<1>12. \A x \in ToSet(listing) : x.detour = "proxy" \/ x.detour = none
  BY <1>8, <1>9, <1>10 DEF ToSet
<1>13. {"dns-remote", "dns-direct", "dns-local"} \subseteq Tags(listing)
  BY <1>8, <1>9 DEF Tags
<1>14. "fakedns" \in s.on => "dns-fake" \in Tags(listing)
  BY <1>8, <1>9 DEF Tags
<1>15. {x.detour : x \in ToSet(listing)} \ {Blank} \subseteq {"proxy"}
  BY <1>1, <1>12
<1>. QED
  BY <1>7, <1>11, <1>13, <1>14, <1>15

(***************************************************************************)
(* The DNS section names its own servers only.                             *)
(***************************************************************************)
LEMMA DnsNames ==
  ASSUME NEW s, NEW dns, dns = dns_section(s)
  PROVE  /\ Unique(dns.servers)
         /\ {x.detour : x \in ToSet(dns.servers)} \ {Blank} \subseteq {"proxy"}
         /\ (RoutedTo(dns.rules) \cup dns.resolvers) \cup {"dns-direct"} \subseteq Tags(dns.servers)
         /\ Lists(dns.rules) \subseteq Bypassed(s)
<1>1. PICK fake : fake = GRule(Addresses, "route", "dns-fake")
  OBVIOUS
<1>2. PICK private : private = GRule(InList(GeositePrivate), "route", "dns-direct")
  OBVIOUS
<1>3. PICK remote : remote = GRule(Anything, "route", "dns-remote")
  OBVIOUS
<1>4. PICK a : a = When("fakedns" \in s.on, <<fake>>)
  OBVIOUS
<1>5. PICK b : b = When({"dns_routing", "bypass_private"} \subseteq s.on, <<private>>)
  OBVIOUS
<1>6. PICK all : all = (a \o b) \o <<remote>> /\ all = dns.rules
  BY <1>1, <1>2, <1>3, <1>4, <1>5 DEF dns_section
<1>7. dns.servers = DnsServers(s) /\ dns.resolvers = {"dns-local"}
  BY DEF dns_section
<1>. DEFINE S == {fake, private, remote}
            M == ((IF "fakedns" \in s.on THEN {fake} ELSE {})
                    \cup (IF "bypass_private" \in s.on THEN {private} ELSE {})) \cup {remote}
<1>8. <<fake>> \in Seq(S) /\ <<private>> \in Seq(S) /\ <<remote>> \in Seq(S) /\ <<>> \in Seq(S)
  OBVIOUS
<1>9. /\ ToSet(<<fake>>) = {fake} /\ ToSet(<<private>>) = {private} /\ ToSet(<<remote>>) = {remote}
      /\ ToSet(<<>>) = {}
  BY DEF ToSet
<1>10. a \in Seq(S) /\ ToSet(a) \subseteq M
  <2>1. CASE "fakedns" \in s.on
    <3>1. a = <<fake>>
      BY <2>1, <1>4 DEF When
    <3>. HIDE DEF S
    <3>. QED
      BY <3>1, <2>1, <1>8, <1>9
  <2>2. CASE "fakedns" \notin s.on
    <3>1. a = <<>>
      BY <2>2, <1>4 DEF When
    <3>. HIDE DEF S
    <3>. QED
      BY <3>1, <1>8, <1>9
  <2>. QED
    BY <2>1, <2>2
<1>11. b \in Seq(S) /\ ToSet(b) \subseteq M
  <2>1. CASE {"dns_routing", "bypass_private"} \subseteq s.on
    <3>1. b = <<private>> /\ "bypass_private" \in s.on
      BY <2>1, <1>5 DEF When
    <3>. HIDE DEF S
    <3>. QED
      BY <3>1, <1>8, <1>9
  <2>2. CASE ~({"dns_routing", "bypass_private"} \subseteq s.on)
    <3>1. b = <<>>
      BY <2>2, <1>5 DEF When
    <3>. HIDE DEF S
    <3>. QED
      BY <3>1, <1>8, <1>9
  <2>. QED
    BY <2>1, <2>2
<1>. HIDE DEF S
<1>12. ToSet(all) \subseteq M
  <2>1. PICK last \in Seq(S) : last = <<remote>> /\ ToSet(last) \subseteq M
    BY <1>8, <1>9
  <2>2. ToSet(a \o b) = ToSet(a) \cup ToSet(b) /\ a \o b \in Seq(S)
    BY <1>10, <1>11, ConcatElements
  <2>3. PICK ab \in Seq(S) : ab = a \o b
    BY <2>2
  <2>4. ToSet(ab \o last) = ToSet(ab) \cup ToSet(last)
    BY ConcatElements
  <2>. QED
    BY <2>1, <2>2, <2>3, <2>4, <1>6, <1>10, <1>11
<1>13. fake.outbound = "dns-fake" /\ private.outbound = "dns-direct" /\ remote.outbound = "dns-remote"
  BY <1>1, <1>2, <1>3, RuleFields
<1>14. \A r \in ToSet(all) : r.outbound \in Tags(dns.servers)
  BY <1>7, <1>12, <1>13, DnsServerNames
<1>15. RoutedTo(all) \subseteq Tags(dns.servers)
  BY <1>14 DEF RoutedTo
<1>16. ListsOf(fake.match) = {} /\ ListsOf(remote.match) = {}
  <2>1. fake.match = Addresses /\ remote.match = Anything
    BY <1>1, <1>3, RuleFields
  <2>. QED
    BY <2>1 DEF ListsOf, Addresses, Anything
<1>17. ListsOf(private.match) = {GeositePrivate}
  <2>1. private.match = InList(GeositePrivate)
    BY <1>2, RuleFields
  <2>. QED
    BY <2>1, InListNames
<1>18. Lists(all) \subseteq Bypassed(s)
  BY <1>12, <1>16, <1>17 DEF Lists, Bypassed
<1>. QED
  BY <1>6, <1>7, <1>15, <1>18, DnsServerNames

(***************************************************************************)
(* So does that of a configuration, and without a DNS service only the     *)
(* default resolver leads nowhere.                                         *)
(***************************************************************************)
LEMMA MadeDns ==
  ASSUME NEW s, NEW for_test \in BOOLEAN, NEW dns,
         dns = IF "dns_enabled" \in s.on /\ ~for_test THEN dns_section(s) ELSE NoDns
  PROVE  /\ Unique(dns.servers)
         /\ {x.detour : x \in ToSet(dns.servers)} \ {Blank} \subseteq
              IF for_test THEN {} ELSE {"proxy"}
         /\ ((RoutedTo(dns.rules) \cup dns.resolvers) \cup (IF for_test THEN {} ELSE {"dns-direct"}))
              \ Tags(dns.servers) = IF "dns_enabled" \in s.on \/ for_test THEN {} ELSE {"dns-direct"}
         /\ Lists(dns.rules) \subseteq Bypassed(s)
<1>1. CASE "dns_enabled" \in s.on /\ ~for_test
  BY <1>1, DnsNames
<1>2. CASE ~("dns_enabled" \in s.on /\ ~for_test)
  <2>1. dns.servers = <<>> /\ dns.rules = <<>> /\ dns.resolvers = {}
    BY <1>2 DEF NoDns
  <2>2. Unique(dns.servers) /\ Tags(dns.servers) = {} /\ ToSet(dns.servers) = {}
    BY <2>1, NothingNamed DEF Unique, Tags
  <2>3. RoutedTo(dns.rules) = {} /\ Lists(dns.rules) = {}
    BY <2>1, NothingNamed
  <2>. QED
    BY <2>1, <2>2, <2>3, <1>2
<1>. QED
  BY <1>1, <1>2

(***************************************************************************)
(* The names that lead to no declaration are the ones the settings leave   *)
(* open, and no other.                                                     *)
(***************************************************************************)
Undeclared(Q, s, made) ==
  (IF "dns_enabled" \in s.on \/ Q.purpose = "test" THEN {} ELSE {"dns-direct"})
  \cup (UserLists(s) \ Published)
  \cup (Lists(s.custom.rules) \ Tags(made.route.rule_set))
  \cup (RoutedTo(s.custom.rules) \ (OutboundTags(made) \cup {"proxy"}))

LEMMA MadeDangling ==
  ASSUME NEW Q, Asked(Q), NEW s \in Settings, NEW made, made = build(Q, s)
  PROVE  Dangling(made) = Undeclared(Q, s, made)
<1>1. PICK for_test \in BOOLEAN : for_test <=> Q.purpose = "test"
  OBVIOUS
<1>2. PICK route : route = route_section(s, for_test)
  OBVIOUS
<1>3. PICK dns : dns = IF "dns_enabled" \in s.on /\ ~for_test THEN dns_section(s) ELSE NoDns
  OBVIOUS
<1>4. made.route = route /\ made.dns = dns
  BY <1>1, <1>2, <1>3 DEF build
<1>5. PICK Out : Out = OutboundTags(made)
  OBVIOUS
<1>6. PICK Sets : Sets = Tags(route.rule_set)
  OBVIOUS
<1>7. PICK Servers : Servers = Tags(dns.servers)
  OBVIOUS
<1>8. PICK download : download = {x.download_detour : x \in ToSet(route.rule_set)}
  OBVIOUS
<1>9. PICK detours : detours = {x.detour : x \in ToSet(dns.servers)} \ {Blank}
  OBVIOUS
<1>10. Dangling(made) =
         ((((((RoutedTo(route.rules) \cup {route.final}) \cup Selected(made)) \cup detours) \cup download) \ Out)
            \cup (((RoutedTo(dns.rules) \cup dns.resolvers) \cup route.resolver) \ Servers))
            \cup ((Lists(route.rules) \cup Lists(dns.rules)) \ Sets)
  BY <1>4, <1>5, <1>6, <1>7, <1>8, <1>9 DEF Dangling, Selected
<1>11. /\ "direct" \in Out /\ Selected(made) \subseteq Out
       /\ ~for_test => "proxy" \in Out
  BY <1>1, <1>5, OutboundNames
<1>12. /\ route.final = IF for_test THEN "direct" ELSE "proxy"
       /\ route.resolver = IF for_test THEN {} ELSE {"dns-direct"}
       /\ Lists(route.rules) = (UserLists(s) \cup Lists(s.custom.rules)) \cup Bypassed(s)
       /\ RoutedTo(route.rules) \subseteq
              (RoutedTo(s.custom.rules) \ {"proxy"})
                \cup (IF for_test THEN {"direct"} ELSE {"proxy", "direct"})
       /\ RoutedTo(s.custom.rules) \ {"proxy"} \subseteq RoutedTo(route.rules)
  BY <1>2, RouteNames
<1>13. /\ Sets = (UserLists(s) \cap Published) \cup Bypassed(s)
       /\ download \subseteq {IF for_test THEN "direct" ELSE "proxy"}
  BY <1>2, <1>6, <1>8, DeclaredNames
<1>14. /\ detours \subseteq IF for_test THEN {} ELSE {"proxy"}
       /\ ((RoutedTo(dns.rules) \cup dns.resolvers) \cup (IF for_test THEN {} ELSE {"dns-direct"})) \ Servers
            = IF "dns_enabled" \in s.on \/ for_test THEN {} ELSE {"dns-direct"}
       /\ Lists(dns.rules) \subseteq Bypassed(s)
  BY <1>3, <1>7, <1>9, MadeDns
<1>15. ((((RoutedTo(route.rules) \cup {route.final}) \cup Selected(made)) \cup detours) \cup download) \ Out
          = RoutedTo(s.custom.rules) \ (Out \cup {"proxy"})
  <2>1. PICK one \in {"proxy", "direct"} : /\ one = IF for_test THEN "direct" ELSE "proxy"
                                           /\ one \in Out /\ route.final = one
    BY <1>11, <1>12
  <2>2. detours \subseteq {one} \ {"direct"} /\ download \subseteq {one} /\ Selected(made) \subseteq Out
    BY <2>1, <1>11, <1>13, <1>14
  <2>3. PICK routed : routed = RoutedTo(route.rules)
    OBVIOUS
  <2>4. PICK text : text = RoutedTo(s.custom.rules)
    OBVIOUS
  <2>5. routed \subseteq (text \ {"proxy"}) \cup {one, "direct"} /\ text \ {"proxy"} \subseteq routed
    BY <2>1, <2>3, <2>4, <1>12
  <2>6. ((((routed \cup {one}) \cup Selected(made)) \cup detours) \cup download) \ Out
          = text \ (Out \cup {"proxy"})
    BY <2>1, <2>2, <2>5, <1>11
  <2>. QED
    BY <2>1, <2>3, <2>4, <2>6
<1>16. ((RoutedTo(dns.rules) \cup dns.resolvers) \cup route.resolver) \ Servers
         = IF "dns_enabled" \in s.on \/ Q.purpose = "test" THEN {} ELSE {"dns-direct"}
  BY <1>1, <1>12, <1>14
<1>17. (Lists(route.rules) \cup Lists(dns.rules)) \ Sets
         = (UserLists(s) \ Published) \cup (Lists(s.custom.rules) \ Sets)
  <2>1. Bypassed(s) \subseteq Published
    BY RequestAssumption DEF Bypassed
  <2>2. Lists(route.rules) \cup Lists(dns.rules)
          = (UserLists(s) \cup Lists(s.custom.rules)) \cup Bypassed(s)
    BY <1>12, <1>14
  <2>. QED
    BY <2>1, <2>2, <1>13
<1>. QED
  BY <1>4, <1>5, <1>6, <1>10, <1>15, <1>16, <1>17 DEF Undeclared

-----------------------------------------------------------------------------
(* Requests *)

(***************************************************************************)
(* What is given to the core is a request with settings of the window.     *)
(***************************************************************************)
LEMMA RequestStep == WindowInv /\ RequestInv /\ [Next]_vars => RequestInv'
<1>. SUFFICES ASSUME WindowInv, RequestInv, [Next]_vars PROVE RequestInv'
  OBVIOUS
<1>1. CASE UNCHANGED vars
  BY <1>1 DEF vars, RequestInv
<1>2. ASSUME NEW r \in Requests, Submit(r)
      PROVE  RequestInv'
  <2>1. settings \in Settings
    BY DEF WindowInv, TypeOK
  <2>2. request' = [purpose |-> r.purpose, profiles |-> r.profiles, ports |-> r.ports,
                    settings |-> settings]
    BY <1>2 DEF Submit
  <2>3. /\ request'.purpose = r.purpose /\ request'.profiles = r.profiles
        /\ request'.settings = settings
    BY <2>2
  <2>. QED
    BY <2>1, <2>3 DEF RequestInv, Asked
<1>3. request' = None => RequestInv'
  BY DEF RequestInv
<1>4. CASE Next
  <2>1. ASSUME NEW i, Toggle(i) \/ MoveUp(i) \/ MoveDown(i) \/ RemoveRule(i) \/ EditRule(i)
        PROVE  request' = None
    BY <2>1 DEF Toggle, MoveUp, MoveDown, RemoveRule, EditRule, FillWith, Present
  <2>2. ASSUME NEW t, ImportRoutes(t) \/ ImportEverything(t) \/ SaveText(t)
        PROVE  request' = None
    BY <2>2 DEF ImportRoutes, ImportEverything, SaveText
  <2>3. ASSUME NEW c, NEW i, TypeCondition(i, c) \/ ChooseMode(c) \/ ChooseAction(c) \/ EditSetting(c)
        PROVE  request' = None
    BY <2>3 DEF TypeCondition, ChooseMode, ChooseAction, EditSetting, Redraft
  <2>4. ASSUME \/ OpenRoutes \/ OpenPreferences \/ CloseTop \/ AddRule \/ OpenText
               \/ AddCondition \/ RemoveCondition \/ SaveRule
               \/ SwitchMode \/ Hide \/ Quit \/ Killed \/ StartProgram
        PROVE  request' = None
    BY <2>4 DEF OpenRoutes, OpenPreferences, CloseTop, AddRule, OpenText, Present,
                AddCondition, RemoveCondition, SaveRule, Redraft,
                SwitchMode, Hide, Quit, Killed, StartProgram
  <2>. QED
    BY <1>2, <1>3, <1>4, <2>1, <2>2, <2>3, <2>4 DEF Next
<1>. QED
  BY <1>1, <1>4

-----------------------------------------------------------------------------
(* The theorems *)

(***************************************************************************)
(* The inductive invariant holds in every state.                           *)
(***************************************************************************)
THEOREM WindowIsSound == Spec => []WindowInv
<1>1. Init => WindowInv
  <2>. SUFFICES ASSUME Init PROVE WindowInv
    OBVIOUS
  <2>1. database \in Tables /\ settings = Read(database)
    BY SettingsWindowAssumption DEF Init
  <2>2. settings \in Settings
    BY <2>1, ReadType
  <2>3. app = "up" /\ dialogs = <<>> /\ steps = 0 /\ faults = 0
    BY DEF Init
  <2>4. TypeOK
    BY <2>1, <2>2, <2>3, SettingsWindowAssumption DEF TypeOK
  <2>5. StackInv /\ FreshUnlessCovered /\ SavedIsShown
    BY <2>1, <2>3 DEF StackInv, FreshUnlessCovered, SavedIsShown
  <2>. QED
    BY <2>4, <2>5 DEF WindowInv
<1>. QED
  BY <1>1, WindowStep, PTL DEF Spec

(***************************************************************************)
(* Type correctness: whatever place a stale row passes to a handler, the   *)
(* rules of the window, the dialogs and the database stay rules.           *)
(***************************************************************************)
THEOREM WindowTypeCorrect == Spec => []TypeOK
<1>1. WindowInv => TypeOK
  BY DEF WindowInv
<1>. QED
  BY <1>1, WindowIsSound, PTL

(***************************************************************************)
(* SavedIsShown: while the database answers, the window shows what the     *)
(* next start would read, after every edit, import and editor.             *)
(***************************************************************************)
THEOREM WindowShowsTheSaved == Spec => []SavedIsShown
<1>1. WindowInv => SavedIsShown
  BY DEF WindowInv
<1>. QED
  BY <1>1, WindowIsSound, PTL

(***************************************************************************)
(* FreshUnlessCovered: a list that no other was opened over, and an editor *)
(* opened from such a list, act on the rule they show.                     *)
(***************************************************************************)
THEOREM PlacesStayTrue == Spec => []FreshUnlessCovered
<1>1. WindowInv => FreshUnlessCovered
  BY DEF WindowInv
<1>. QED
  BY <1>1, WindowIsSound, PTL

(***************************************************************************)
(* ImportKeepsDecisions: importing from Throne, also where it fails        *)
(* midway, takes no decision away from the rules that were saved.          *)
(***************************************************************************)
THEOREM ImportsYield == Spec => ImportKeepsDecisions
<1>1. WindowInv =>
        [(\E t \in Throne : ImportRoutes(t) \/ ImportEverything(t)) =>
            \A conn \in Conns :
                LET before == Intended(Read(database).rules, conn)
                IN  before # "default" => Intended(Read(database').rules, conn) = before]_vars
  BY ImportKeeps
<1>. QED
  BY <1>1, WindowIsSound, PTL DEF ImportKeepsDecisions

(***************************************************************************)
(* What was given to the core is a request with settings of the window.    *)
(***************************************************************************)
THEOREM RequestsAreAsked == Spec => []RequestInv
<1>1. Init => RequestInv
  BY DEF Init, RequestInv
<1>. QED
  BY <1>1, RequestStep, WindowIsSound, PTL DEF Spec

(***************************************************************************)
(* UserIntentDecides: whatever the rules, the rules text and the switches, *)
(* and for every profile and purpose, the rules that sing-box gets decide  *)
(* every connection as the settings promise it; a DNS query is taken over  *)
(* before them outside tests, and a test goes directly where it would use  *)
(* the proxy.                                                              *)
(***************************************************************************)
THEOREM IntentDecides == Spec => []UserIntentDecides
<1>1. RequestInv => UserIntentDecides
  <2>. SUFFICES ASSUME RequestInv, Built, NEW conn \in Conns
                PROVE  LET promised == Promised(request.settings, conn)
                       IN  Decided(Config.route.rules, Config.route.final, conn)
                             = IF Hijacked(conn) THEN "hijack-dns"
                               ELSE IF ForTest /\ promised = "proxy" THEN "direct" ELSE promised
    BY DEF UserIntentDecides
  <2>1. request.settings \in Settings
    BY DEF RequestInv, Built
  <2>2. PICK test \in BOOLEAN : test = ForTest
    BY DEF ForTest
  <2>3. Config.route = route_section(request.settings, test)
    BY <2>2 DEF Config, build, ForTest
  <2>. QED
    BY <2>1, <2>2, <2>3, RouteDecides DEF Hijacked
<1>. QED
  BY <1>1, RequestsAreAsked, PTL

(***************************************************************************)
(* NamesLeadToOne: whatever the rules, the rules text and the switches,    *)
(* and for any profiles and purpose, a name in a configuration leads to    *)
(* one declaration but for the cases the property names, and the port of a *)
(* profile that runs in Xray leads, through a gate as well, to its bridge. *)
(***************************************************************************)
THEOREM NamesLead == Spec => []NamesLeadToOne
<1>1. RequestInv => NamesLeadToOne
  <2>. SUFFICES ASSUME Asked(request), request.settings \in Settings, Built
                PROVE  NamesLeadToOne
    BY DEF RequestInv, NamesLeadToOne, Built
  <2>1. PICK Q : Q = request
    OBVIOUS
  <2>2. PICK s : s = request.settings
    OBVIOUS
  <2>3. PICK made : made = build(Q, s) /\ made = Config
    BY <2>1, <2>2 DEF Config
  <2>4. Asked(Q) /\ s \in Settings
    BY <2>1, <2>2
  <2>5. Dangling(made) = Undeclared(Q, s, made)
    BY <2>3, <2>4, MadeDangling
  <2>6. \A i, j \in DOMAIN made.outbounds :
               made.outbounds[i]["tag"] = made.outbounds[j]["tag"] => i = j
    BY <2>3, <2>4, OutboundNames
  <2>7. PICK for_test \in BOOLEAN : for_test <=> Q.purpose = "test"
    OBVIOUS
  <2>8. /\ made.route = route_section(s, for_test)
        /\ made.dns = IF "dns_enabled" \in s.on /\ ~for_test THEN dns_section(s) ELSE NoDns
    BY <2>3, <2>7 DEF build
  <2>9. Unique(made.dns.servers)
    BY <2>8, MadeDns
  <2>10. \/ Unique(made.route.rule_set)
         \/ "bypass_private" \in s.on /\ GeositePrivate \in UserLists(s)
    BY <2>4, <2>8, DeclaredNames
  <2>11. /\ \A b \in made.bridges : {"port", "auth"} \subseteq DOMAIN b
         /\ \A a, b \in made.bridges : a.auth = b.auth => a = b
         /\ BridgesLead(Q, made)
    BY <2>3, <2>4, BridgesMatch
  <2>12. GateFails(made.bridges) \/ GateLeadsOn(made)
    BY <2>11, GateLeads
  <2>. QED
    BY <2>1, <2>2, <2>3, <2>5, <2>6, <2>9, <2>10, <2>11, <2>12 DEF NamesLeadToOne, ForTest, Undeclared, BridgesLead
<1>. QED
  BY <1>1, RequestsAreAsked, PTL

-----------------------------------------------------------------------------
(* Servers that come in *)

(***************************************************************************)
(* Fields put together: of a field given twice the first counts.           *)
(***************************************************************************)
LEMMA MemberIs ==
  ASSUME NEW f, NEW v
  PROVE  /\ \A x : x \in DOMAIN (f := v) <=> x = f
         /\ (f := v)[f] = v
BY DEF :=

LEMMA MarkIs ==
  ASSUME NEW f
  PROVE  \A x : x \in DOMAIN (f := TRUE) <=> x = f
BY Zenon DEF :=

LEMMA MergedFields ==
  ASSUME NEW o, NEW p
  PROVE  /\ \A x : x \in DOMAIN (o ++ p) <=> x \in DOMAIN o \/ x \in DOMAIN p
         /\ \A x \in DOMAIN o : (o ++ p)[x] = o[x]
         /\ \A x \in DOMAIN p : x \notin DOMAIN o => (o ++ p)[x] = p[x]
BY DEF ++

LEMMA NothingHas == \A x : x \notin DOMAIN <<>>
OBVIOUS

LEMMA OptFields ==
  ASSUME NEW f, NEW v
  PROVE  \A x \in DOMAIN Opt(f, v) : x = f
<1>1. CASE v = <<>>
  BY <1>1, NothingHas DEF Opt
<1>2. CASE v # <<>>
  BY <1>2, MemberIs DEF Opt
<1>. QED
  BY <1>1, <1>2

LEMMA OnFields ==
  ASSUME NEW f, NEW v \in BOOLEAN
  PROVE  \A x \in DOMAIN On(f, v) : x = f
<1>1. CASE v
  <2>. DEFINE a == f := TRUE
  <2>1. On(f, v) = a
    BY <1>1, Zenon DEF On
  <2>2. \A x \in DOMAIN a : x = f
    BY MarkIs, Zenon
  <2>. HIDE DEF a
  <2>. QED
    BY <2>1, <2>2
<1>2. CASE ~v
  BY <1>2, NothingHas DEF On
<1>. QED
  BY <1>1, <1>2

(***************************************************************************)
(* The tls section has the members that stream_settings knows.             *)
(***************************************************************************)
IsTls(m) ==
  /\ \A x \in DOMAIN m : x = "tls"
  /\ "tls" \in DOMAIN m => DOMAIN m["tls"] \subseteq TlsMembers

LEMMA TlsBuilt ==
  ASSUME NEW raw, NEW sni, NEW reality \in BOOLEAN
  PROVE  DOMAIN build_tls(raw, sni, reality) \subseteq TlsMembers
<1>. DEFINE name == Or(q(raw, "sni"), Or(q(raw, "peer"), Or(q(raw, "host"), sni)))
            lax == \E k \in {"allowInsecure", "insecure", "allow_insecure"} : q_bool(raw, k)
            alpn == NonEmpty(Split(q(raw, "alpn"), ","))
            fp == q_or(raw, "fp", IF reality THEN Word("chrome") ELSE <<>>)
            keys == [public_key |-> q(raw, "pbk"), short_id |-> q(raw, "sid")]
            m == IF reality THEN "reality" := keys ELSE <<>>
            built == ("enabled" := TRUE) ++ Opt("server_name", name) ++ On("insecure", lax)
                     ++ Opt("alpn", alpn) ++ Opt("utls", fp) ++ m
<1>1. build_tls(raw, sni, reality) = built
  BY Zenon DEF build_tls
<1>2. \A x \in DOMAIN m : x = "reality"
  <2>. HIDE DEF keys
  <2>1. CASE reality
    BY <2>1, MemberIs
  <2>2. CASE ~reality
    BY <2>2, NothingHas
  <2>. QED
    BY <2>1, <2>2
<1>. DEFINE a == "enabled" := TRUE
            b1 == a ++ Opt("server_name", name)
            b2 == b1 ++ On("insecure", lax)
            b3 == b2 ++ Opt("alpn", alpn)
            b4 == b3 ++ Opt("utls", fp)
<1>. HIDE DEF name, lax, alpn, fp, keys, m
<1>3. DOMAIN b1 \subseteq TlsMembers
  <2>1. \A x \in DOMAIN a : x = "enabled"
    BY MarkIs, Zenon
  <2>. HIDE DEF a
  <2>. QED
    BY <2>1, MergedFields, OptFields DEF TlsMembers
<1>4. lax \in BOOLEAN
  BY DEF lax
<1>. HIDE DEF b1
<1>5. DOMAIN b2 \subseteq TlsMembers
  BY <1>3, <1>4, MergedFields, OnFields DEF TlsMembers
<1>. HIDE DEF b2
<1>6. DOMAIN b3 \subseteq TlsMembers
  BY <1>5, MergedFields, OptFields DEF TlsMembers
<1>. HIDE DEF b3
<1>7. DOMAIN b4 \subseteq TlsMembers
  BY <1>6, MergedFields, OptFields DEF TlsMembers
<1>8. DOMAIN (b4 ++ m) \subseteq TlsMembers
  <2>. HIDE DEF b4
  <2>. QED
    BY <1>7, <1>2, MergedFields DEF TlsMembers
<1>9. built = b4 ++ m
  BY Zenon DEF a, b1, b2, b3
<1>. QED
  BY <1>1, <1>8, <1>9

LEMMA TlsRead ==
  ASSUME NEW raw, NEW sni
  PROVE  IsTls(tls_from_query(raw)) /\ IsTls(tls_always(raw, sni))
<1>1. PICK reality \in BOOLEAN : reality <=> q(raw, "pbk") # <<>>
  OBVIOUS
<1>2. ASSUME NEW m, DOMAIN m \subseteq TlsMembers
      PROVE  IsTls("tls" := m)
  BY <1>2, MemberIs DEF IsTls
<1>3. tls_always(raw, sni) = ("tls" := build_tls(raw, sni, reality))
  BY <1>1, Zenon DEF tls_always
<1>4. tls_from_query(raw) \in {<<>>, "tls" := build_tls(raw, <<>>, reality)}
  <2>1. CASE q_or(raw, "security", Word("none")) = Word("none") /\ ~reality
    BY <1>1, <2>1, Zenon DEF tls_from_query
  <2>2. CASE ~(q_or(raw, "security", Word("none")) = Word("none") /\ ~reality)
    BY <1>1, <2>2, Zenon DEF tls_from_query
  <2>. QED
    BY <2>1, <2>2
<1>5. IsTls(<<>>)
  BY NothingHas DEF IsTls
<1>. QED
  BY <1>2, <1>3, <1>4, <1>5, TlsBuilt


(***************************************************************************)
(* The type that a section, or an outbound, names first stays its type.    *)
(***************************************************************************)
OfType(m, v) == "type" \in DOMAIN m /\ m["type"] = v

LEMMA TypeStays ==
  /\ \A v : OfType("type" := v, v)
  /\ \A m, o, v : OfType(m, v) => OfType(m ++ o, v)
BY MemberIs, MergedFields DEF OfType

(***************************************************************************)
(* The transport section is that of xhttp if the type is, by either name.  *)
(***************************************************************************)
IsTransport(m, raw) ==
  /\ \A x \in DOMAIN m : x = "transport"
  /\ IsXhttp(raw) => "transport" \in DOMAIN m
  /\ "transport" \in DOMAIN m =>
        \E v : /\ OfType(m["transport"], v) /\ (v = "xhttp" <=> IsXhttp(raw))
               /\ v = "xhttp" => DOMAIN m["transport"] \subseteq XhttpMembers

LEMMA TransportIs ==
  ASSUME NEW raw, NEW t, NEW v, OfType(t, v), v = "xhttp" <=> IsXhttp(raw),
         v = "xhttp" => DOMAIN t \subseteq XhttpMembers
  PROVE  IsTransport("transport" := t, raw)
<1>. DEFINE m == "transport" := t
<1>1. (\A x : x \in DOMAIN m <=> x = "transport") /\ m["transport"] = t
  BY MemberIs
<1>. HIDE DEF m
<1>. QED
  BY <1>1, Zenon DEF IsTransport, m

LEMMA TransportRead ==
  ASSUME NEW raw
  PROVE  IsTransport(transport_from_query(raw), raw)
<1>. DEFINE kind == NameIn(q_or(raw, "type", Word("tcp")))
            xhttp == kind \in {"xhttp", "splithttp"}
            host == q(raw, "host")
            path == q_or(raw, "path", Word("/"))
            mode == q_or(raw, "mode", Word("auto"))
            extra == IF NameIn(q(raw, "extra")) \in Values THEN q(raw, "extra") ELSE <<>>
            service == Or(q(raw, "serviceName"), q(raw, "path"))
            hosts == IF host = <<>> THEN <<>> ELSE "host" := Split(host, ",")
            ws == WsTransport(path, host, q(raw, "ed"))
            grpc == ("type" := "grpc") ++ ("service_name" := service)
            http == ("type" := "http") ++ ("path" := path) ++ hosts
            upgrade == ("type" := kind) ++ ("path" := path) ++ Opt("host", host)
            plain == ("type" := "xhttp") ++ ("path" := path) ++ ("mode" := mode)
            more == plain ++ Opt("host", host) ++ Opt("extra", extra)
<1>1. IsXhttp(raw) <=> xhttp
  <2>1. NameIn(<<>>) = "?" /\ NameIn(Word("tcp")) = "tcp"
    BY DEF NameIn, Word
  <2>. QED
    BY <2>1 DEF IsXhttp, q_or, Or
<1>2. transport_from_query(raw)
        = CASE kind = "ws" -> "transport" := ws
            [] kind = "grpc" -> "transport" := grpc
            [] kind \in {"http", "h2"} -> "transport" := http
            [] kind = "httpupgrade" -> "transport" := upgrade
            [] kind \in {"xhttp", "splithttp"} -> "transport" := more
            [] OTHER -> <<>>
  BY Zenon DEF transport_from_query
<1>. HIDE DEF kind, host, path, mode, extra, service, hosts
<1>3. OfType(ws, "ws")
  BY TypeStays DEF WsTransport
<1>4. OfType(grpc, "grpc") /\ OfType(http, "http") /\ OfType(upgrade, kind) /\ OfType(more, "xhttp")
  BY TypeStays
<1>5. DOMAIN more \subseteq XhttpMembers
  <2>1. DOMAIN plain \subseteq XhttpMembers
    BY MemberIs, MergedFields DEF XhttpMembers
  <2>. HIDE DEF plain
  <2>. QED
    BY <2>1, MergedFields, OptFields DEF XhttpMembers
<1>. HIDE DEF ws, grpc, http, upgrade, more
<1>6. CASE kind = "ws"
  <2>1. transport_from_query(raw) = ("transport" := ws)
    BY <1>2, <1>6
  <2>. QED
    BY <1>1, <1>3, <1>6, <2>1, TransportIs
<1>7. CASE kind = "grpc"
  <2>1. transport_from_query(raw) = ("transport" := grpc)
    BY <1>2, <1>7
  <2>. QED
    BY <1>1, <1>4, <1>7, <2>1, TransportIs
<1>8. CASE kind \in {"http", "h2"}
  <2>1. transport_from_query(raw) = ("transport" := http)
    BY <1>2, <1>8
  <2>. QED
    BY <1>1, <1>4, <1>8, <2>1, TransportIs
<1>9. CASE kind = "httpupgrade"
  <2>1. transport_from_query(raw) = ("transport" := upgrade)
    BY <1>2, <1>9
  <2>. QED
    BY <1>1, <1>4, <1>9, <2>1, TransportIs
<1>10. CASE kind \in {"xhttp", "splithttp"}
  <2>1. transport_from_query(raw) = ("transport" := more)
    BY <1>2, <1>10
  <2>. QED
    BY <1>1, <1>4, <1>5, <1>10, <2>1, TransportIs
<1>11. CASE kind \notin {"ws", "grpc", "http", "h2", "httpupgrade", "xhttp", "splithttp"}
  <2>1. transport_from_query(raw) = <<>>
    BY <1>2, <1>11
  <2>2. ~IsXhttp(raw)
    BY <1>1, <1>11
  <2>. QED
    BY <2>1, <2>2, NothingHas DEF IsTransport
<1>. QED
  BY <1>6, <1>7, <1>8, <1>9, <1>10, <1>11

-----------------------------------------------------------------------------
(***************************************************************************)
(* The type of a transport, as it is read off an outbound.                 *)
(***************************************************************************)
LEMMA TransportType ==
  ASSUME NEW o, NEW v, "transport" \in DOMAIN o, OfType(o["transport"], v)
  PROVE  Str(Part(o, "transport"), "type") = v
<1>1. Part(o, "transport") = o["transport"]
  BY DEF Part, Text, Has
<1>. QED
  BY <1>1, Zenon DEF OfType, Str, Has

LEMMA NoTransportType ==
  ASSUME NEW o, "transport" \notin DOMAIN o
  PROVE  Str(Part(o, "transport"), "type") # "xhttp"
<1>1. Part(o, "transport") = <<>>
  BY DEF Part, Text, Has
<1>2. Str(<<>>, "type") = ""
  BY NothingHas, Zenon DEF Str, Has
<1>3. "" # "xhttp"
  OBVIOUS
<1>. QED
  BY <1>1, <1>2, <1>3, Zenon

(***************************************************************************)
(* A profile, of which parse changes the name; what a parser returns.      *)
(***************************************************************************)
Came(p) == {"kind", "name", "outbound"} \subseteq DOMAIN p /\ Converted(p)

Yields(found) == found = <<>> \/ \E p : found = <<p>> /\ Came(p)

LEMMA ProfileIs ==
  ASSUME NEW name, NEW o
  PROVE  /\ {"kind", "name", "outbound"} \subseteq DOMAIN Profile(name, o)
         /\ ~is_xray(Profile(name, o)) /\ Profile(name, o).outbound = o
<1>. QED
  BY DEF Profile, is_xray

LEMMA PlainCame ==
  ASSUME NEW name, NEW o, "transport" \notin DOMAIN o
  PROVE  Came(Profile(name, o))
<1>. DEFINE p == Profile(name, o)
<1>1. {"kind", "name", "outbound"} \subseteq DOMAIN p /\ ~is_xray(p) /\ p.outbound = o
  BY ProfileIs
<1>. HIDE DEF p
<1>2. Str(Part(p.outbound, "transport"), "type") # "xhttp"
  BY <1>1, NoTransportType
<1>. QED
  BY <1>1, <1>2 DEF Came, Converted, p

(***************************************************************************)
(* An outbound grows field by field, and keeps its type and its address.   *)
(***************************************************************************)
Spare(m) == "tls" \notin DOMAIN m /\ "transport" \notin DOMAIN m

Begun(o, type) == OfType(o, type) /\ {"server", "server_port"} \subseteq DOMAIN o /\ Spare(o)

LEMMA SpareFields ==
  /\ Spare(<<>>)
  /\ \A f, v : f \notin {"tls", "transport"} => Spare(f := v) /\ Spare(Opt(f, v))
  /\ \A m, o : Spare(m) /\ Spare(o) => Spare(m ++ o)
BY NothingHas, MemberIs, OptFields, MergedFields DEF Spare

LEMMA SpareMark ==
  ASSUME NEW f, f \notin {"tls", "transport"}, NEW v \in BOOLEAN
  PROVE  Spare(On(f, v))
BY OnFields DEF Spare

LEMMA OutboundBegun ==
  ASSUME NEW type, NEW at
  PROVE  Begun(Outbound(type, at), type)
<1>. DEFINE a == "type" := type
            b == "server" := at.host
            c == "server_port" := at.port
<1>1. Outbound(type, at) = a ++ b ++ c
  BY Zenon DEF Outbound
<1>2. OfType(a, type) /\ Spare(a) /\ Spare(b) /\ Spare(c) /\ "server" \in DOMAIN b /\ "server_port" \in DOMAIN c
  BY TypeStays, SpareFields, MemberIs
<1>. HIDE DEF a, b, c
<1>3. OfType(a ++ b ++ c, type) /\ Spare(a ++ b ++ c)
  BY <1>2, TypeStays, SpareFields
<1>4. "server" \in DOMAIN (a ++ b ++ c) /\ "server_port" \in DOMAIN (a ++ b ++ c)
  BY <1>2, MergedFields
<1>. QED
  BY <1>1, <1>3, <1>4 DEF Begun

LEMMA BegunGrows ==
  ASSUME NEW o, NEW type, Begun(o, type), NEW m, Spare(m)
  PROVE  Begun(o ++ m, type)
<1>1. OfType(o ++ m, type) /\ Spare(o ++ m)
  BY TypeStays, SpareFields DEF Begun
<1>2. DOMAIN o \subseteq DOMAIN (o ++ m)
  BY MergedFields
<1>. QED
  BY <1>1, <1>2 DEF Begun

(***************************************************************************)
(* What vless, trojan and vmess have in common: the two sections.          *)
(***************************************************************************)
Sections(o, type, raw) ==
  /\ OfType(o, type) /\ {"server", "server_port"} \subseteq DOMAIN o
  /\ "tls" \in DOMAIN o => DOMAIN o["tls"] \subseteq TlsMembers
  /\ IsXhttp(raw) => "transport" \in DOMAIN o
  /\ "transport" \in DOMAIN o =>
        \E v : /\ OfType(o["transport"], v) /\ (v = "xhttp" <=> IsXhttp(raw))
               /\ v = "xhttp" => DOMAIN o["transport"] \subseteq XhttpMembers

LEMMA SectionsAdded ==
  ASSUME NEW o, NEW type, Begun(o, type), NEW raw, NEW tls, IsTls(tls), NEW t, IsTransport(t, raw)
  PROVE  /\ Sections((o ++ tls) ++ t, type, raw)
         /\ DOMAIN o \subseteq DOMAIN ((o ++ tls) ++ t)
<1>. DEFINE a == o ++ tls
            b == a ++ t
<1>1. /\ \A x : x \in DOMAIN a <=> x \in DOMAIN o \/ x \in DOMAIN tls
      /\ \A x \in DOMAIN tls : x \notin DOMAIN o => a[x] = tls[x]
  BY MergedFields
<1>2. OfType(a, type)
  BY TypeStays DEF Begun
<1>. HIDE DEF a
<1>3. /\ \A x : x \in DOMAIN b <=> x \in DOMAIN a \/ x \in DOMAIN t
      /\ \A x \in DOMAIN a : b[x] = a[x]
      /\ \A x \in DOMAIN t : x \notin DOMAIN a => b[x] = t[x]
  BY MergedFields
<1>4. OfType(b, type)
  BY <1>2, TypeStays
<1>. HIDE DEF b
<1>5. DOMAIN o \subseteq DOMAIN b
  BY <1>1, <1>3
<1>6. "tls" \in DOMAIN b => DOMAIN b["tls"] \subseteq TlsMembers
  <2>1. "tls" \in DOMAIN b => "tls" \in DOMAIN tls /\ b["tls"] = tls["tls"]
    BY <1>1, <1>3 DEF Begun, Spare, IsTransport
  <2>. QED
    BY <2>1 DEF IsTls
<1>7. /\ "transport" \in DOMAIN b <=> "transport" \in DOMAIN t
      /\ "transport" \in DOMAIN t => b["transport"] = t["transport"]
  BY <1>1, <1>3 DEF Begun, Spare, IsTls
<1>8. Sections(b, type, raw)
  <2>1. {"server", "server_port"} \subseteq DOMAIN b
    BY <1>5 DEF Begun
  <2>2. IsXhttp(raw) => "transport" \in DOMAIN b
    BY <1>7 DEF IsTransport
  <2>3. "transport" \in DOMAIN b =>
          \E v : /\ OfType(b["transport"], v) /\ (v = "xhttp" <=> IsXhttp(raw))
                 /\ v = "xhttp" => DOMAIN b["transport"] \subseteq XhttpMembers
    BY <1>7, Zenon DEF IsTransport
  <2>. QED
    BY <1>4, <1>6, <2>1, <2>2, <2>3, Zenon DEF Sections
<1>. QED
  BY <1>5, <1>8 DEF a, b

(***************************************************************************)
(* Of them trojan and vmess may keep xhttp in sing-box; a vless server     *)
(* with it is for Xray.                                                    *)
(***************************************************************************)
LEMMA KeptCame ==
  ASSUME NEW o, NEW type \in {"trojan", "vmess"}, NEW raw, Sections(o, type, raw), NEW name
  PROVE  Came(Profile(name, o))
<1>. DEFINE p == Profile(name, o)
<1>1. {"kind", "name", "outbound"} \subseteq DOMAIN p /\ ~is_xray(p) /\ p.outbound = o
  BY ProfileIs
<1>2. o["type"] \in {"trojan", "vmess"}
  BY DEF Sections, OfType
<1>. HIDE DEF p
<1>. QED
  BY <1>1, <1>2 DEF Came, Converted, p

LEMMA VlessCame ==
  ASSUME NEW o, NEW raw, Sections(o, "vless", raw), "uuid" \in DOMAIN o, NEW name
  PROVE  Came([Profile(name, o) EXCEPT !.kind.xray = IsXhttp(raw)])
<1>. DEFINE p == [Profile(name, o) EXCEPT !.kind.xray = IsXhttp(raw)]
<1>1. {"kind", "name", "outbound"} \subseteq DOMAIN p /\ p.outbound = o /\ (is_xray(p) <=> IsXhttp(raw))
  BY DEF Profile, is_xray
<1>. HIDE DEF p
<1>2. CASE IsXhttp(raw)
  <2>1. ForXray(o)
    BY <1>2 DEF Sections, OfType, ForXray, Has
  <2>. QED
    BY <1>1, <1>2, <2>1 DEF Came, Converted, p
<1>3. CASE ~IsXhttp(raw)
  <2>1. CASE "transport" \notin DOMAIN o
    BY <1>1, <1>3, <2>1, NoTransportType DEF Came, Converted, p
  <2>2. CASE "transport" \in DOMAIN o
    <3>1. PICK v : OfType(o["transport"], v) /\ v # "xhttp"
      BY <1>3, <2>2 DEF Sections
    <3>2. Str(Part(o, "transport"), "type") = v
      BY <2>2, <3>1, TransportType
    <3>. QED
      BY <1>1, <1>3, <3>1, <3>2 DEF Came, Converted, p
  <2>. QED
    BY <2>1, <2>2
<1>. QED
  BY <1>2, <1>3

-----------------------------------------------------------------------------
(***************************************************************************)
(* What each protocol yields.                                              *)
(***************************************************************************)
LEMMA LoginSpare ==
  ASSUME NEW userinfo
  PROVE  Spare(Login(userinfo))
<1>. DEFINE a == "username" := Head1(userinfo, ":")
            b == "password" := Tail1(userinfo, ":")
<1>1. Spare(a) /\ Spare(b)
  BY SpareFields
<1>. HIDE DEF a, b
<1>2. Spare(a ++ b) /\ Spare(<<>>)
  BY <1>1, SpareFields
<1>3. Login(userinfo) \in {a ++ b, <<>>}
  BY Zenon DEF Login, a, b
<1>. QED
  BY <1>2, <1>3

LEMMA VlessYields ==
  ASSUME NEW raw, NEW user, NEW at
  PROVE  Yields(parse_vless(raw, user, at))
<1>. DEFINE flow == q(raw, "flow")
            o == Outbound("vless", at)
            a == "uuid" := user
            o1 == o ++ a
            o2 == o1 ++ Opt("flow", flow)
            o3 == o2 ++ ("packet_encoding" := "xudp")
            tls == tls_from_query(raw)
            t == transport_from_query(raw)
            out == (o3 ++ tls) ++ t
            p == [Profile(<<>>, out) EXCEPT !.kind.xray = IsXhttp(raw)]
<1>1. parse_vless(raw, user, at) = IF user = <<>> THEN <<>> ELSE <<p>>
  BY Zenon DEF parse_vless
<1>2. IsTls(tls) /\ IsTransport(t, raw)
  BY TlsRead, TransportRead
<1>3. Begun(o, "vless") /\ Spare(a) /\ "uuid" \in DOMAIN a
  BY OutboundBegun, SpareFields, MemberIs
<1>. HIDE DEF flow, o, a, tls, t
<1>4. Begun(o1, "vless") /\ "uuid" \in DOMAIN o1
  BY <1>3, BegunGrows, MergedFields
<1>. HIDE DEF o1
<1>5. Begun(o2, "vless") /\ "uuid" \in DOMAIN o2
  BY <1>4, BegunGrows, MergedFields, SpareFields
<1>. HIDE DEF o2
<1>6. Begun(o3, "vless") /\ "uuid" \in DOMAIN o3
  BY <1>5, BegunGrows, MergedFields, SpareFields
<1>. HIDE DEF o3
<1>7. Sections(out, "vless", raw) /\ "uuid" \in DOMAIN out
  BY <1>2, <1>6, SectionsAdded
<1>. HIDE DEF out
<1>8. Came(p)
  BY <1>7, VlessCame
<1>. HIDE DEF p
<1>. QED
  BY <1>1, <1>8 DEF Yields

LEMMA TrojanYields ==
  ASSUME NEW raw, NEW user, NEW at
  PROVE  Yields(parse_trojan(raw, user, at))
<1>. DEFINE o == Outbound("trojan", at)
            o1 == o ++ ("password" := user)
            tls == tls_always(raw, at.host)
            t == transport_from_query(raw)
            out == (o1 ++ tls) ++ t
            p == Profile(<<>>, out)
<1>1. parse_trojan(raw, user, at) = IF user = <<>> THEN <<>> ELSE <<p>>
  BY Zenon DEF parse_trojan
<1>2. IsTls(tls) /\ IsTransport(t, raw)
  BY TlsRead, TransportRead
<1>3. Begun(o, "trojan")
  BY OutboundBegun
<1>. HIDE DEF o, tls, t
<1>4. Begun(o1, "trojan")
  BY <1>3, BegunGrows, SpareFields
<1>. HIDE DEF o1
<1>5. Sections(out, "trojan", raw)
  BY <1>2, <1>4, SectionsAdded
<1>. HIDE DEF out
<1>6. Came(p)
  BY <1>5, KeptCame
<1>. HIDE DEF p
<1>. QED
  BY <1>1, <1>6 DEF Yields

LEMMA VmessYields ==
  ASSUME NEW payload
  PROVE  Yields(parse_vmess(payload))
<1>. DEFINE v == IF Decodes(payload) THEN decode_b64(payload) ELSE <<>>
            Get(k) == IF k \in DOMAIN v THEN v[k] ELSE <<>>
            Param(key, text) == [key |-> Word(key), value |-> text]
            synth == [scheme |-> "vmess", body |-> <<>>, fragment |-> <<>>,
                      query |-> <<Param("type", Get("net")), Param("host", Get("host")),
                                  Param("path", Get("path")), Param("serviceName", Get("path")),
                                  Param("security", Get("tls")), Param("sni", Or(Get("sni"), Get("host"))),
                                  Param("alpn", Get("alpn")), Param("fp", Get("fp"))>>]
            at == Address(Get("add"), Get("port"))
            o == Outbound("vmess", at[1])
            o1 == o ++ ("uuid" := Get("id"))
            o2 == o1 ++ ("alter_id" := Or(Get("aid"), Word("0")))
            o3 == o2 ++ ("security" := Or(Get("scy"), Word("auto")))
            o4 == o3 ++ ("packet_encoding" := "xudp")
            tls == IF NameIn(Get("tls")) \in {"tls", "reality"} THEN tls_from_query(synth) ELSE <<>>
            t == transport_from_query(synth)
            out == (o4 ++ tls) ++ t
            p == Profile(Get("ps"), out)
<1>1. parse_vmess(payload) \in {<<>>, <<p>>}
  BY Zenon DEF parse_vmess
<1>2. IsTls(tls)
  <2>. HIDE DEF synth, v
  <2>1. IsTls(<<>>)
    BY NothingHas DEF IsTls
  <2>. QED
    BY <2>1, TlsRead
<1>3. IsTransport(t, synth)
  <2>. HIDE DEF synth
  <2>. QED
    BY TransportRead
<1>4. Begun(o, "vmess")
  <2>. HIDE DEF at
  <2>. QED
    BY OutboundBegun
<1>. DEFINE name == Get("ps")
<1>. HIDE DEF v, synth, at, o, tls, t
<1>5. Begun(o1, "vmess")
  BY <1>4, BegunGrows, SpareFields
<1>. HIDE DEF o1
<1>6. Begun(o2, "vmess")
  BY <1>5, BegunGrows, SpareFields
<1>. HIDE DEF o2
<1>7. Begun(o3, "vmess")
  BY <1>6, BegunGrows, SpareFields
<1>. HIDE DEF o3
<1>8. Begun(o4, "vmess")
  BY <1>7, BegunGrows, SpareFields
<1>. HIDE DEF o4
<1>9. Sections(out, "vmess", synth)
  BY <1>2, <1>3, <1>8, SectionsAdded
<1>. HIDE DEF out
<1>10. Came(Profile(name, out))
  BY <1>9, KeptCame
<1>11. p = Profile(name, out)
  OBVIOUS
<1>. HIDE DEF p, name
<1>. QED
  BY <1>1, <1>10, <1>11 DEF Yields

(***************************************************************************)
(* The others have no transport at all.                                    *)
(***************************************************************************)
LEMMA PlainYields ==
  ASSUME NEW o, NEW type, Begun(o, type), NEW tls, IsTls(tls)
  PROVE  Came(Profile(<<>>, o ++ tls)) /\ Yields(<<Profile(<<>>, o ++ tls)>>)
<1>1. "transport" \notin DOMAIN (o ++ tls)
  BY MergedFields DEF Begun, Spare, IsTls
<1>2. Came(Profile(<<>>, o ++ tls))
  BY <1>1, PlainCame
<1>. QED
  BY <1>2 DEF Yields

LEMMA BareYields ==
  ASSUME NEW o, NEW type, Begun(o, type)
  PROVE  Came(Profile(<<>>, o)) /\ Yields(<<Profile(<<>>, o)>>)
<1>1. Came(Profile(<<>>, o))
  BY PlainCame DEF Begun, Spare
<1>. QED
  BY <1>1 DEF Yields

(***************************************************************************)
(* One lemma per parser of link.rs, and the choice among them.             *)
(***************************************************************************)
LEMMA Hysteria2Yields ==
  ASSUME NEW raw, NEW user, NEW at
  PROVE  Yields(parse_hysteria2(raw, user, at))
<1>. DEFINE Rate(key) == IF NameIn(q(raw, key)) \in Numbers THEN q(raw, key) ELSE <<>>
            obfs == q(raw, "obfs-password")
            made == [type |-> q_or(raw, "obfs", Word("salamander")), password |-> obfs]
            m == IF obfs = <<>> THEN <<>> ELSE "obfs" := made
            up == Rate("upmbps")
            down == Rate("downmbps")
            o == Outbound("hysteria2", at)
            o1 == o ++ ("password" := user)
            o2 == o1 ++ m
            o3 == o2 ++ Opt("up_mbps", up)
            o4 == o3 ++ Opt("down_mbps", down)
            tls == tls_always(raw, at.host)
<1>1. parse_hysteria2(raw, user, at) = <<Profile(<<>>, o4 ++ tls)>>
  BY Zenon DEF parse_hysteria2
<1>2. IsTls(tls)
  BY TlsRead
<1>3. Spare(m)
  <2>. HIDE DEF made, obfs
  <2>. QED
    BY SpareFields
<1>4. Begun(o, "hysteria2")
  BY OutboundBegun
<1>. HIDE DEF o, m, up, down, tls
<1>5. Begun(o1, "hysteria2")
  BY <1>4, BegunGrows, SpareFields
<1>. HIDE DEF o1
<1>6. Begun(o2, "hysteria2")
  BY <1>3, <1>5, BegunGrows
<1>. HIDE DEF o2
<1>7. Begun(o3, "hysteria2")
  BY <1>6, BegunGrows, SpareFields
<1>. HIDE DEF o3
<1>8. Begun(o4, "hysteria2")
  BY <1>7, BegunGrows, SpareFields
<1>. HIDE DEF o4
<1>. QED
  BY <1>1, <1>2, <1>8, PlainYields

LEMMA TuicYields ==
  ASSUME NEW raw, NEW user, NEW at
  PROVE  Yields(parse_tuic(raw, user, at))
<1>. DEFINE o == Outbound("tuic", at)
            o1 == o ++ ("uuid" := Head1(user, ":"))
            o2 == o1 ++ ("password" := Tail1(user, ":"))
            o3 == o2 ++ ("congestion_control" := q_or(raw, "congestion_control", Word("bbr")))
            o4 == o3 ++ ("udp_relay_mode" := q_or(raw, "udp_relay_mode", Word("native")))
            tls == tls_always(raw, at.host)
            found == <<Profile(<<>>, o4 ++ tls)>>
<1>1. parse_tuic(raw, user, at) \in {<<>>, found}
  BY Zenon DEF parse_tuic
<1>2. IsTls(tls)
  BY TlsRead
<1>3. Begun(o, "tuic")
  BY OutboundBegun
<1>. HIDE DEF o, tls
<1>4. Begun(o1, "tuic")
  BY <1>3, BegunGrows, SpareFields
<1>. HIDE DEF o1
<1>5. Begun(o2, "tuic")
  BY <1>4, BegunGrows, SpareFields
<1>. HIDE DEF o2
<1>6. Begun(o3, "tuic")
  BY <1>5, BegunGrows, SpareFields
<1>. HIDE DEF o3
<1>7. Begun(o4, "tuic")
  BY <1>6, BegunGrows, SpareFields
<1>. HIDE DEF o4
<1>8. Yields(found) /\ Yields(<<>>)
  BY <1>2, <1>7, PlainYields DEF Yields
<1>. HIDE DEF found
<1>. QED
  BY <1>1, <1>8

LEMMA SocksYields ==
  ASSUME NEW user, NEW at
  PROVE  Yields(parse_socks(user, at))
<1>. DEFINE userinfo == IF Decodes(user) THEN decode_b64(user) ELSE user
            login == Login(userinfo)
            o == Outbound("socks", at)
            o1 == o ++ ("version" := "5")
            o2 == o1 ++ login
<1>1. parse_socks(user, at) = <<Profile(<<>>, o2)>>
  BY Zenon DEF parse_socks
<1>. HIDE DEF userinfo
<1>2. Spare(login) /\ Begun(o, "socks")
  BY LoginSpare, OutboundBegun
<1>. HIDE DEF o, login
<1>3. Begun(o1, "socks")
  BY <1>2, BegunGrows, SpareFields
<1>. HIDE DEF o1
<1>4. Begun(o2, "socks")
  BY <1>2, <1>3, BegunGrows
<1>. HIDE DEF o2
<1>. QED
  BY <1>1, <1>4, BareYields

LEMMA HttpYields ==
  ASSUME NEW raw, NEW user, NEW at
  PROVE  Yields(parse_http(raw, user, at))
<1>. DEFINE enabled == "enabled" := TRUE
            m == enabled ++ ("server_name" := q_or(raw, "sni", at.host))
            tls == IF raw.scheme = "https" THEN "tls" := m ELSE <<>>
            o == Outbound("http", at)
            o1 == o ++ Login(user)
<1>1. parse_http(raw, user, at) = <<Profile(<<>>, o1 ++ tls)>>
  BY Zenon DEF parse_http
<1>2. Begun(o, "http")
  BY OutboundBegun
<1>. HIDE DEF o
<1>3. Begun(o1, "http")
  BY <1>2, BegunGrows, LoginSpare
<1>4. DOMAIN m \subseteq TlsMembers
  <2>1. \A x \in DOMAIN enabled : x = "enabled"
    BY MarkIs, Zenon
  <2>. HIDE DEF enabled
  <2>. QED
    BY <2>1, MemberIs, MergedFields DEF TlsMembers
<1>. HIDE DEF o1, m
<1>5. IsTls(tls)
  BY <1>4, MemberIs, NothingHas DEF IsTls
<1>. HIDE DEF tls
<1>. QED
  BY <1>1, <1>3, <1>5, PlainYields

LEMMA AnytlsYields ==
  ASSUME NEW raw, NEW user, NEW at
  PROVE  Yields(parse_anytls(raw, user, at))
<1>. DEFINE o == Outbound("anytls", at)
            o1 == o ++ ("password" := user)
            tls == tls_always(raw, at.host)
<1>1. parse_anytls(raw, user, at) = <<Profile(<<>>, o1 ++ tls)>>
  BY Zenon DEF parse_anytls
<1>2. IsTls(tls) /\ Begun(o, "anytls")
  BY TlsRead, OutboundBegun
<1>. HIDE DEF o, tls
<1>3. Begun(o1, "anytls")
  BY <1>2, BegunGrows, SpareFields
<1>. HIDE DEF o1
<1>. QED
  BY <1>1, <1>2, <1>3, PlainYields

LEMMA NaiveYields ==
  ASSUME NEW raw, NEW user, NEW at
  PROVE  Yields(parse_naive(raw, user, at))
<1>1. PICK quic \in BOOLEAN : quic <=> raw.scheme = "naive+quic"
  OBVIOUS
<1>2. PICK uot \in BOOLEAN : uot <=> q_bool(raw, "uot")
  OBVIOUS
<1>. DEFINE o == Outbound("naive", at)
            o1 == o ++ Login(user)
            o2 == o1 ++ On("quic", quic)
            m == IF quic THEN Opt("quic_congestion_control", q(raw, "congestion_control")) ELSE <<>>
            o3 == o2 ++ m
            o4 == o3 ++ On("udp_over_tcp", uot)
            tls == tls_always(raw, at.host)
<1>3. parse_naive(raw, user, at) = <<Profile(<<>>, o4 ++ tls)>>
  <2>1. On("quic", quic) = On("quic", raw.scheme = "naive+quic")
    BY <1>1, Zenon DEF On
  <2>2. On("udp_over_tcp", uot) = On("udp_over_tcp", q_bool(raw, "uot"))
    BY <1>2, Zenon DEF On
  <2>3. m = IF raw.scheme = "naive+quic" THEN Opt("quic_congestion_control", q(raw, "congestion_control")) ELSE <<>>
    BY <1>1, Zenon
  <2>. HIDE DEF m
  <2>. QED
    BY <2>1, <2>2, <2>3, Zenon DEF parse_naive
<1>4. IsTls(tls) /\ Begun(o, "naive")
  BY TlsRead, OutboundBegun
<1>5. Spare(m)
  BY SpareFields
<1>. HIDE DEF o, m, tls
<1>6. Begun(o1, "naive")
  BY <1>4, BegunGrows, LoginSpare
<1>. HIDE DEF o1
<1>7. Begun(o2, "naive")
  BY <1>6, BegunGrows, SpareMark
<1>. HIDE DEF o2
<1>8. Begun(o3, "naive")
  BY <1>5, <1>7, BegunGrows
<1>. HIDE DEF o3
<1>9. Begun(o4, "naive")
  BY <1>8, BegunGrows, SpareMark
<1>. HIDE DEF o4
<1>. QED
  BY <1>3, <1>4, <1>9, PlainYields

LEMMA ShadowsocksYields ==
  ASSUME NEW raw
  PROVE  Yields(parse_shadowsocks(raw))
<1>. DEFINE whole == ~Holds(raw.body, "@")
            body == IF ~whole THEN raw.body
                    ELSE IF Decodes(raw.body) THEN decode_b64(raw.body) ELSE <<>>
            at == split_host_port(HostPort(body))
            info == User(body)
            login == IF whole THEN info ELSE IF Decodes(info) THEN decode_b64(info) ELSE urldecode(info)
            plugin == q(raw, "plugin")
            o == Outbound("shadowsocks", at[1])
            o1 == o ++ ("method" := Head1(login, ":"))
            o2 == o1 ++ ("password" := Tail1(login, ":"))
            o3 == o2 ++ Opt("plugin", Head1(plugin, ";"))
            o4 == o3 ++ Opt("plugin_opts", Tail1(plugin, ";"))
            found == <<Profile(<<>>, o4)>>
<1>1. parse_shadowsocks(raw) \in {<<>>, found}
  BY Zenon DEF parse_shadowsocks
<1>. HIDE DEF whole, body, at, info, login, plugin
<1>2. Begun(o, "shadowsocks")
  BY OutboundBegun
<1>. HIDE DEF o
<1>3. Begun(o1, "shadowsocks")
  BY <1>2, BegunGrows, SpareFields
<1>. HIDE DEF o1
<1>4. Begun(o2, "shadowsocks")
  BY <1>3, BegunGrows, SpareFields
<1>. HIDE DEF o2
<1>5. Begun(o3, "shadowsocks")
  BY <1>4, BegunGrows, SpareFields
<1>. HIDE DEF o3
<1>6. Begun(o4, "shadowsocks")
  BY <1>5, BegunGrows, SpareFields
<1>. HIDE DEF o4
<1>7. Yields(found) /\ Yields(<<>>)
  BY <1>6, BareYields DEF Yields
<1>. HIDE DEF found
<1>. QED
  BY <1>1, <1>7

LEMMA ProtocolYields ==
  ASSUME NEW raw, NEW link
  PROVE  Yields(Protocol(raw, link))
<1>. DEFINE at == IF raw.scheme \in {"naive+https", "naive+quic"} THEN NaiveAddress(raw.body)
                  ELSE split_host_port(HostPort(raw.body))
            user == urldecode(User(raw.body))
            text == Tail1(link, "://")
<1>1. Protocol(raw, link) \in
        {parse_vmess(text), parse_shadowsocks(raw), <<>>, parse_vless(raw, user, at[1]),
         parse_trojan(raw, user, at[1]), parse_hysteria2(raw, user, at[1]), parse_tuic(raw, user, at[1]),
         parse_socks(user, at[1]), parse_http(raw, user, at[1]), parse_anytls(raw, user, at[1]),
         parse_naive(raw, user, at[1])}
  BY Zenon DEF Protocol
<1>. HIDE DEF at, user, text
<1>2. Yields(<<>>)
  BY DEF Yields
<1>. QED
  BY <1>1, <1>2, VmessYields, ShadowsocksYields, VlessYields, TrojanYields, Hysteria2Yields, TuicYields,
     SocksYields, HttpYields, AnytlsYields, NaiveYields

(***************************************************************************)
(* Lists of at most one, joined: the elements are those of the lists.      *)
(***************************************************************************)
Single(found) == found = <<>> \/ \E p : found = <<p>>

LEMMA JoinedSingles ==
  ASSUME NEW seqs, NEW N \in Nat, Len(seqs) = N, \A n \in 1 .. N : Single(seqs[n])
  PROVE  /\ Joined(seqs) \in Seq(ToSet(Joined(seqs)))
         /\ \A p \in ToSet(Joined(seqs)) : \E n \in 1 .. N : seqs[n] = <<p>>
         /\ Joined(seqs) = <<>> => \A n \in 1 .. N : seqs[n] = <<>>
<1>. DEFINE S == UNION {ToSet(seqs[n]) : n \in 1 .. N}
<1>1. \A n \in 1 .. N : ToSet(seqs[n]) \subseteq S
  OBVIOUS
<1>2. \A p : ToSet(<<p>>) = {p}
  BY DEF ToSet
<1>. HIDE DEF S
<1>3. ASSUME NEW n \in 1 .. N
      PROVE  seqs[n] \in Seq(S)
  <2>1. CASE seqs[n] = <<>>
    BY <2>1
  <2>2. ASSUME NEW p, seqs[n] = <<p>>
        PROVE  seqs[n] \in Seq(S)
    <3>1. p \in S
      BY <1>1, <1>2, <2>2
    <3>. QED
      BY <2>2, <3>1
  <2>. QED
    BY <2>1, <2>2 DEF Single
<1>4. PICK all : all = Joined(seqs) /\ all \in Seq(S)
  BY <1>3, JoinedType
<1>5. ToSet(all) = S
  BY <1>3, <1>4, JoinedElements DEF S
<1>6. ASSUME NEW p \in S
      PROVE  \E n \in 1 .. N : seqs[n] = <<p>>
  <2>1. PICK n \in 1 .. N : p \in ToSet(seqs[n])
    BY DEF S
  <2>2. ToSet(<<>>) = {}
    BY DEF ToSet
  <2>. QED
    BY <1>2, <2>1, <2>2 DEF Single
<1>7. ASSUME all = <<>>, NEW n \in 1 .. N
      PROVE  seqs[n] = <<>>
  <2>1. ToSet(all) = {}
    BY <1>7 DEF ToSet
  <2>. QED
    BY <1>1, <1>2, <1>5, <2>1 DEF Single
<1>. QED
  BY <1>4, <1>5, <1>6, <1>7

(***************************************************************************)
(* What came: a list whose elements are servers as they are converted.     *)
(***************************************************************************)
Listed(profiles) == profiles \in Seq(ToSet(profiles))

Brought(profiles) == Listed(profiles) /\ \A p \in ToSet(profiles) : Came(p)

LEMMA JoinedBrought ==
  ASSUME NEW seqs, NEW N \in Nat, Len(seqs) = N, \A n \in 1 .. N : Yields(seqs[n])
  PROVE  Brought(Joined(seqs))
<1>1. \A n \in 1 .. N : Single(seqs[n])
  BY DEF Yields, Single
<1>2. /\ Joined(seqs) \in Seq(ToSet(Joined(seqs)))
      /\ \A p \in ToSet(Joined(seqs)) : \E n \in 1 .. N : seqs[n] = <<p>>
  BY <1>1, JoinedSingles
<1>3. ASSUME NEW p \in ToSet(Joined(seqs))
      PROVE  Came(p)
  <2>1. PICK n \in 1 .. N : seqs[n] = <<p>>
    BY <1>2
  <2>2. PICK r : seqs[n] = <<r>> /\ Came(r)
    BY <2>1 DEF Yields
  <2>3. p = r
    BY <2>1, <2>2
  <2>. QED
    BY <2>2, <2>3
<1>. QED
  BY <1>2, <1>3 DEF Brought, Listed

LEMMA RenamedCame ==
  ASSUME NEW p, Came(p), NEW name
  PROVE  Came([p EXCEPT !.name = name])
<1>. DEFINE r == [p EXCEPT !.name = name]
<1>1. DOMAIN r = DOMAIN p /\ r.kind = p.kind /\ r.outbound = p.outbound
  BY DEF Came
<1>. HIDE DEF r
<1>2. is_xray(r) <=> is_xray(p)
  BY <1>1 DEF is_xray
<1>3. Came(r)
  BY <1>1, <1>2 DEF Came, Converted
<1>. QED
  BY <1>3 DEF r

(***************************************************************************)
(* A link, and a list of them: the name that parse adds changes nothing    *)
(* else.                                                                   *)
(***************************************************************************)
LEMMA ParseYields ==
  ASSUME NEW link
  PROVE  Yields(parse(link))
<1>. DEFINE raw == RawParse(link)
            found == IF Holds(link, "://") THEN Protocol(raw, link) ELSE <<>>
            Named(p) == [p EXCEPT !.name = Or(raw.fragment, Or(@, address(p.outbound)))]
<1>1. parse(link) = [i \in DOMAIN found |-> Named(found[i])]
  BY Zenon DEF parse
<1>2. Yields(found)
  <2>. HIDE DEF raw
  <2>1. Yields(<<>>)
    BY DEF Yields
  <2>. QED
    BY <2>1, ProtocolYields
<1>3. ASSUME NEW p, Came(p)
      PROVE  Came(Named(p))
  <2>. DEFINE name == Or(raw.fragment, Or(p.name, address(p.outbound)))
  <2>1. Named(p) = [p EXCEPT !.name = name]
    OBVIOUS
  <2>. HIDE DEF name, Named
  <2>. QED
    BY <1>3, <2>1, RenamedCame
<1>. HIDE DEF found, Named
<1>4. CASE found = <<>>
  <2>1. parse(link) = <<>>
    BY <1>1, <1>4
  <2>. QED
    BY <2>1 DEF Yields
<1>5. ASSUME NEW p, found = <<p>>, Came(p)
      PROVE  Yields(parse(link))
  <2>1. parse(link) = <<Named(p)>>
    BY <1>1, <1>5
  <2>. QED
    BY <1>3, <1>5, <2>1 DEF Yields
<1>. QED
  BY <1>2, <1>4, <1>5 DEF Yields

LEMMA LinksBrought ==
  ASSUME NEW lines, Listed(lines)
  PROVE  Brought(parse_many(lines))
<1>. DEFINE seqs == [i \in DOMAIN lines |-> parse(lines[i])]
<1>1. PICK N \in Nat : N = Len(lines) /\ DOMAIN lines = 1 .. N
  BY DEF Listed
<1>2. Len(seqs) = N /\ \A n \in 1 .. N : seqs[n] = parse(lines[n])
  BY <1>1
<1>3. parse_many(lines) = Joined(seqs)
  BY DEF parse_many
<1>. HIDE DEF seqs
<1>. QED
  BY <1>2, <1>3, ParseYields, JoinedBrought

(***************************************************************************)
(* A Clash document knows no xhttp.                                        *)
(***************************************************************************)
LEMMA ClashUserSpare ==
  ASSUME NEW p, p["type"] \in DOMAIN ClashTypes
  PROVE  Spare(ClashUser(p))
<1>. DEFINE name == "username" := p["username"]
            word == "password" := Text(p, "password")
            login == IF Text(p, "username") = <<>> THEN <<>> ELSE name ++ word
            uuid == "uuid" := Text(p, "uuid")
            flow == Opt("flow", Text(p, "flow"))
            xudp == "packet_encoding" := "xudp"
            alter == "alter_id" := Or(Text(p, "alterId"), Word("0"))
            security == "security" := Or(Text(p, "cipher"), Word("auto"))
            method == "method" := Text(p, "cipher")
            hidden == [type |-> Or(Text(p, "obfs"), Word("salamander")), password |-> p["obfs-password"]]
            obfs == IF ~Has(p, "obfs-password") THEN <<>> ELSE "obfs" := hidden
            control == "congestion_control" := Or(Text(p, "congestion-controller"), Word("bbr"))
            version == "version" := "5"
<1>1. p["type"] \in {"vless", "vmess", "trojan", "ss", "hysteria2", "tuic", "socks5", "http"}
  BY DEF ClashTypes
<1>2. ClashUser(p) \in {uuid ++ flow ++ xudp, uuid ++ alter ++ security ++ xudp, word, method ++ word,
                        word ++ obfs, uuid ++ word ++ control, version ++ login, login}
  BY <1>1, Zenon DEF ClashUser
<1>3. /\ Spare(name) /\ Spare(word) /\ Spare(uuid) /\ Spare(flow) /\ Spare(xudp) /\ Spare(alter)
      /\ Spare(security) /\ Spare(method) /\ Spare(control) /\ Spare(version) /\ Spare(<<>>)
  BY SpareFields
<1>4. Spare(obfs)
  <2>. HIDE DEF hidden
  <2>. QED
    BY SpareFields
<1>. HIDE DEF name, word, uuid, flow, xudp, alter, security, method, obfs, control, version
<1>5. Spare(login)
  BY <1>3, SpareFields
<1>. HIDE DEF login
<1>6. /\ Spare(uuid ++ flow) /\ Spare(uuid ++ alter) /\ Spare(method ++ word) /\ Spare(word ++ obfs)
      /\ Spare(uuid ++ word) /\ Spare(version ++ login)
  BY <1>3, <1>4, <1>5, SpareFields
<1>7. Spare(uuid ++ flow ++ xudp) /\ Spare(uuid ++ alter ++ security) /\ Spare(uuid ++ word ++ control)
  BY <1>3, <1>6, SpareFields
<1>8. Spare(uuid ++ alter ++ security ++ xudp)
  BY <1>3, <1>7, SpareFields
<1>. QED
  BY <1>2, <1>3, <1>5, <1>6, <1>7, <1>8

Ordinary(m) ==
  /\ \A x \in DOMAIN m : x = "transport"
  /\ "transport" \in DOMAIN m => \E v : OfType(m["transport"], v) /\ v # "xhttp"

LEMMA ClashTransportOrdinary ==
  ASSUME NEW p
  PROVE  Ordinary(ClashTransport(p))
<1>. DEFINE opts == Text(p, "ws-opts")
            path == IF Has(p, "ws-opts") THEN "path" := Or(Text(opts, "path"), Word("/")) ELSE <<>>
            ws == ("type" := "ws") ++ path ++ Opt("headers", Text(opts, "Host"))
            grpc == ("type" := "grpc") ++ ("service_name" := Text(Text(p, "grpc-opts"), "grpc-service-name"))
            http == "type" := "http"
<1>1. ClashTransport(p) \in {"transport" := ws, "transport" := grpc, "transport" := http, <<>>}
  BY Zenon DEF ClashTransport
<1>2. ASSUME NEW t, NEW v, OfType(t, v), v # "xhttp"
      PROVE  Ordinary("transport" := t)
  <2>. DEFINE m == "transport" := t
  <2>1. (\A x : x \in DOMAIN m <=> x = "transport") /\ m["transport"] = t
    BY MemberIs
  <2>. HIDE DEF m
  <2>. QED
    BY <1>2, <2>1, Zenon DEF Ordinary, m
<1>3. OfType(ws, "ws") /\ OfType(grpc, "grpc") /\ OfType(http, "http")
  <2>. HIDE DEF path, opts
  <2>. QED
    BY TypeStays
<1>. HIDE DEF ws, grpc, http
<1>4. Ordinary("transport" := ws) /\ Ordinary("transport" := grpc) /\ Ordinary("transport" := http)
  BY <1>2, <1>3
<1>5. Ordinary(<<>>)
  BY NothingHas DEF Ordinary
<1>. QED
  BY <1>1, <1>4, <1>5

LEMMA OrdinaryCame ==
  ASSUME NEW name, NEW o, NEW t, Ordinary(t), "transport" \notin DOMAIN o
  PROVE  Came(Profile(name, o ++ t))
<1>1. PICK out : out = o ++ t
  OBVIOUS
<1>2. /\ \A x : x \in DOMAIN out <=> x \in DOMAIN o \/ x \in DOMAIN t
      /\ \A x \in DOMAIN t : x \notin DOMAIN o => out[x] = t[x]
  BY <1>1, MergedFields
<1>3. CASE "transport" \notin DOMAIN t
  BY <1>1, <1>2, <1>3, PlainCame
<1>4. CASE "transport" \in DOMAIN t
  <2>1. PICK v : OfType(t["transport"], v) /\ v # "xhttp"
    BY <1>4 DEF Ordinary
  <2>2. Str(Part(out, "transport"), "type") = v
    BY <1>2, <1>4, <2>1, TransportType
  <2>. DEFINE p == Profile(name, out)
  <2>3. {"kind", "name", "outbound"} \subseteq DOMAIN p /\ ~is_xray(p) /\ p.outbound = out
    BY ProfileIs
  <2>. HIDE DEF p
  <2>4. Came(p)
    BY <2>1, <2>2, <2>3 DEF Came, Converted
  <2>. QED
    BY <1>1, <2>4 DEF p
<1>. QED
  BY <1>3, <1>4

LEMMA ClashYields ==
  ASSUME NEW p, NEW name
  PROVE  LET o == clash_proxy_to_outbound(p)
         IN  Yields([i \in DOMAIN o |-> Profile(name, o[i])])
<1>. DEFINE a == "type" := ClashTypes[p["type"]]
            b == a ++ ("server" := p["server"])
            c == b ++ ("server_port" := p["port"])
            d == c ++ ClashUser(p)
            e == d ++ ClashTls(p)
            t == ClashTransport(p)
            found == clash_proxy_to_outbound(p)
<1>1. found = <<>> \/ (p["type"] \in DOMAIN ClashTypes /\ found = <<e ++ t>>)
  BY Zenon DEF clash_proxy_to_outbound
<1>2. Ordinary(t)
  BY ClashTransportOrdinary
<1>3. ASSUME p["type"] \in DOMAIN ClashTypes
      PROVE  "transport" \notin DOMAIN e
  <2>1. Spare(a)
    BY SpareFields
  <2>. HIDE DEF a
  <2>2. Spare(b)
    BY <2>1, SpareFields
  <2>. HIDE DEF b
  <2>3. Spare(c)
    BY <2>2, SpareFields
  <2>. HIDE DEF c
  <2>4. Spare(d)
    BY <1>3, <2>3, SpareFields, ClashUserSpare
  <2>. HIDE DEF d
  <2>5. "transport" \notin DOMAIN ClashTls(p)
    <3>1. \A m : "transport" \notin DOMAIN ("tls" := m)
      BY MemberIs
    <3>2. ClashTls(p) = <<>> \/ \E m : ClashTls(p) = ("tls" := m)
      BY Zenon DEF ClashTls
    <3>. QED
      BY <3>1, <3>2, NothingHas
  <2>. QED
    BY <2>4, <2>5, MergedFields DEF Spare
<1>. HIDE DEF e, t, found
<1>. DEFINE one == [i \in DOMAIN found |-> Profile(name, found[i])]
<1>4. CASE found = <<>>
  <2>1. one = <<>>
    BY <1>4
  <2>. QED
    BY <2>1 DEF Yields, found
<1>5. CASE p["type"] \in DOMAIN ClashTypes /\ found = <<e ++ t>>
  <2>1. one = <<Profile(name, e ++ t)>>
    BY <1>5
  <2>2. Came(Profile(name, e ++ t))
    BY <1>2, <1>3, <1>5, OrdinaryCame
  <2>. QED
    BY <2>1, <2>2 DEF Yields, found
<1>. QED
  BY <1>1, <1>4, <1>5

LEMMA ClashBrought ==
  ASSUME NEW proxies, Listed(proxies)
  PROVE  Brought(parse_clash(proxies))
<1>. DEFINE One(p) == LET o == clash_proxy_to_outbound(p)
                      IN  [i \in DOMAIN o |-> Profile(Text(p, "name"), o[i])]
            seqs == [i \in DOMAIN proxies |-> One(proxies[i])]
<1>1. PICK N \in Nat : N = Len(proxies) /\ DOMAIN proxies = 1 .. N
  BY DEF Listed
<1>2. parse_clash(proxies) = Joined(seqs)
  BY DEF parse_clash
<1>3. \A p : Yields(One(p))
  BY ClashYields
<1>. HIDE DEF One
<1>4. Len(seqs) = N /\ \A n \in 1 .. N : seqs[n] = One(proxies[n])
  BY <1>1
<1>. HIDE DEF seqs
<1>. QED
  BY <1>2, <1>3, <1>4, JoinedBrought

(***************************************************************************)
(* Of a JSON document each outbound that is a server is taken as it is.    *)
(***************************************************************************)
LEMMA JsonListed ==
  ASSUME NEW outbounds, Listed(outbounds)
  PROVE  /\ Listed(parse_json(outbounds))
         /\ parse_json(outbounds) = <<>> => \A i \in DOMAIN outbounds : Str(outbounds[i], "type") \in Service
<1>. DEFINE One(o) == When(Str(o, "type") \notin Service, <<FromOutbound(o)>>)
            seqs == [i \in DOMAIN outbounds |-> One(outbounds[i])]
<1>1. PICK N \in Nat : N = Len(outbounds) /\ DOMAIN outbounds = 1 .. N
  BY DEF Listed
<1>2. parse_json(outbounds) = Joined(seqs)
  BY DEF parse_json
<1>3. ASSUME NEW o
      PROVE  One(o) = IF Str(o, "type") \in Service THEN <<>> ELSE <<FromOutbound(o)>>
  BY Zenon DEF When
<1>. HIDE DEF One
<1>4. Len(seqs) = N /\ \A n \in 1 .. N : seqs[n] = One(outbounds[n])
  BY <1>1
<1>5. \A n \in 1 .. N : Single(seqs[n])
  BY <1>3, <1>4 DEF Single
<1>. HIDE DEF seqs
<1>6. /\ Joined(seqs) \in Seq(ToSet(Joined(seqs)))
      /\ Joined(seqs) = <<>> => \A n \in 1 .. N : seqs[n] = <<>>
  BY <1>4, <1>5, JoinedSingles
<1>7. ASSUME Joined(seqs) = <<>>, NEW i \in DOMAIN outbounds
      PROVE  Str(outbounds[i], "type") \in Service
  <2>1. seqs[i] = <<>> /\ seqs[i] = One(outbounds[i])
    BY <1>1, <1>4, <1>6, <1>7
  <2>2. <<FromOutbound(outbounds[i])>> # <<>>
    OBVIOUS
  <2>. QED
    BY <1>3, <2>1, <2>2
<1>. QED
  BY <1>2, <1>6, <1>7 DEF Listed

(***************************************************************************)
(* A body of any form: only JSON brings servers that were not converted.   *)
(***************************************************************************)
LEMMA BodyBrought ==
  ASSUME NEW body \in Bodies
  PROVE  /\ Listed(ProfilesOf(body))
         /\ body.form # "json" => Brought(ProfilesOf(body))
<1>1. Listed(body.lines) /\ Listed(body.items)
  BY ExchangeAssumption DEF Listed
<1>2. PICK found : found = ProfilesOf(body)
  OBVIOUS
<1>3. \/ found = parse_json(body.items) /\ body.form = "json"
      \/ found \in {parse_clash(body.items), parse_many(body.lines), <<>>} /\ body.form # "json"
  BY <1>2, Zenon DEF ProfilesOf
<1>4. Listed(parse_json(body.items)) /\ Brought(parse_clash(body.items)) /\ Brought(parse_many(body.lines))
  BY <1>1, JsonListed, ClashBrought, LinksBrought
<1>5. Brought(<<>>)
  BY DEF Brought, Listed, ToSet
<1>. QED
  BY <1>2, <1>3, <1>4, <1>5 DEF Brought

(***************************************************************************)
(* Servers that are held: ExchangeInv of a list of them.                   *)
(***************************************************************************)
Held(list) ==
  /\ Listed(list)
  /\ \A i \in DOMAIN list : list[i].from # "json" => Converted(list[i].profile)

LEMMA ComeHeld ==
  ASSUME NEW profiles, Listed(profiles), NEW from, from = "json" \/ Brought(profiles)
  PROVE  /\ Held(Come(profiles, from))
         /\ Come(profiles, from) = <<>> => profiles = <<>>
<1>. DEFINE come == [i \in DOMAIN profiles |-> [profile |-> profiles[i], from |-> from]]
<1>1. PICK N \in Nat : N = Len(profiles) /\ DOMAIN profiles = 1 .. N
  BY DEF Listed
<1>2. /\ Len(come) = N /\ DOMAIN come = 1 .. N
      /\ \A i \in 1 .. N : come[i] = [profile |-> profiles[i], from |-> from]
  BY <1>1
<1>3. come \in Seq(ToSet(come))
  <2>1. \A i \in 1 .. N : come[i] \in ToSet(come)
    BY <1>2 DEF ToSet
  <2>2. come \in [1 .. N -> ToSet(come)]
    BY <1>2, <2>1
  <2>. HIDE DEF come
  <2>. QED
    BY <2>2
<1>4. ASSUME NEW i \in 1 .. N, from # "json"
      PROVE  Converted(profiles[i])
  <2>1. profiles[i] \in ToSet(profiles)
    BY <1>1 DEF ToSet
  <2>. QED
    BY <1>4, <2>1 DEF Brought, Came
<1>5. come = <<>> => profiles = <<>>
  <2>. SUFFICES ASSUME come = <<>> PROVE profiles = <<>>
    OBVIOUS
  <2>1. N = 0
    BY <1>2
  <2>. QED
    BY <1>1, <2>1 DEF Listed
<1>6. Come(profiles, from) = come
  BY DEF Come
<1>7. \A i \in 1 .. N : come[i].from = from /\ come[i].profile = profiles[i]
  BY <1>2
<1>. HIDE DEF come
<1>. QED
  BY <1>2, <1>3, <1>4, <1>5, <1>6, <1>7 DEF Held, Listed

LEMMA ConcatHeld ==
  ASSUME NEW a, Held(a), NEW b, Held(b)
  PROVE  Held(a \o b)
<1>. DEFINE S == ToSet(a) \cup ToSet(b)
            H == {e \in S : e.from # "json" => Converted(e.profile)}
<1>1. \A e \in ToSet(a) : e \in H
  BY DEF Held, Listed, ToSet
<1>2. \A e \in ToSet(b) : e \in H
  BY DEF Held, Listed, ToSet
<1>. HIDE DEF H
<1>3. a \in Seq(H) /\ b \in Seq(H)
  BY <1>1, <1>2 DEF Held, Listed
<1>4. PICK ab : ab = a \o b /\ ab \in Seq(H)
  BY <1>3, ConcatProperties
<1>5. ab \in Seq(ToSet(ab))
  <2>1. ab \in [1 .. Len(ab) -> H] /\ Len(ab) \in Nat /\ DOMAIN ab = 1 .. Len(ab)
    BY <1>4, LenProperties
  <2>2. \A i \in 1 .. Len(ab) : ab[i] \in ToSet(ab)
    BY <2>1 DEF ToSet
  <2>3. ab \in [1 .. Len(ab) -> ToSet(ab)]
    BY <2>1, <2>2
  <2>. QED
    BY <2>1, <2>3
<1>6. \A i \in DOMAIN ab : ab[i] \in H
  BY <1>4
<1>. QED
  BY <1>4, <1>5, <1>6 DEF Held, Listed, H

-----------------------------------------------------------------------------
(***************************************************************************)
(* The steps.                                                              *)
(***************************************************************************)
LEMMA AddHeld ==
  ASSUME ExchangeInv, NEW profiles, Brought(profiles), Add(profiles)
  PROVE  ExchangeInv' /\ servers' # <<>>
<1>1. Held(servers)
  BY DEF ExchangeInv, Held, Listed
<1>2. PICK come : come = Come(profiles, "link") /\ Held(come)
  BY ComeHeld DEF Brought
<1>3. servers' = servers \o come /\ profiles # <<>>
  BY <1>2 DEF Add
<1>4. Held(servers')
  BY <1>1, <1>2, <1>3, ConcatHeld
<1>5. come # <<>>
  BY <1>2, <1>3, ComeHeld DEF Brought
<1>6. servers' # <<>>
  <2>1. Len(come) \in Nat /\ Len(come) # 0 /\ Len(servers) \in Nat
    BY <1>1, <1>2, <1>5 DEF Held, Listed
  <2>2. Len(servers \o come) = Len(servers) + Len(come)
    BY <1>1, <1>2 DEF Held, Listed
  <2>. QED
    BY <1>3, <2>1, <2>2
<1>. QED
  BY <1>4, <1>6 DEF ExchangeInv, Held, Listed

LEMMA UpdateHeld ==
  ASSUME NEW body \in Bodies, Update(body)
  PROVE  ExchangeInv' /\ (servers' = <<>> => ProfilesOf(body) = <<>> /\ ~Refuses(body))
<1>1. PICK profiles : profiles = ProfilesOf(body) /\ Listed(profiles) /\ (body.form = "json" \/ Brought(profiles))
  BY BodyBrought
<1>2. servers' = Come(profiles, body.form) /\ ~Refuses(body)
  BY <1>1 DEF Update
<1>3. Held(servers') /\ (servers' = <<>> => profiles = <<>>)
  BY <1>1, <1>2, ComeHeld
<1>. QED
  BY <1>1, <1>2, <1>3 DEF ExchangeInv, Held, Listed

LEMMA ExchangeStep == ExchangeInv /\ [ExchangeNext]_exchangeVars => ExchangeInv'
<1>. SUFFICES ASSUME ExchangeInv, [ExchangeNext]_exchangeVars
              PROVE  ExchangeInv'
  OBVIOUS
<1>1. ASSUME NEW lines \in Offered, AddLinks(lines)
      PROVE  ExchangeInv'
  <2>1. Brought(parse_many(lines))
    BY ExchangeAssumption, LinksBrought DEF Listed
  <2>. QED
    BY <1>1, <2>1, AddHeld DEF AddLinks
<1>2. CASE PasteLink
  <2>1. PICK lines : lines = <<clipboard>> /\ Listed(lines)
    <3>1. ToSet(<<clipboard>>) = {clipboard}
      BY DEF ToSet
    <3>2. <<clipboard>> \in Seq({clipboard})
      OBVIOUS
    <3>. QED
      BY <3>1, <3>2 DEF Listed
  <2>2. Brought(parse_many(lines))
    BY <2>1, LinksBrought
  <2>. QED
    BY <1>2, <2>1, <2>2, AddHeld DEF PasteLink
<1>3. ASSUME NEW i \in DOMAIN servers, CopyLink(i)
      PROVE  ExchangeInv'
  <2>1. servers' = servers
    BY <1>3, Zenon DEF CopyLink
  <2>. QED
    BY <2>1 DEF ExchangeInv
<1>4. ASSUME NEW body \in Bodies, Update(body)
      PROVE  ExchangeInv'
  BY <1>4, UpdateHeld
<1>5. CASE UNCHANGED exchangeVars
  BY <1>5 DEF ExchangeInv, exchangeVars
<1>. QED
  BY <1>1, <1>2, <1>3, <1>4, <1>5 DEF ExchangeNext

(***************************************************************************)
(* The servers that links and Clash documents brought stay as the parsers  *)
(* made them: parse_vless, parse_trojan and the others of link.rs, and     *)
(* clash_proxy_to_outbound of subscription.rs.                             *)
(***************************************************************************)
LEMMA ExchangeStart == ExchangeInit => ExchangeInv
BY DEF ExchangeInit, ExchangeInv, ToSet

(***************************************************************************)
(* ExchangeInv is an invariant: whatever texts and bodies come, in whatever*)
(* order links are copied, pasted and replaced by an update.               *)
(***************************************************************************)
THEOREM ExchangeHeld == ExchangeSpec => []ExchangeInv
BY ExchangeStart, ExchangeStep, PTL DEF ExchangeSpec

(***************************************************************************)
(* XhttpGoesToXray: the mark that parse_vless sets and the transport that  *)
(* transport_from_query makes agree, and what is marked converts.          *)
(***************************************************************************)
THEOREM XhttpIsForXray == ExchangeSpec => []XhttpGoesToXray
<1>1. ExchangeInv => XhttpGoesToXray
  <2>. SUFFICES ASSUME ExchangeInv, NEW i \in DOMAIN servers, servers[i].from # "json"
                PROVE  LET p == servers[i].profile
                       IN  /\ Str(Part(p.outbound, "transport"), "type") = "xhttp" =>
                                 is_xray(p) \/ p.outbound["type"] \in {"trojan", "vmess"}
                           /\ is_xray(p) => Convertible(p)
    BY DEF XhttpGoesToXray
  <2>1. PICK p : p = servers[i].profile /\ Converted(p)
    BY DEF ExchangeInv
  <2>2. is_xray(p) => Convertible(p)
    BY <2>1 DEF Converted, ForXray, Convertible
  <2>. QED
    BY <2>1, <2>2 DEF Converted
<1>. QED
  BY <1>1, ExchangeHeld, PTL

(***************************************************************************)
(* x has every field of m, with its value.                                 *)
(***************************************************************************)
Gives(x, m) == \A f \in DOMAIN m : f \in DOMAIN x /\ x[f] = m[f]

(***************************************************************************)
(* What picking and inserting fields leave, and merging gives.             *)
(***************************************************************************)
LEMMA OnlyFields ==
  ASSUME NEW o, NEW fields
  PROVE  /\ \A f : f \in DOMAIN Only(o, fields) <=> f \in fields /\ f \in DOMAIN o
         /\ \A f \in DOMAIN Only(o, fields) : Only(o, fields)[f] = o[f]
BY DEF Only

LEMMA InsertFields ==
  ASSUME NEW o, NEW f, NEW v
  PROVE  /\ \A x : x \in DOMAIN Insert(o, f, v) <=> x \in DOMAIN o \/ x = f
         /\ \A x \in DOMAIN o : x # f => Insert(o, f, v)[x] = o[x]
BY DEF Insert

LEMMA GivesFirst ==
  ASSUME NEW x, NEW y, NEW m, Gives(x, m)
  PROVE  Gives(x ++ y, m)
BY MergedFields DEF Gives

LEMMA GivesSecond ==
  ASSUME NEW x, NEW y, NEW m, Gives(y, m), \A f \in DOMAIN m : f \notin DOMAIN x
  PROVE  Gives(x ++ y, m)
BY MergedFields DEF Gives

LEMMA GivesBoth ==
  ASSUME NEW x, NEW m, NEW n, Gives(x, m), Gives(x, n)
  PROVE  Gives(x, m ++ n)
<1>1. PICK both : both = m ++ n
  OBVIOUS
<1>2. ASSUME NEW f \in DOMAIN both
      PROVE  f \in DOMAIN x /\ x[f] = both[f]
  BY <1>1, <1>2, MergedFields DEF Gives
<1>. QED
  BY <1>1, <1>2 DEF Gives

LEMMA GivesAll ==
  ASSUME NEW x, NEW m, NEW n, Gives(x, m ++ n)
  PROVE  Only(x, DOMAIN (m ++ n)) = m ++ n
<1>. DEFINE both == m ++ n
<1>1. both = [f \in DOMAIN both |-> both[f]]
  BY DEF ++
<1>. HIDE DEF both
<1>2. DOMAIN both \cap DOMAIN x = DOMAIN both /\ \A f \in DOMAIN both : x[f] = both[f]
  BY DEF Gives, both
<1>3. Only(x, DOMAIN both) = [f \in DOMAIN both |-> both[f]]
  BY <1>2 DEF Only
<1>. QED
  BY <1>1, <1>3 DEF both

(***************************************************************************)
(* What Xray is told of the stream of an outbound made for it.             *)
(***************************************************************************)
Beside(o) == Only(o["transport"], DOMAIN o["transport"] \ {"type"})

Security(o) ==
  LET s == Only(Part(o, "tls"), DOMAIN Part(o, "tls") \ {"enabled"})
  IN  Only(s, DOMAIN s \ (IF Has(s, "reality") THEN {"insecure", "alpn"} ELSE {}))

LEMMA StreamTold ==
  ASSUME NEW o, ForXray(o)
  PROVE  LET st == stream_settings(o)
         IN  /\ "network" \in DOMAIN st /\ st["network"] = o["transport"]["type"]
             /\ Gives(st, Beside(o)) /\ Gives(st, Security(o))
<1>. DEFINE t == o["transport"]
            tls == IF Has(o, "tls") THEN o["tls"] ELSE <<>>
            head == "network" := t["type"]
            fields == Only(t, TransportFields(t["type"]))
            base == head ++ fields
            fp == IF Has(tls, "utls") THEN tls["utls"] ELSE "chrome"
            name == "server_name" := Str(tls, "server_name")
            print == "utls" := fp
            seen == name ++ print
            none == base ++ ("security" := "none")
            reality == base ++ ("security" := "reality") ++ seen ++ Only(tls, {"reality"})
            plain == base ++ ("security" := "tls") ++ seen ++ Only(tls, {"insecure", "alpn"})
<1>1. stream_settings(o) = IF ~Has(o, "tls") THEN none ELSE IF Has(tls, "reality") THEN reality ELSE plain
  BY Zenon DEF stream_settings, ForXray, Has
<1>2. /\ t["type"] = "xhttp" /\ DOMAIN t \subseteq XhttpMembers /\ DOMAIN tls \subseteq TlsMembers
      /\ Part(o, "tls") = tls
  BY NothingHas DEF ForXray, Part, Text, Has
<1>. HIDE DEF tls
<1>3. \A x : x \in DOMAIN fields <=> x \in DOMAIN t /\ x # "type"
  <2>1. TransportFields("xhttp") = {"path", "mode", "host", "extra"}
    BY DEF TransportFields
  <2>. QED
    BY <1>2, <2>1, OnlyFields DEF XhttpMembers
<1>4. \A x \in DOMAIN fields : fields[x] = t[x]
  BY OnlyFields
<1>. HIDE DEF fields
<1>5. (\A x : x \in DOMAIN head <=> x = "network") /\ head["network"] = t["type"]
  BY MemberIs
<1>. HIDE DEF head
<1>6. /\ \A x : x \in DOMAIN base <=> x = "network" \/ (x \in DOMAIN t /\ x # "type")
      /\ base["network"] = t["type"]
      /\ \A x \in DOMAIN t : x # "type" => base[x] = t[x]
  <2>1. "network" \notin DOMAIN t
    BY <1>2 DEF XhttpMembers
  <2>. QED
    BY <1>3, <1>4, <1>5, <2>1, MergedFields
<1>. HIDE DEF base
<1>7. Gives(base, Beside(o))
  BY <1>6, OnlyFields DEF Beside, Gives
<1>8. /\ \A x : x \in DOMAIN name <=> x = "server_name"
      /\ "server_name" \in DOMAIN tls => name["server_name"] = tls["server_name"]
  <2>1. "server_name" \in DOMAIN tls => Str(tls, "server_name") = tls["server_name"]
    BY Zenon DEF Str, Has
  <2>2. PICK v : v = Str(tls, "server_name")
    OBVIOUS
  <2>. QED
    BY <2>1, <2>2, MemberIs
<1>9. /\ \A x : x \in DOMAIN print <=> x = "utls"
      /\ "utls" \in DOMAIN tls => print["utls"] = tls["utls"]
  BY MemberIs DEF Has
<1>. HIDE DEF name, print
<1>10. /\ \A x : x \in DOMAIN seen <=> x \in {"server_name", "utls"}
       /\ \A x \in DOMAIN seen : x \in DOMAIN tls => seen[x] = tls[x]
  BY <1>8, <1>9, MergedFields
<1>. HIDE DEF seen
<1>11. /\ \A x \in DOMAIN Security(o) : x \in TlsMembers /\ x # "enabled" /\ x \in DOMAIN tls
       /\ \A x \in DOMAIN Security(o) : Security(o)[x] = tls[x]
       /\ "reality" \in DOMAIN tls => "insecure" \notin DOMAIN Security(o) /\ "alpn" \notin DOMAIN Security(o)
  <2>. DEFINE s == Only(tls, DOMAIN tls \ {"enabled"})
              lost == IF Has(s, "reality") THEN {"insecure", "alpn"} ELSE {}
              told == Only(s, DOMAIN s \ lost)
  <2>1. Security(o) = told
    BY <1>2, Zenon DEF Security
  <2>2. /\ \A x : x \in DOMAIN s <=> x \in DOMAIN tls /\ x # "enabled"
        /\ \A x \in DOMAIN s : s[x] = tls[x]
    BY OnlyFields
  <2>. HIDE DEF s
  <2>3. "reality" \in DOMAIN tls => "insecure" \in lost /\ "alpn" \in lost
    BY <2>2 DEF Has
  <2>. HIDE DEF lost
  <2>4. /\ \A x : x \in DOMAIN told <=> x \in DOMAIN s /\ x \notin lost
        /\ \A x \in DOMAIN told : told[x] = s[x]
    BY OnlyFields
  <2>. HIDE DEF told
  <2>. QED
    BY <1>2, <2>1, <2>2, <2>3, <2>4
<1>12. \A x \in DOMAIN Security(o) : x \notin DOMAIN base
  BY <1>2, <1>6, <1>11 DEF TlsMembers, XhttpMembers
<1>13. ASSUME NEW mark, NEW rest, \A x \in DOMAIN Security(o) : x \in DOMAIN seen \/ x \in DOMAIN rest,
              \A x \in DOMAIN rest : rest[x] = tls[x]
       PROVE  Gives(base ++ ("security" := mark) ++ seen ++ rest, Security(o))
  <2>. DEFINE b == base ++ ("security" := mark)
              c == b ++ seen
              d == c ++ rest
  <2>1. \A x \in DOMAIN Security(o) : x \notin DOMAIN b
    BY <1>11, <1>12, MemberIs, MergedFields DEF TlsMembers
  <2>. HIDE DEF b
  <2>2. /\ \A x : x \in DOMAIN c <=> x \in DOMAIN b \/ x \in DOMAIN seen
        /\ \A x \in DOMAIN seen : x \notin DOMAIN b => c[x] = seen[x]
    BY MergedFields
  <2>. HIDE DEF c
  <2>3. /\ \A x : x \in DOMAIN d <=> x \in DOMAIN c \/ x \in DOMAIN rest
        /\ \A x \in DOMAIN c : d[x] = c[x]
        /\ \A x \in DOMAIN rest : x \notin DOMAIN c => d[x] = rest[x]
    BY MergedFields
  <2>. HIDE DEF d
  <2>4. Gives(d, Security(o))
    BY <1>10, <1>11, <1>13, <2>1, <2>2, <2>3 DEF Gives
  <2>. QED
    BY <2>4 DEF b, c, d
<1>14. ASSUME NEW a, NEW b, NEW c
       PROVE  /\ "network" \in DOMAIN (base ++ a ++ b ++ c)
              /\ (base ++ a ++ b ++ c)["network"] = t["type"]
              /\ Gives(base ++ a ++ b ++ c, Beside(o))
  <2>1. "network" \in DOMAIN base /\ base["network"] = t["type"]
    BY <1>6
  <2>2. "network" \in DOMAIN (base ++ a) /\ (base ++ a)["network"] = t["type"]
    BY <2>1, MergedFields
  <2>3. "network" \in DOMAIN (base ++ a ++ b) /\ (base ++ a ++ b)["network"] = t["type"]
    BY <2>2, MergedFields
  <2>4. "network" \in DOMAIN (base ++ a ++ b ++ c) /\ (base ++ a ++ b ++ c)["network"] = t["type"]
    BY <2>3, MergedFields
  <2>5. Gives(base ++ a ++ b, Beside(o))
    BY <1>7, GivesFirst
  <2>. QED
    BY <2>4, <2>5, GivesFirst
<1>15. CASE ~Has(o, "tls")
  <2>1. "network" \in DOMAIN none /\ none["network"] = t["type"] /\ Gives(none, Beside(o))
    BY <1>6, <1>7, MergedFields, GivesFirst
  <2>2. DOMAIN tls = {}
    BY <1>15 DEF tls
  <2>3. Gives(none, Security(o))
    BY <1>11, <2>2 DEF Gives
  <2>4. stream_settings(o) = none
    BY <1>1, <1>15, Zenon
  <2>. HIDE DEF none
  <2>. QED
    BY <2>1, <2>3, <2>4
<1>16. CASE Has(o, "tls") /\ Has(tls, "reality")
  <2>. DEFINE rest == Only(tls, {"reality"})
  <2>1. (\A x : x \in DOMAIN rest <=> x = "reality") /\ \A x \in DOMAIN rest : rest[x] = tls[x]
    BY <1>16, OnlyFields DEF Has
  <2>. HIDE DEF rest
  <2>2. \A x \in DOMAIN Security(o) : x \in DOMAIN seen \/ x \in DOMAIN rest
    BY <1>10, <1>11, <1>16, <2>1 DEF TlsMembers, Has
  <2>3. Gives(base ++ ("security" := "reality") ++ seen ++ rest, Security(o))
    BY <1>13, <2>1, <2>2
  <2>4. stream_settings(o) = base ++ ("security" := "reality") ++ seen ++ rest
    BY <1>1, <1>16, Zenon DEF rest
  <2>. QED
    BY <1>14, <2>3, <2>4
<1>17. CASE Has(o, "tls") /\ ~Has(tls, "reality")
  <2>. DEFINE rest == Only(tls, {"insecure", "alpn"})
  <2>1. /\ \A x : x \in DOMAIN rest <=> x \in {"insecure", "alpn"} /\ x \in DOMAIN tls
        /\ \A x \in DOMAIN rest : rest[x] = tls[x]
    BY OnlyFields
  <2>. HIDE DEF rest
  <2>2. \A x \in DOMAIN Security(o) : x \in DOMAIN seen \/ x \in DOMAIN rest
    BY <1>10, <1>11, <1>17, <2>1 DEF TlsMembers, Has
  <2>3. Gives(base ++ ("security" := "tls") ++ seen ++ rest, Security(o))
    BY <1>13, <2>1, <2>2
  <2>4. stream_settings(o) = base ++ ("security" := "tls") ++ seen ++ rest
    BY <1>1, <1>17, Zenon DEF rest
  <2>. QED
    BY <1>14, <2>3, <2>4
<1>. QED
  BY <1>15, <1>16, <1>17

(***************************************************************************)
(* And of the outbound as a whole.                                         *)
(***************************************************************************)
LEMMA OutboundTold ==
  ASSUME NEW p, ForXray(p.outbound), NEW tag
  PROVE  LET o == p.outbound
             x == to_xray_outbound(p, tag)
             said == Beside(o) ++ Security(o) ++ Only(o, {"server", "server_port", "uuid", "flow"})
         IN  Only(x, DOMAIN said) = said /\ x["network"] = o["transport"]["type"]
<1>. DEFINE o == p.outbound
            user == Only(o, {"server", "server_port", "uuid", "flow"})
            st == stream_settings(o)
            head == "protocol" := "vless"
            front == head ++ user
            whole == front ++ st
            x == Insert(whole, "tag", tag)
<1>1. to_xray_outbound(p, tag) = x
  <2>1. ~is_xray_native(p)
    BY DEF is_xray_native, Has, ForXray
  <2>. QED
    BY <2>1, Zenon DEF to_xray_outbound
<1>2. /\ "network" \in DOMAIN st /\ st["network"] = o["transport"]["type"]
      /\ Gives(st, Beside(o)) /\ Gives(st, Security(o))
  BY StreamTold
<1>3. /\ DOMAIN Beside(o) \subseteq XhttpMembers
      /\ DOMAIN Security(o) \subseteq TlsMembers
  <2>1. DOMAIN Beside(o) \subseteq XhttpMembers
    BY OnlyFields DEF Beside, ForXray
  <2>2. DOMAIN Part(o, "tls") \subseteq TlsMembers
    BY NothingHas DEF ForXray, Part, Text, Has
  <2>3. DOMAIN Security(o) \subseteq DOMAIN Part(o, "tls")
    BY OnlyFields DEF Security
  <2>. QED
    BY <2>1, <2>2, <2>3
<1>4. \A f : f \in DOMAIN user => f \in {"server", "server_port", "uuid", "flow"}
  BY OnlyFields
<1>5. \A f : f \in DOMAIN head <=> f = "protocol"
  BY MemberIs
<1>. HIDE DEF o, st, user, head
<1>6. \A f : f \in DOMAIN front <=> f = "protocol" \/ f \in DOMAIN user
  BY <1>5, MergedFields
<1>7. Gives(front, user)
  <2>1. Gives(user, user)
    BY DEF Gives
  <2>. QED
    BY <1>4, <1>5, <2>1, GivesSecond
<1>. HIDE DEF front
<1>8. Gives(whole, user) /\ Gives(whole, Beside(o)) /\ Gives(whole, Security(o))
  <2>1. \A f \in DOMAIN Beside(o) : f \notin DOMAIN front
    BY <1>3, <1>4, <1>6 DEF XhttpMembers
  <2>2. \A f \in DOMAIN Security(o) : f \notin DOMAIN front
    BY <1>3, <1>4, <1>6 DEF TlsMembers
  <2>. QED
    BY <1>2, <1>7, <2>1, <2>2, GivesFirst, GivesSecond
<1>9. "network" \in DOMAIN whole /\ whole["network"] = o["transport"]["type"]
  BY <1>2, <1>4, <1>6, MergedFields
<1>. HIDE DEF whole
<1>10. /\ \A f \in DOMAIN whole : f # "tag" => x[f] = whole[f]
       /\ \A f \in DOMAIN whole : f \in DOMAIN x
  BY InsertFields
<1>. HIDE DEF x
<1>11. Gives(x, user) /\ Gives(x, Beside(o)) /\ Gives(x, Security(o))
  <2>1. "tag" \notin DOMAIN user /\ "tag" \notin DOMAIN Beside(o) /\ "tag" \notin DOMAIN Security(o)
    BY <1>3, <1>4 DEF XhttpMembers, TlsMembers
  <2>. QED
    BY <1>8, <1>10, <2>1 DEF Gives
<1>12. Gives(x, Beside(o) ++ Security(o) ++ user)
  BY <1>11, GivesBoth
<1>13. Only(x, DOMAIN (Beside(o) ++ Security(o) ++ user)) = Beside(o) ++ Security(o) ++ user
  BY <1>12, GivesAll
<1>14. x["network"] = o["transport"]["type"]
  BY <1>9, <1>10
<1>. QED
  BY <1>1, <1>13, <1>14 DEF o, user

(***************************************************************************)
(* XrayGetsAll: every member of the transport, of tls and of the outbound  *)
(* itself that a link gave reaches Xray (to_xray_outbound in xray.rs).     *)
(***************************************************************************)
THEOREM XrayIsTold == ExchangeSpec => []XrayGetsAll
<1>1. ExchangeInv => XrayGetsAll
  <2>. SUFFICES ASSUME ExchangeInv, NEW i \in DOMAIN servers,
                       is_xray(servers[i].profile), servers[i].from # "json"
                PROVE  LET p == servers[i].profile
                           o == p.outbound
                           x == to_xray_outbound(p, "t")
                           t == Only(Part(o, "transport"), DOMAIN Part(o, "transport") \ {"type"})
                           s == Only(Part(o, "tls"), DOMAIN Part(o, "tls") \ {"enabled"})
                           lost == IF Has(s, "reality") THEN {"insecure", "alpn"} ELSE {}
                           said == t ++ Only(s, DOMAIN s \ lost)
                                   ++ Only(o, {"server", "server_port", "uuid", "flow"})
                       IN  Only(x, DOMAIN said) = said /\ x["network"] = o["transport"]["type"]
    BY Zenon DEF XrayGetsAll
  <2>1. PICK p : p = servers[i].profile /\ ForXray(p.outbound)
    BY DEF ExchangeInv, Converted
  <2>2. Part(p.outbound, "transport") = p.outbound["transport"]
    BY <2>1 DEF ForXray, Part, Text, Has
  <2>. QED
    BY <2>1, <2>2, OutboundTold, Zenon DEF Beside, Security
<1>. QED
  BY <1>1, ExchangeHeld, PTL

=============================================================================
