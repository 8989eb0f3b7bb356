--------------------------- MODULE LibraryProofs ---------------------------
(***************************************************************************)
(* Proofs about Library for any servers, groups, subscriptions and         *)
(* budgets: LibraryInv is an invariant, and what the interface shows and   *)
(* keeps follows from it.  First come facts about the ids SQLite gives and *)
(* about sequences, then one lemma per conjunct of LibraryInv.             *)
(***************************************************************************)
EXTENDS Library, FiniteSetTheorems, SequenceTheorems, TLAPS

(***************************************************************************)
(* A finite set of numbers has a least and a greatest element, which Min   *)
(* and Max choose.  Among its subsets without one, a smallest could lose   *)
(* an element and would have one, so there is none.                        *)
(***************************************************************************)
LEMMA Extremes ==
  ASSUME NEW S \in SUBSET Nat, IsFiniteSet(S), S # {}
  PROVE  /\ Max(S) \in S /\ \A x \in S : Max(S) >= x
         /\ Min(S) \in S /\ \A x \in S : Min(S) <= x
<1>. DEFINE Good(T) == /\ \E m \in T : \A x \in T : m >= x
                       /\ \E m \in T : \A x \in T : m <= x
            Bad == {T \in SUBSET S : T # {} /\ ~Good(T)}
<1>1. Bad = {}
  <2>. SUFFICES ASSUME Bad # {} PROVE FALSE
    OBVIOUS
  <2>1. FiniteSubsetsOf(S) = SUBSET S
    BY FS_FiniteSubsetsOfFinite
  <2>. DEFINE R == StrictSubsetOrdering(S)
  <2>2. \E T \in Bad : \A U \in Bad : <<U, T>> \notin R
    <3>1. IsWellFoundedOn(R, SUBSET S)
      BY <2>1, FS_StrictSubsetOrderingWellFounded
    <3>2. Bad \subseteq SUBSET S /\ Bad # {}
      OBVIOUS
    <3>. HIDE DEF R, Bad
    <3>. QED
      BY <3>1, <3>2, WFMin
  <2>. PICK T \in Bad : \A U \in Bad : <<U, T>> \notin R
    BY <2>2
  <2>3. PICK x \in T : TRUE
    OBVIOUS
  <2>4. <<T \ {x}, T>> \in StrictSubsetOrdering(S)
    BY <2>3 DEF StrictSubsetOrdering
  <2>5. T \ {x} \notin Bad
    BY <2>4
  <2>6. CASE T \ {x} = {}
    <3>1. T = {x} /\ x \in Nat
      BY <2>6, <2>3
    <3>. QED
      BY <3>1
  <2>7. CASE T \ {x} # {}
    <3>1. Good(T \ {x})
      BY <2>5, <2>7
    <3>2. PICK m \in T \ {x} : \A y \in T \ {x} : m >= y
      BY <3>1
    <3>3. PICK n \in T \ {x} : \A y \in T \ {x} : n <= y
      BY <3>1
    <3>4. m \in Nat /\ n \in Nat /\ x \in Nat /\ \A y \in T : y \in Nat
      BY <2>3
    <3>5. \E k \in T : \A y \in T : k >= y
      <4>1. CASE m >= x
        BY <4>1, <3>2, <3>4
      <4>2. CASE ~(m >= x)
        BY <4>2, <3>2, <3>4, <2>3
      <4>. QED
        BY <4>1, <4>2
    <3>6. \E k \in T : \A y \in T : k <= y
      <4>1. CASE n <= x
        BY <4>1, <3>3, <3>4
      <4>2. CASE ~(n <= x)
        BY <4>2, <3>3, <3>4, <2>3
      <4>. QED
        BY <4>1, <4>2
    <3>. QED
      BY <3>5, <3>6
  <2>. QED
    BY <2>6, <2>7
<1>2. Good(S)
  BY <1>1
<1>. QED
  BY <1>2 DEF Max, Min

(***************************************************************************)
(* The id of a new row is above all that are in use.                       *)
(***************************************************************************)
LEMMA NextIsFresh ==
  ASSUME NEW ids \in SUBSET Ids, IsFiniteSet(ids)
  PROVE  NextId(ids) \in Ids /\ \A x \in ids : x < NextId(ids)
<1>. DEFINE S == ids \cup {0}
<1>1. S \in SUBSET Nat /\ S # {} /\ IsFiniteSet(S)
  BY FS_AddElement DEF Ids
<1>2. Max(S) \in S /\ \A x \in S : Max(S) >= x
  BY <1>1, Extremes
<1>3. Max(S) \in Nat /\ \A x \in ids : x \in Nat /\ Max(S) >= x
  BY <1>1, <1>2 DEF Ids
<1>. QED
  BY <1>3 DEF NextId, Ids

-----------------------------------------------------------------------------
(* Sequences, events and commands *)

(***************************************************************************)
(* What the head, the tail and an appended element are, position by        *)
(* position.                                                               *)
(***************************************************************************)
LEMMA TailFacts ==
  ASSUME NEW S, NEW s \in Seq(S), s # <<>>
  PROVE  /\ Tail(s) \in Seq(S) /\ Head(s) \in S /\ Head(s) = s[1]
         /\ Len(s) \in Nat /\ Len(s) >= 1 /\ Len(Tail(s)) = Len(s) - 1
         /\ DOMAIN s = 1 .. Len(s) /\ DOMAIN Tail(s) = 1 .. Len(s) - 1
         /\ \A i \in 1 .. Len(s) - 1 : Tail(s)[i] = s[i + 1] /\ i + 1 \in 1 .. Len(s)
         /\ Range(Tail(s)) \subseteq Range(s) /\ Head(s) \in Range(s)
<1>1. /\ Tail(s) \in Seq(S) /\ Head(s) \in S /\ Head(s) = s[1]
      /\ Len(s) \in Nat /\ Len(s) >= 1 /\ Len(Tail(s)) = Len(s) - 1
      /\ DOMAIN s = 1 .. Len(s) /\ DOMAIN Tail(s) = 1 .. Len(s) - 1
  BY EmptySeq
<1>2. \A i \in 1 .. Len(s) - 1 : Tail(s)[i] = s[i + 1] /\ i + 1 \in 1 .. Len(s)
  BY <1>1, HeadTailProperties
<1>3. Range(Tail(s)) \subseteq Range(s)
  BY <1>1, <1>2 DEF Range
<1>4. Head(s) \in Range(s)
  <2>1. 1 \in DOMAIN s
    BY <1>1
  <2>. QED
    BY <2>1, <1>1 DEF Range
<1>. QED
  BY <1>1, <1>2, <1>3, <1>4

LEMMA AppendFacts ==
  ASSUME NEW S, NEW s \in Seq(S), NEW x \in S
  PROVE  /\ Append(s, x) \in Seq(S)
         /\ Len(s) \in Nat /\ Len(Append(s, x)) = Len(s) + 1
         /\ DOMAIN s = 1 .. Len(s) /\ DOMAIN Append(s, x) = 1 .. Len(s) + 1
         /\ \A i \in 1 .. Len(s) : Append(s, x)[i] = s[i] /\ i \in 1 .. Len(s) + 1
         /\ Append(s, x)[Len(s) + 1] = x
         /\ Range(Append(s, x)) = Range(s) \cup {x}
<1>1. /\ Append(s, x) \in Seq(S)
      /\ Len(s) \in Nat /\ Len(Append(s, x)) = Len(s) + 1
      /\ DOMAIN s = 1 .. Len(s) /\ DOMAIN Append(s, x) = 1 .. Len(s) + 1
      /\ Append(s, x)[Len(s) + 1] = x
  OBVIOUS
<1>2. \A i \in 1 .. Len(s) : Append(s, x)[i] = s[i] /\ i \in 1 .. Len(s) + 1
  OBVIOUS
<1>3. Range(Append(s, x)) = Range(s) \cup {x}
  <2>1. ASSUME NEW y \in Range(Append(s, x)) PROVE y \in Range(s) \cup {x}
    <3>1. PICK i \in 1 .. Len(s) + 1 : y = Append(s, x)[i]
      BY <1>1 DEF Range
    <3>. QED
      BY <1>1, <1>2, <3>1 DEF Range
  <2>2. ASSUME NEW y \in Range(s) PROVE y \in Range(Append(s, x))
    <3>1. PICK i \in 1 .. Len(s) : y = s[i]
      BY <1>1 DEF Range
    <3>. QED
      BY <1>1, <1>2, <3>1 DEF Range
  <2>3. x \in Range(Append(s, x))
    <3>1. Len(s) + 1 \in 1 .. Len(s) + 1
      BY <1>1
    <3>. QED
      BY <1>1, <3>1 DEF Range
  <2>. QED
    BY <2>1, <2>2, <2>3
<1>. QED
  BY <1>1, <1>2, <1>3

(***************************************************************************)
(* The fields an event has.                                                *)
(***************************************************************************)
LEMMA EventFields ==
  ASSUME NEW ev \in Event
  PROVE  /\ ev.e = "status" => ev.status \in Statuses
         /\ ev.e = "traffic" => ev.from \in SUBSET Servers
         /\ ev.e = "result" => ev.id \in Ids /\ ev.server \in Servers
         /\ ev.e = "subscription" => ev.gid \in Groups /\ ev.list \in Lists
  BY DEF Event

(***************************************************************************)
(* The image of a finite set is finite, and SetToSeq lists a finite set.   *)
(***************************************************************************)
LEMMA FiniteImage ==
  ASSUME NEW S, IsFiniteSet(S), NEW f, DOMAIN f = S, f = [x \in S |-> f[x]]
  PROVE  IsFiniteSet({f[x] : x \in S})
<1>. DEFINE T == {f[x] : x \in S}
<1>1. f \in [S -> T] /\ \A t \in T : \E x \in S : f[x] = t
  OBVIOUS
<1>2. f \in Surjection(S, T)
  BY <1>1 DEF Surjection
<1>. QED
  BY <1>2, FS_Surjection

LEMMA Listing ==
  ASSUME NEW S, IsFiniteSet(S)
  PROVE  SetToSeq(S) \in Seq(S)
<1>1. Cardinality(S) \in Nat /\ ExistsBijection(1 .. Cardinality(S), S)
  BY FS_CardinalityType
<1>2. \E f \in [1 .. Cardinality(S) -> S] : IsInjective(f)
  BY <1>1 DEF ExistsBijection, Bijection, Injection
<1>3. SetToSeq(S) \in [1 .. Cardinality(S) -> S]
  BY <1>2 DEF SetToSeq
<1>. QED
  BY <1>1, <1>3, SeqDef

(***************************************************************************)
(* The rows and servers a command is sent for, as they are now.            *)
(***************************************************************************)
LEMMA Pairing ==
  ASSUME TypeOK, IsFiniteSet(DOMAIN rows), NEW ids \in SUBSET DOMAIN rows
  PROVE  /\ Pairs(ids) \in SUBSET (Ids \X Servers)
         /\ IsFiniteSet(Pairs(ids))
         /\ \A p \in Pairs(ids) : p[1] \in ids /\ Holds(p)
<1>1. ASSUME NEW id \in ids
      PROVE  id \in Ids /\ rows[id].server \in Servers
  BY DEF TypeOK, Row
<1>2. IsFiniteSet(Pairs(ids))
  <2>. DEFINE f == [id \in ids |-> <<id, rows[id].server>>]
  <2>1. IsFiniteSet(ids)
    BY FS_Subset
  <2>2. DOMAIN f = ids /\ f = [x \in ids |-> f[x]]
    OBVIOUS
  <2>3. Pairs(ids) = {f[x] : x \in ids}
    BY DEF Pairs
  <2>. HIDE DEF f
  <2>. QED
    BY <2>1, <2>2, <2>3, FiniteImage
<1>. QED
  BY <1>1, <1>2 DEF Pairs, Holds

(***************************************************************************)
(* Selectable is what a connect command needs: it then names the selected  *)
(* row, or the rows of a group under a negative id.                        *)
(***************************************************************************)
LEMMA ConnectCommand ==
  ASSUME TypeOK, IsFiniteSet(DOMAIN rows), mode' \in Modes, Selectable, connect_selected
  PROVE  \E c \in Command :
           /\ commands' = Append(commands, c) /\ missed' = FALSE
           /\ c.op = "connect" /\ c.mode = mode'
           /\ c.id > 0 => \A p \in c.of : p[1] = c.id
           /\ IsFiniteSet(c.of) /\ \A p \in c.of : Holds(p)
<1>. DEFINE ids == IF selected < 0 THEN InGroup(-selected) ELSE {selected}
            c == [op |-> "connect", id |-> selected, of |-> Pairs(ids), mode |-> mode', n |-> 0]
<1>1. selected \in Int
  BY DEF TypeOK, Targets
<1>2. ids \in SUBSET DOMAIN rows
  BY DEF Selectable, InGroup
<1>3. /\ Pairs(ids) \in SUBSET (Ids \X Servers) /\ IsFiniteSet(Pairs(ids))
      /\ \A p \in Pairs(ids) : p[1] \in ids /\ Holds(p)
  BY <1>2, Pairing
<1>4. c \in Command
  BY <1>1, <1>3 DEF Command, Targets
<1>5. commands' = Append(commands, c) /\ missed' = FALSE
  BY DEF connect_selected, Send
<1>6. selected > 0 => ids = {selected}
  BY <1>1
<1>. QED
  BY <1>3, <1>4, <1>5, <1>6

-----------------------------------------------------------------------------
(* What kinds of steps there are *)

(***************************************************************************)
(* A step of the interface sends nothing, and then a change of the mode is *)
(* missed, or sends one command, with the mode it leaves, of rows that     *)
(* have the servers it names.                                              *)
(***************************************************************************)
SendsNothing ==
    /\ UNCHANGED <<commands, testing, groups>>
    /\ UNCHANGED <<mode, missed>> \/ (mode' \in Modes /\ missed')
    /\ UNCHANGED <<rows, overtaken>> \/ (\E s \in Servers : AddLink(s)) \/ DeleteSelected

Sends(c) ==
    /\ commands' = Append(commands, c)
    /\ UNCHANGED <<rows, overtaken>>
    /\ mode' \in Modes
    /\ c.op = "connect" => missed' = FALSE /\ c.mode = mode'
    /\ c.op # "connect" => UNCHANGED <<mode, missed>>
    /\ IF c.op = "test" THEN ~testing /\ testing' ELSE testing' = testing
    /\ groups \subseteq groups' /\ groups' \subseteq Groups
    /\ c.op = "fetch" => -c.id \in groups'
    /\ c.op = "connect" /\ c.id > 0 => \A p \in c.of : p[1] = c.id
    /\ IsFiniteSet(c.of)
    /\ \A p \in c.of : Holds(p)

LEMMA UiSteps ==
  ASSUME TypeOK, IsFiniteSet(DOMAIN rows), Interface
  PROVE  /\ UNCHANGED <<status, engineVars, events, twice>>
         /\ current' \in groups' /\ selected' \in Int /\ left' \in [Spent -> Nat]
         /\ SendsNothing \/ \E c \in Command : Sends(c)
<1>0. IsFiniteSet({})
  BY FS_EmptySet
<1>1. /\ selected \in Int /\ current \in groups /\ groups \subseteq Groups
      /\ mode \in Modes /\ left \in [Spent -> Nat]
      /\ groups \subseteq Int /\ current >= 1
  <2>1. MaxGroups \in Nat
    BY LibraryAssumption, Zenon
  <2>2. /\ selected \in Int /\ current \in groups /\ groups \subseteq Groups
        /\ mode \in Modes /\ left \in [Spent -> Nat]
    BY DEF TypeOK, Targets
  <2>. QED
    BY <2>1, <2>2 DEF Groups
<1>2. ASSUME NEW k \in Spent, Spend(k)
      PROVE  left' \in [Spent -> Nat]
  BY <1>1, <1>2 DEF Spend, Spent
<1>3. Listed \subseteq Int /\ \A id \in Listed : id < 0 \/ id \in DOMAIN rows
  BY <1>1 DEF Listed, InGroup, TypeOK, Ids
<1>4. "connect" \in Spent /\ "test" \in Spent /\ "fetch" \in Spent /\ "add" \in Spent
      /\ "delete" \in Spent /\ "switch" \in Spent
  BY DEF Spent
<1>5. ASSUME NEW id \in Listed, SelectRow(id)
      PROVE  SendsNothing /\ UNCHANGED <<status, engineVars, events, twice>>
             /\ current' \in groups' /\ selected' \in Int /\ left' \in [Spent -> Nat]
  <2>1. SendsNothing
    BY <1>5, Zenon DEF SelectRow, SendsNothing, ghosts
  <2>. QED
    BY <1>1, <1>3, <1>5, <2>1 DEF SelectRow, ghosts
<1>6. ASSUME NEW g \in Groups, SwitchGroup(g)
      PROVE  SendsNothing /\ UNCHANGED <<status, engineVars, events, twice>>
             /\ current' \in groups' /\ selected' \in Int /\ left' \in [Spent -> Nat]
  <2>1. SendsNothing
    BY <1>6, Zenon DEF SwitchGroup, SendsNothing, ghosts
  <2>. QED
    BY <1>1, <1>6, <2>1 DEF SwitchGroup, ghosts
<1>7. ASSUME NEW s \in Servers, AddLink(s)
      PROVE  SendsNothing /\ UNCHANGED <<status, engineVars, events, twice>>
             /\ current' \in groups' /\ selected' \in Int /\ left' \in [Spent -> Nat]
  <2>1. left' \in [Spent -> Nat]
    BY <1>2, <1>4, <1>7 DEF AddLink
  <2>2. SendsNothing
    <3>1. UNCHANGED <<commands, testing, groups, mode, missed>>
      BY <1>7, Zenon DEF AddLink, ghosts, uiVars
    <3>. QED
      BY <1>7, <3>1, Zenon DEF SendsNothing
  <2>. QED
    BY <1>1, <1>7, <2>1, <2>2 DEF AddLink, ghosts, uiVars
<1>8. ASSUME DeleteSelected
      PROVE  SendsNothing /\ UNCHANGED <<status, engineVars, events, twice>>
             /\ current' \in groups' /\ selected' \in Int /\ left' \in [Spent -> Nat]
  <2>1. left' \in [Spent -> Nat]
    BY <1>2, <1>4, <1>8 DEF DeleteSelected
  <2>2. SendsNothing
    <3>1. UNCHANGED <<commands, testing, groups, mode, missed>>
      BY <1>8, Zenon DEF DeleteSelected
    <3>. QED
      BY <1>8, <3>1, Zenon DEF SendsNothing
  <2>. QED
    BY <1>1, <1>8, <2>1, <2>2 DEF DeleteSelected
<1>9. ASSUME AddSubscription
      PROVE  (\E c \in Command : Sends(c)) /\ UNCHANGED <<status, engineVars, events, twice>>
             /\ current' \in groups' /\ selected' \in Int /\ left' \in [Spent -> Nat]
  <2>. DEFINE g == NextId(groups)
              c == [op |-> "fetch", id |-> -g, of |-> {}, mode |-> mode', n |-> 0]
  <2>1. left' \in [Spent -> Nat]
    BY <1>2, <1>4, <1>9 DEF AddSubscription
  <2>2. g \in Groups /\ -g \in Int /\ -(-g) = g
    BY <1>9 DEF AddSubscription, Groups
  <2>3. commands' = Append(commands, c) /\ mode' = mode
    BY <1>9 DEF AddSubscription, Send
  <2>4. c \in Command
    BY <2>2, <2>3, <1>1 DEF Command, Targets
  <2>5. groups' = groups \cup {g} /\ groups' \subseteq Groups /\ -c.id \in groups'
    BY <1>1, <1>9, <2>2 DEF AddSubscription
  <2>6. Sends(c)
    BY <1>0, <1>1, <1>9, <2>2, <2>3, <2>5 DEF AddSubscription, Sends, ghosts
  <2>. QED
    BY <1>1, <1>9, <2>1, <2>4, <2>5, <2>6 DEF AddSubscription, ghosts
<1>10. ASSUME UpdateSubscription
       PROVE  (\E c \in Command : Sends(c)) /\ UNCHANGED <<status, engineVars, events, twice>>
              /\ current' \in groups' /\ selected' \in Int /\ left' \in [Spent -> Nat]
  <2>. DEFINE c == [op |-> "fetch", id |-> -current, of |-> {}, mode |-> mode', n |-> 0]
  <2>1. left' \in [Spent -> Nat]
    BY <1>2, <1>4, <1>10 DEF UpdateSubscription
  <2>2. -current \in Int /\ -(-current) = current
    BY <1>1
  <2>3. commands' = Append(commands, c) /\ mode' = mode
    BY <1>10 DEF UpdateSubscription, Send
  <2>4. c \in Command
    BY <2>2, <2>3, <1>1 DEF Command, Targets
  <2>5. Sends(c)
    BY <1>0, <1>1, <1>10, <2>2, <2>3 DEF UpdateSubscription, Sends, ghosts
  <2>. QED
    BY <1>1, <1>10, <2>1, <2>4, <2>5 DEF UpdateSubscription, ghosts
<1>11. ASSUME StartTest
       PROVE  (\E c \in Command : Sends(c)) /\ UNCHANGED <<status, engineVars, events, twice>>
              /\ current' \in groups' /\ selected' \in Int /\ left' \in [Spent -> Nat]
  <2>. DEFINE c == [op |-> "test", id |-> 0, of |-> Pairs(InGroup(current)), mode |-> mode',
                    n |-> left["test"]]
  <2>1. left' \in [Spent -> Nat] /\ left["test"] \in Nat
    BY <1>1, <1>2, <1>4, <1>11 DEF StartTest
  <2>2. InGroup(current) \in SUBSET DOMAIN rows
    BY DEF InGroup
  <2>3. commands' = Append(commands, c) /\ mode' = mode
    BY <1>11 DEF StartTest, Send
  <2>4. c \in Command /\ IsFiniteSet(c.of) /\ \A p \in c.of : Holds(p)
    BY <2>1, <2>2, <2>3, <1>1, Pairing DEF Command, Targets
  <2>5. Sends(c)
    BY <1>1, <1>11, <2>3, <2>4 DEF StartTest, Sends, ghosts
  <2>. QED
    BY <1>1, <1>11, <2>1, <2>4, <2>5 DEF StartTest, ghosts
<1>12. ASSUME StartSpeedTest
       PROVE  (\E c \in Command : Sends(c)) /\ UNCHANGED <<status, engineVars, events, twice>>
              /\ current' \in groups' /\ selected' \in Int /\ left' \in [Spent -> Nat]
  <2>. DEFINE c == [op |-> "speed", id |-> selected, of |-> Pairs({selected}), mode |-> mode',
                    n |-> left["test"]]
  <2>1. left' \in [Spent -> Nat] /\ left["test"] \in Nat
    BY <1>1, <1>2, <1>4, <1>12 DEF StartSpeedTest
  <2>2. {selected} \in SUBSET DOMAIN rows
    BY <1>12 DEF StartSpeedTest
  <2>3. commands' = Append(commands, c) /\ mode' = mode
    BY <1>12 DEF StartSpeedTest, Send
  <2>4. c \in Command /\ IsFiniteSet(c.of) /\ \A p \in c.of : Holds(p)
    BY <2>1, <2>2, <2>3, <1>1, Pairing DEF Command, Targets
  <2>5. Sends(c)
    BY <1>1, <1>12, <2>3, <2>4 DEF StartSpeedTest, Sends, ghosts
  <2>. QED
    BY <1>1, <1>12, <2>1, <2>4, <2>5 DEF StartSpeedTest, ghosts
<1>13. ASSUME ConnectButton
       PROVE  (\E c \in Command : Sends(c)) /\ UNCHANGED <<status, engineVars, events, twice>>
              /\ current' \in groups' /\ selected' \in Int /\ left' \in [Spent -> Nat]
  <2>1. left' \in [Spent -> Nat] /\ mode' = mode
    BY <1>2, <1>4, <1>13 DEF ConnectButton
  <2>2. UNCHANGED <<rows, groups, current, selected, status, testing, engineVars, events,
                    overtaken, twice>>
    BY <1>13 DEF ConnectButton
  <2>3. CASE status.k = "connected"
    <3>. DEFINE c == [op |-> "disconnect", id |-> 0, of |-> {}, mode |-> mode', n |-> 0]
    <3>1. commands' = Append(commands, c) /\ missed' = missed
      BY <1>13, <2>3 DEF ConnectButton, Send
    <3>2. c \in Command
      BY <2>1, <1>1 DEF Command, Targets
    <3>3. Sends(c)
      BY <1>0, <1>1, <2>1, <2>2, <3>1 DEF Sends
    <3>. QED
      BY <1>1, <2>1, <2>2, <3>2, <3>3
  <2>4. CASE status.k # "connected"
    <3>1. Selectable /\ connect_selected
      BY <1>13, <2>4 DEF ConnectButton
    <3>2. PICK c \in Command :
             /\ commands' = Append(commands, c) /\ missed' = FALSE
             /\ c.op = "connect" /\ c.mode = mode'
             /\ c.id > 0 => \A p \in c.of : p[1] = c.id
             /\ IsFiniteSet(c.of) /\ \A p \in c.of : Holds(p)
      BY <1>1, <2>1, <3>1, ConnectCommand
    <3>3. Sends(c)
      BY <1>1, <2>1, <2>2, <3>2 DEF Sends
    <3>. QED
      BY <1>1, <2>1, <2>2, <3>3
  <2>. QED
    BY <2>3, <2>4
<1>14. ASSUME ActivateRow
       PROVE  (\E c \in Command : Sends(c)) /\ UNCHANGED <<status, engineVars, events, twice>>
              /\ current' \in groups' /\ selected' \in Int /\ left' \in [Spent -> Nat]
  <2>1. left' \in [Spent -> Nat] /\ mode' = mode
    BY <1>2, <1>4, <1>14 DEF ActivateRow
  <2>2. UNCHANGED <<rows, groups, current, selected, status, testing, engineVars, events,
                    overtaken, twice>>
    BY <1>14 DEF ActivateRow
  <2>3. Selectable /\ connect_selected
    BY <1>3, <1>14 DEF ActivateRow, Selectable
  <2>4. PICK c \in Command :
           /\ commands' = Append(commands, c) /\ missed' = FALSE
           /\ c.op = "connect" /\ c.mode = mode'
           /\ c.id > 0 => \A p \in c.of : p[1] = c.id
           /\ IsFiniteSet(c.of) /\ \A p \in c.of : Holds(p)
    BY <1>1, <2>1, <2>3, ConnectCommand
  <2>5. Sends(c)
    BY <1>1, <2>1, <2>2, <2>4 DEF Sends
  <2>. QED
    BY <1>1, <2>1, <2>2, <2>5
<1>15. ASSUME NEW m \in Modes, SwitchMode(m)
       PROVE  (SendsNothing \/ \E c \in Command : Sends(c))
              /\ UNCHANGED <<status, engineVars, events, twice>>
              /\ current' \in groups' /\ selected' \in Int /\ left' \in [Spent -> Nat]
  <2>1. left' \in [Spent -> Nat] /\ mode' = m
    BY <1>2, <1>4, <1>15 DEF SwitchMode
  <2>2. UNCHANGED <<rows, groups, current, selected, status, testing, engineVars, events,
                    overtaken, twice>>
    BY <1>15 DEF SwitchMode
  <2>3. CASE status.k = "connected" /\ Selectable
    <3>1. connect_selected
      BY <1>15, <2>3 DEF SwitchMode
    <3>2. PICK c \in Command :
             /\ commands' = Append(commands, c) /\ missed' = FALSE
             /\ c.op = "connect" /\ c.mode = mode'
             /\ c.id > 0 => \A p \in c.of : p[1] = c.id
             /\ IsFiniteSet(c.of) /\ \A p \in c.of : Holds(p)
      BY <2>1, <2>3, <3>1, ConnectCommand
    <3>3. Sends(c)
      BY <1>1, <2>1, <2>2, <3>2 DEF Sends
    <3>. QED
      BY <1>1, <2>1, <2>2, <3>3
  <2>4. CASE ~(status.k = "connected" /\ Selectable)
    <3>1. missed' /\ commands' = commands
      BY <1>15, <2>4 DEF SwitchMode
    <3>2. SendsNothing
      BY <2>1, <2>2, <3>1 DEF SendsNothing
    <3>. QED
      BY <1>1, <2>1, <2>2, <3>2
  <2>. QED
    BY <2>3, <2>4
<1>. QED
  BY <1>5, <1>6, <1>7, <1>8, <1>9, <1>10, <1>11, <1>12, <1>13, <1>14, <1>15 DEF Interface

(***************************************************************************)
(* What the engine appends to its events: the stage it comes to, or        *)
(* something that leaves the stage alone.  A result is of a pair some test *)
(* was started for, traffic of the servers of the connection.              *)
(***************************************************************************)
Tells(new) ==
    /\ events' = events \o new
    /\ \/ Stage' = Stage /\ \A i \in DOMAIN new : new[i].e # "status"
       \/ new = <<[e |-> "status", status |-> Stage']>>
    /\ \A ev \in Range(new) :
        /\ ev.e = "result" =>
              \E t \in tasks : t.op # "connect" /\ <<ev.id, ev.server>> \in t.of
        /\ ev.e = "subscription" => ev.gid \in groups
        /\ ev.e = "traffic" => /\ serving = None /\ running # None
                               /\ ev.from = {p[2] : p \in running.of}
                               /\ new = <<ev>> /\ Stage' = Stage

\* What the engine takes from the commands, it takes from their front.
Takes ==
    /\ \/ UNCHANGED commands /\ serving' \in {None, serving}
       \/ /\ commands # <<>> /\ commands' = Tail(commands)
          /\ serving' = IF Head(commands).op = "connect" THEN Head(commands) ELSE serving
    /\ running' \in {None, serving, running}
    /\ serving' # None => running' = None

LEMMA NoNews ==
  ASSUME TypeOK, UNCHANGED events, Stage' = Stage
  PROVE  <<>> \in Seq(Event) /\ Tells(<<>>)
<1>1. events \in Seq(Event)
  BY DEF TypeOK
<1>2. events = events \o <<>>
  BY <1>1, ConcatEmptySeq
<1>. QED
  BY <1>2 DEF Tells, Range

LEMMA OneNews ==
  ASSUME TypeOK, NEW ev \in Event, Emit(ev),
         \/ Stage' = Stage /\ ev.e # "status"
         \/ ev = [e |-> "status", status |-> Stage'],
         ev.e = "result" =>
              \E t \in tasks : t.op # "connect" /\ <<ev.id, ev.server>> \in t.of,
         ev.e = "subscription" => ev.gid \in groups,
         ev.e = "traffic" => /\ serving = None /\ running # None
                             /\ ev.from = {p[2] : p \in running.of} /\ Stage' = Stage
  PROVE  <<ev>> \in Seq(Event) /\ Tells(<<ev>>)
<1>1. events \in Seq(Event)
  BY DEF TypeOK
<1>2. events' = events \o <<ev>>
  BY <1>1 DEF Emit
<1>3. Range(<<ev>>) = {ev} /\ \A i \in DOMAIN <<ev>> : <<ev>>[i] = ev
  BY DEF Range
<1>. HIDE DEF Event
<1>. QED
  BY <1>2, <1>3 DEF Tells

(***************************************************************************)
(* The kinds of commands and of records they are made of.                  *)
(***************************************************************************)
LEMMA CommandFields ==
  ASSUME NEW c \in Command
  PROVE  /\ c # None
         /\ c.op \in {"connect", "disconnect", "test", "speed", "fetch"}
         /\ c.id \in Int /\ c.of \in SUBSET (Ids \X Servers) /\ c.mode \in Modes
<1>1. c # None
  BY LibraryAssumption, Zenon
<1>. QED
  BY <1>1 DEF Command, Targets

(***************************************************************************)
(* What a latency test reports: results of its rows, then its end, which   *)
(* is in between only if it is reported twice.                             *)
(***************************************************************************)
TestReport(t, ev) == ev.e = "result" /\ <<ev.id, ev.server>> \in t.of

LEMMA EndedBy ==
  ASSUME NEW a \in Seq(Event), NEW fin \in Event
  PROVE  /\ a \o <<fin>> \in Seq(Event) /\ Len(a) \in Nat
         /\ DOMAIN (a \o <<fin>>) = 1 .. Len(a) + 1
         /\ \A i \in 1 .. Len(a) : (a \o <<fin>>)[i] = a[i] /\ i \in DOMAIN (a \o <<fin>>)
         /\ (a \o <<fin>>)[Len(a) + 1] = fin
         /\ \A i \in DOMAIN (a \o <<fin>>) : i \in 1 .. Len(a) \/ i = Len(a) + 1
<1>1. <<fin>> \in Seq(Event) /\ Len(<<fin>>) = 1 /\ <<fin>>[1] = fin
  OBVIOUS
<1>2. /\ a \o <<fin>> \in Seq(Event) /\ Len(a) \in Nat /\ Len(a \o <<fin>>) = Len(a) + 1
      /\ \A i \in 1 .. Len(a) + 1 :
            (a \o <<fin>>)[i] = IF i <= Len(a) THEN a[i] ELSE <<fin>>[i - Len(a)]
  BY <1>1, ConcatProperties, LenProperties
<1>3. DOMAIN (a \o <<fin>>) = 1 .. Len(a) + 1
  BY <1>2, LenProperties
<1>4. \A i \in 1 .. Len(a) : (a \o <<fin>>)[i] = a[i] /\ i \in 1 .. Len(a) + 1
  BY <1>2
<1>5. (a \o <<fin>>)[Len(a) + 1] = fin
  BY <1>1, <1>2
<1>. QED
  BY <1>2, <1>3, <1>4, <1>5

LEMMA TestReports ==
  ASSUME TypeOK, CommandInv, NEW t \in tasks, TestAnswers(t)
  PROVE  \E a \in Seq(Event) :
           /\ events' = events \o (a \o <<[e |-> "finished"]>>)
           /\ \A i \in 1 .. Len(a) : TestReport(t, a[i]) \/ (a[i] = [e |-> "finished"] /\ twice')
<1>. DEFINE R == {[e |-> "result", id |-> p[1], server |-> p[2]] : p \in t.of}
            fin == [e |-> "finished"]
<1>1. \/ events' = events \o SetToSeq(R) \o <<fin>>
      \/ events' = events \o <<fin>>
      \/ events' = events \o <<fin>> \o <<fin>> /\ twice'
  BY DEF TestAnswers
<1>2. t \in Command /\ t.of \in SUBSET (Ids \X Servers) /\ IsFiniteSet(t.of)
  BY CommandFields DEF TypeOK, CommandInv, InPlay
<1>3. \A r \in R : r \in Event /\ TestReport(t, r)
  <2>1. ASSUME NEW p \in t.of
        PROVE  p[1] \in Ids /\ p[2] \in Servers /\ <<p[1], p[2]>> = p
    BY <1>2
  <2>. QED
    BY <2>1 DEF Event, TestReport
<1>4. IsFiniteSet(R)
  <2>. DEFINE f == [p \in t.of |-> [e |-> "result", id |-> p[1], server |-> p[2]]]
  <2>1. DOMAIN f = t.of /\ f = [p \in t.of |-> f[p]] /\ R = {f[p] : p \in t.of}
    OBVIOUS
  <2>. HIDE DEF f, R
  <2>. QED
    BY <1>2, <2>1, FiniteImage
<1>5. events \in Seq(Event) /\ fin \in Event
  BY DEF TypeOK, Event
<1>. HIDE DEF R, fin
<1>6. <<fin>> \in Seq(Event) /\ Len(<<fin>>) = 1 /\ <<fin>>[1] = fin
  BY <1>5
<1>7. SetToSeq(R) \in Seq(R)
  BY <1>4, Listing
<1>8. SetToSeq(R) \in Seq(Event) /\ \A i \in 1 .. Len(SetToSeq(R)) : TestReport(t, SetToSeq(R)[i])
  BY <1>3, <1>7, SeqMonotonic, ElementOfSeq
<1>9. \A a \in Seq(Event) : events \o a \o <<fin>> = events \o (a \o <<fin>>)
  BY <1>5, <1>6, ConcatAssociative
<1>10. CASE events' = events \o SetToSeq(R) \o <<fin>>
  BY <1>8, <1>9, <1>10 DEF fin
<1>11. CASE events' = events \o <<fin>>
  <2>1. <<>> \o <<fin>> = <<fin>> /\ <<>> \in Seq(Event) /\ Len(<<>>) = 0
    BY <1>6, ConcatEmptySeq, EmptySeq
  <2>2. \A i \in 1 .. Len(<<>>) : <<>>[i] = fin /\ twice'
    BY <2>1
  <2>3. events' = events \o (<<>> \o <<fin>>)
    BY <1>11, <2>1
  <2>. QED
    BY <2>1, <2>2, <2>3 DEF fin
<1>12. CASE events' = events \o <<fin>> \o <<fin>> /\ twice'
  <2>1. \A i \in 1 .. Len(<<fin>>) : <<fin>>[i] = fin
    BY <1>6
  <2>2. events' = events \o (<<fin>> \o <<fin>>)
    BY <1>6, <1>9, <1>12
  <2>. QED
    BY <1>6, <1>12, <2>1, <2>2 DEF fin
<1>. QED
  BY <1>1, <1>10, <1>11, <1>12

LEMMA EngineSteps ==
  ASSUME TypeOK, CommandInv, serving # None => running = None, Engine
  PROVE  /\ UNCHANGED <<rows, groups, uiVars, overtaken, missed>>
         /\ left' \in [Spent -> Nat]
         /\ Takes
         /\ \E new \in Seq(Event) : Tells(new)
<1>. DEFINE Same == /\ UNCHANGED <<rows, groups, uiVars, overtaken, missed>>
                    /\ left' \in [Spent -> Nat]
            News == \E new \in Seq(Event) : Tells(new)
<1>1. /\ left \in [Spent -> Nat] /\ serving \in Command \cup {None}
      /\ running \in Command \cup {None} /\ tasks \subseteq Command
      /\ commands \in Seq(Command) /\ groups \subseteq Groups
  BY DEF TypeOK
<1>2. /\ \A c \in Command : c # None /\ c.id \in Int /\ c.of \in SUBSET (Ids \X Servers)
      /\ \A c \in tasks : c.op # "connect" /\ (c.op = "fetch" => -c.id \in groups)
  BY <1>1, CommandFields DEF CommandInv, InPlay
<1>3. ASSUME NEW ops, Take(ops)
      PROVE  /\ commands # <<>> /\ commands' = Tail(commands) /\ serving = None
             /\ Head(commands) \in Command /\ Head(commands).op \in ops
  <2>1. commands # <<>> /\ commands' = Tail(commands) /\ serving = None
    BY <1>3 DEF Take
  <2>2. Head(commands) \in Command
    BY <1>1, <2>1, TailFacts
  <2>. QED
    BY <1>3, <2>1, <2>2 DEF Take
<1>4. Off \in Statuses /\ [k |-> "connecting", id |-> 0] \in Statuses
      /\ \A i \in Int : [k |-> "connected", id |-> i] \in Statuses
  BY DEF Off, Statuses, Targets
<1>5. /\ \A st \in Statuses : [e |-> "status", status |-> st] \in Event
      /\ \A S \in SUBSET Servers : [e |-> "traffic", from |-> S] \in Event
      /\ \A id \in Ids, s \in Servers : [e |-> "result", id |-> id, server |-> s] \in Event
      /\ [e |-> "finished"] \in Event
      /\ \A g \in Groups, l \in Lists : [e |-> "subscription", gid |-> g, list |-> l] \in Event
  BY DEF Event
<1>6. ASSUME NEW st \in Statuses, Emit([e |-> "status", status |-> st]), Stage' = st
      PROVE  News
  <2>. DEFINE ev == [e |-> "status", status |-> st]
  <2>1. ev \in Event /\ ev.e = "status" /\ Emit(ev) /\ ev = [e |-> "status", status |-> Stage']
    BY <1>5, <1>6
  <2>. HIDE DEF ev
  <2>2. <<ev>> \in Seq(Event) /\ Tells(<<ev>>)
    BY <2>1, OneNews
  <2>. QED
    BY <2>2
<1>7. ASSUME UNCHANGED <<events, serving, running>> PROVE News
  BY <1>7, NoNews DEF Stage
<1>8. CASE TakeConnect
  <2>1. Take({"connect"}) /\ serving' = Head(commands) /\ running' = None
    BY <1>8 DEF TakeConnect
  <2>2. Takes
    BY <1>3, <2>1 DEF Takes
  <2>3. Stage' = [k |-> "connecting", id |-> 0]
    BY <1>2, <1>3, <2>1 DEF Stage
  <2>4. News
    BY <1>4, <1>6, <1>8, <2>3 DEF TakeConnect
  <2>. QED
    BY <1>1, <1>8, <2>2, <2>4 DEF TakeConnect, ghosts
<1>9. CASE Connected
  <2>1. /\ serving # None /\ running' = serving /\ serving' = None
        /\ Emit([e |-> "status", status |-> [k |-> "connected", id |-> serving.id]])
    BY <1>9 DEF Connected
  <2>2. Takes
    BY <1>9 DEF Connected, Takes
  <2>3. Stage' = [k |-> "connected", id |-> serving.id]
    BY <2>1 DEF Stage
  <2>4. News
    BY <1>1, <1>2, <1>4, <1>6, <2>1, <2>3
  <2>. QED
    BY <1>1, <1>9, <2>2, <2>4 DEF Connected, ghosts
<1>10. CASE ConnectFails
  <2>1. serving # None /\ serving' = None /\ Emit([e |-> "status", status |-> Off])
        /\ running' = running
    BY <1>10 DEF ConnectFails
  <2>2. Takes
    BY <1>10 DEF ConnectFails, Takes
  <2>3. Stage' = Off
    BY <2>1 DEF Stage
  <2>4. News
    BY <1>4, <1>6, <2>1, <2>3
  <2>. QED
    BY <1>1, <1>10, <2>2, <2>4 DEF ConnectFails, ghosts
<1>11. CASE TakeDisconnect
  <2>1. Take({"disconnect"}) /\ running' = None /\ serving' = serving
        /\ Emit([e |-> "status", status |-> Off])
    BY <1>11 DEF TakeDisconnect
  <2>2. Takes
    BY <1>3, <2>1 DEF Takes
  <2>3. Stage' = Off
    BY <1>3, <2>1 DEF Stage
  <2>4. News
    BY <1>4, <1>6, <2>1, <2>3
  <2>. QED
    BY <1>1, <1>11, <2>2, <2>4 DEF TakeDisconnect, ghosts
<1>12. CASE TakeTask
  <2>1. Take({"test", "speed", "fetch"}) /\ UNCHANGED <<serving, running, events>>
    BY <1>12 DEF TakeTask
  <2>2. Takes
    BY <1>3, <2>1 DEF Takes
  <2>3. News
    BY <1>7, <2>1
  <2>. QED
    BY <1>1, <1>12, <2>2, <2>3 DEF TakeTask, ghosts
<1>13. CASE PollTraffic
  <2>. DEFINE ev == [e |-> "traffic", from |-> {p[2] : p \in running.of}]
  <2>1. /\ serving = None /\ running # None /\ Emit(ev)
        /\ UNCHANGED <<rows, groups, uiVars, commands, engineVars, ghosts>>
    BY <1>13 DEF PollTraffic
  <2>2. left' \in [Spent -> Nat]
    BY <1>1, <1>13 DEF PollTraffic, Spend, Spent
  <2>3. running.of \in SUBSET (Ids \X Servers)
    BY <1>1, <1>2, <2>1
  <2>4. {p[2] : p \in running.of} \in SUBSET Servers
    BY <2>3
  <2>5. ev \in Event /\ ev.e = "traffic" /\ ev.from = {p[2] : p \in running.of}
    BY <1>5, <2>4
  <2>6. Stage' = Stage
    BY <2>1 DEF Stage, engineVars
  <2>. HIDE DEF ev
  <2>7. <<ev>> \in Seq(Event) /\ Tells(<<ev>>)
    BY <2>1, <2>5, <2>6, OneNews
  <2>8. Takes
    BY <2>1 DEF Takes, engineVars
  <2>. QED
    BY <2>1, <2>2, <2>7, <2>8 DEF ghosts
<1>14. CASE PollExited
  <2>1. serving = None /\ running' = None /\ Emit([e |-> "status", status |-> Off])
        /\ UNCHANGED <<commands, serving>>
    BY <1>14 DEF PollExited
  <2>2. Takes
    BY <2>1 DEF Takes
  <2>3. Stage' = Off
    BY <2>1 DEF Stage
  <2>4. News
    BY <1>4, <1>6, <2>1, <2>3
  <2>. QED
    BY <1>1, <1>14, <2>2, <2>4 DEF PollExited, ghosts
<1>15. ASSUME NEW t \in tasks, TestAnswers(t)
       PROVE  Same /\ Takes /\ News
  <2>. DEFINE fin == [e |-> "finished"]
  <2>1. UNCHANGED <<rows, groups, uiVars, commands, serving, running, left, overtaken, missed>>
    BY <1>15 DEF TestAnswers
  <2>2. Same /\ Takes /\ Stage' = Stage
    BY <1>1, <2>1 DEF Takes, Stage
  <2>3. PICK a \in Seq(Event) :
           /\ events' = events \o (a \o <<fin>>)
           /\ \A i \in 1 .. Len(a) : TestReport(t, a[i]) \/ (a[i] = fin /\ twice')
    BY <1>15, TestReports
  <2>4. fin \in Event /\ fin.e = "finished"
    BY <1>5
  <2>. HIDE DEF fin
  <2>5. /\ a \o <<fin>> \in Seq(Event)
        /\ \A i \in DOMAIN (a \o <<fin>>) : TestReport(t, (a \o <<fin>>)[i]) \/ (a \o <<fin>>)[i] = fin
    BY <2>3, <2>4, EndedBy
  <2>. DEFINE new == a \o <<fin>>
  <2>. HIDE DEF new
  <2>6. \A ev \in Range(new) : TestReport(t, ev) \/ ev = fin
    BY <2>5 DEF Range, new
  <2>7. \A i \in DOMAIN new : new[i].e # "status"
    BY <2>4, <2>5 DEF TestReport, new
  <2>8. \A ev \in Range(new) :
           /\ ev.e = "result" => t.op # "connect" /\ <<ev.id, ev.server>> \in t.of
           /\ ev.e # "subscription" /\ ev.e # "traffic"
    BY <1>15, <2>4, <2>6 DEF TestReport, TestAnswers
  <2>9. Tells(new)
    BY <2>2, <2>3, <2>7, <2>8 DEF Tells, new
  <2>. QED
    BY <2>2, <2>5, <2>9 DEF new
<1>16. ASSUME NEW t \in tasks, SpeedAnswers(t)
       PROVE  Same /\ Takes /\ News
  <2>1. UNCHANGED <<rows, groups, uiVars, commands, serving, running, left, ghosts>>
    BY <1>16 DEF SpeedAnswers
  <2>2. Same /\ Takes /\ Stage' = Stage
    BY <1>1, <2>1 DEF Takes, Stage, ghosts
  <2>3. CASE UNCHANGED events
    BY <1>7, <2>1, <2>2, <2>3
  <2>4. ASSUME NEW p \in t.of, Emit([e |-> "result", id |-> p[1], server |-> p[2]])
        PROVE  News
    <3>. DEFINE ev == [e |-> "result", id |-> p[1], server |-> p[2]]
    <3>1. t \in Command /\ t.of \in SUBSET (Ids \X Servers) /\ t.op # "connect"
      BY <1>1, <1>2
    <3>2. p[1] \in Ids /\ p[2] \in Servers /\ <<p[1], p[2]>> = p
      BY <3>1
    <3>3. ev \in Event /\ ev.e = "result" /\ <<ev.id, ev.server>> \in t.of /\ Emit(ev)
      BY <1>5, <2>4, <3>2
    <3>. HIDE DEF ev
    <3>4. <<ev>> \in Seq(Event) /\ Tells(<<ev>>)
      BY <2>2, <3>1, <3>3, OneNews
    <3>. QED
      BY <3>4
  <2>. QED
    BY <1>16, <2>2, <2>3, <2>4 DEF SpeedAnswers
<1>17. ASSUME NEW t \in tasks, FetchAnswers(t)
       PROVE  Same /\ Takes /\ News
  <2>1. UNCHANGED <<rows, groups, uiVars, commands, serving, running, left, ghosts>>
    BY <1>17 DEF FetchAnswers
  <2>2. Same /\ Takes /\ Stage' = Stage
    BY <1>1, <2>1 DEF Takes, Stage, ghosts
  <2>3. CASE UNCHANGED events
    BY <1>7, <2>1, <2>2, <2>3
  <2>4. ASSUME NEW list \in Lists,
               Emit([e |-> "subscription", gid |-> -t.id, list |-> list])
        PROVE  News
    <3>. DEFINE ev == [e |-> "subscription", gid |-> -t.id, list |-> list]
    <3>1. -t.id \in groups /\ -t.id \in Groups
      BY <1>1, <1>2, <1>17 DEF FetchAnswers
    <3>2. ev \in Event /\ ev.e = "subscription" /\ ev.gid \in groups /\ Emit(ev)
      BY <1>5, <2>4, <3>1
    <3>. HIDE DEF ev
    <3>3. <<ev>> \in Seq(Event) /\ Tells(<<ev>>)
      BY <2>2, <3>2, OneNews
    <3>. QED
      BY <3>3
  <2>. QED
    BY <1>17, <2>2, <2>3, <2>4 DEF FetchAnswers
<1>. QED
  BY <1>8, <1>9, <1>10, <1>11, <1>12, <1>13, <1>14, <1>15, <1>16, <1>17 DEF Engine

(***************************************************************************)
(* apply_event takes one event from the front.                             *)
(***************************************************************************)
LEMMA ApplySteps ==
  ASSUME Apply
  PROVE  /\ UNCHANGED <<groups, current, selected, mode, commands, engineVars, left, missed,
                        twice>>
         /\ events # <<>> /\ events' = Tail(events)
         /\ status' = IF Head(events).e = "status" THEN Head(events).status ELSE status
         /\ IF Head(events).e = "finished" THEN testing' = FALSE ELSE UNCHANGED testing
<1>1. CASE ApplyStatus
  BY <1>1 DEF ApplyStatus, Received, ghosts
<1>2. CASE ApplyTraffic
  BY <1>2 DEF ApplyTraffic, Received, ghosts, uiVars
<1>3. CASE ApplyResult
  BY <1>3 DEF ApplyResult, Received, ghosts, uiVars
<1>4. CASE ApplyFinished
  BY <1>4 DEF ApplyFinished, Received, ghosts
<1>5. CASE apply_subscription
  BY <1>5 DEF apply_subscription, Received, uiVars
<1>. QED
  BY <1>1, <1>2, <1>3, <1>4, <1>5 DEF Apply

-----------------------------------------------------------------------------
(* The stage that is shown *)

(***************************************************************************)
(* Events that are appended change nothing that is shown before them; one  *)
(* that is applied moves every place one to the front.                     *)
(***************************************************************************)
LEMMA ShownBeforeNews ==
  ASSUME TypeOK, NEW new \in Seq(Event), events' = events \o new, status' = status
  PROVE  /\ \A i \in 1 .. Len(events) + 1 : \A st : Shows(i, st) => Shows(i, st)'
         /\ (\A i \in DOMAIN new : new[i].e # "status") =>
               \A st : Shows(Len(events) + 1, st) => Shows(Len(events) + 1, st)'
         /\ \A st : new = <<[e |-> "status", status |-> st]>> => Shows(Len(events) + 1, st)'
<1>1. events \in Seq(Event)
  BY DEF TypeOK
<1>2. /\ Len(events) \in Nat /\ Len(new) \in Nat /\ Len(events') = Len(events) + Len(new)
      /\ \A i \in 1 .. Len(events) + Len(new) :
            events'[i] = IF i <= Len(events) THEN events[i] ELSE new[i - Len(events)]
  BY <1>1, ConcatProperties, LenProperties
<1>3. \A i \in 1 .. Len(events) : events'[i] = events[i]
  BY <1>2
<1>4. ASSUME NEW i \in 1 .. Len(events) + 1, NEW st, Shows(i, st)
      PROVE  Shows(i, st)'
  <2>1. i \in Nat /\ \A j \in 1 .. i - 1 : j \in 1 .. Len(events)
    BY <1>2
  <2>2. \A j \in 1 .. i - 1 : \A k \in j + 1 .. i - 1 : k \in 1 .. Len(events)
    BY <2>1
  <2>. QED
    BY <1>3, <1>4, <2>1, <2>2 DEF Shows
<1>5. ASSUME NEW st, Shows(Len(events) + 1, st), \A i \in DOMAIN new : new[i].e # "status"
      PROVE  Shows(Len(events) + 1, st)'
  <2>1. DOMAIN new = 1 .. Len(new)
    BY LenProperties
  <2>2. \A k \in 1 .. Len(events') : k > Len(events) => events'[k].e # "status"
    <3>1. ASSUME NEW k \in 1 .. Len(events'), k > Len(events)
          PROVE  events'[k] = new[k - Len(events)] /\ k - Len(events) \in 1 .. Len(new)
      BY <1>2, <3>1
    <3>. QED
      BY <3>1, <1>5, <2>1
  <2>3. CASE st = status /\ \A j \in 1 .. Len(events) : events[j].e # "status"
    <3>1. \A j \in 1 .. Len(events') : events'[j].e # "status"
      BY <1>2, <1>3, <2>2, <2>3
    <3>. QED
      BY <1>2, <2>3, <3>1 DEF Shows
  <2>4. CASE \E j \in 1 .. Len(events) :
               /\ events[j].e = "status" /\ events[j].status = st
               /\ \A k \in j + 1 .. Len(events) : events[k].e # "status"
    <3>1. PICK j \in 1 .. Len(events) :
               /\ events[j].e = "status" /\ events[j].status = st
               /\ \A k \in j + 1 .. Len(events) : events[k].e # "status"
      BY <2>4
    <3>2. \A k \in j + 1 .. Len(events') : events'[k].e # "status"
      BY <1>2, <1>3, <2>2, <3>1
    <3>3. j \in 1 .. Len(events') /\ events'[j].e = "status" /\ events'[j].status = st
      BY <1>2, <1>3, <3>1
    <3>4. \E i \in 1 .. Len(events') + 1 - 1 :
              /\ events'[i].e = "status" /\ events'[i].status = st
              /\ \A k \in i + 1 .. Len(events') + 1 - 1 : events'[k].e # "status"
      BY <1>2, <3>2, <3>3
    <3>. QED
      BY <3>4 DEF Shows
  <2>. QED
    BY <1>2, <1>5, <2>3, <2>4 DEF Shows
<1>6. ASSUME NEW st, new = <<[e |-> "status", status |-> st]>>
      PROVE  Shows(Len(events) + 1, st)'
  <2>1. Len(new) = 1 /\ new[1].e = "status" /\ new[1].status = st
    BY <1>6
  <2>2. Len(events') = Len(events) + 1 /\ events'[Len(events')] = new[1]
    BY <1>2, <2>1
  <2>3. \E i \in 1 .. Len(events') + 1 - 1 :
            /\ events'[i].e = "status" /\ events'[i].status = st
            /\ \A k \in i + 1 .. Len(events') + 1 - 1 : events'[k].e # "status"
    <3>1. Len(events') \in 1 .. Len(events') + 1 - 1
      BY <1>2, <2>2
    <3>. QED
      BY <1>2, <2>1, <2>2, <3>1
  <2>. QED
    BY <2>3 DEF Shows
<1>. QED
  BY <1>4, <1>5, <1>6

LEMMA ShownAfterApply ==
  ASSUME TypeOK, events # <<>>, events' = Tail(events),
         status' = IF Head(events).e = "status" THEN Head(events).status ELSE status,
         NEW i \in 1 .. Len(events), NEW st, Shows(i + 1, st)
  PROVE  Shows(i, st)'
<1>1. /\ events \in Seq(Event) /\ Len(events) \in Nat /\ Head(events) = events[1]
      /\ \A j \in 1 .. Len(events) - 1 : events'[j] = events[j + 1]
  BY TailFacts DEF TypeOK
<1>2. CASE st = status /\ \A j \in 1 .. i : events[j].e # "status"
  <2>1. 1 \in 1 .. i /\ \A j \in 1 .. i - 1 : j + 1 \in 1 .. i /\ j \in 1 .. Len(events) - 1
    BY <1>1
  <2>2. st = status' /\ \A j \in 1 .. i - 1 : events'[j].e # "status"
    BY <1>1, <1>2, <2>1
  <2>. QED
    BY <2>2 DEF Shows
<1>3. CASE \E j \in 1 .. i :
               /\ events[j].e = "status" /\ events[j].status = st
               /\ \A k \in j + 1 .. i : events[k].e # "status"
  <2>1. PICK j \in 1 .. i :
               /\ events[j].e = "status" /\ events[j].status = st
               /\ \A k \in j + 1 .. i : events[k].e # "status"
    BY <1>3
  <2>2. \A k \in j .. i - 1 : k >= 1 => events'[k].e # "status"
    <3>1. ASSUME NEW k \in j .. i - 1, k >= 1
          PROVE  k + 1 \in j + 1 .. i /\ k \in 1 .. Len(events) - 1
      BY <1>1, <2>1
    <3>. QED
      BY <1>1, <2>1, <3>1
  <2>3. CASE j = 1
    <3>1. st = status' /\ \A k \in 1 .. i - 1 : events'[k].e # "status"
      BY <1>1, <2>1, <2>2, <2>3
    <3>. QED
      BY <3>1 DEF Shows
  <2>4. CASE j # 1
    <3>1. j - 1 \in 1 .. i - 1 /\ j - 1 \in 1 .. Len(events) - 1 /\ (j - 1) + 1 = j
      BY <1>1, <2>1, <2>4
    <3>2. events'[j - 1] = events[j]
      BY <1>1, <3>1
    <3>3. /\ events'[j - 1].e = "status" /\ events'[j - 1].status = st
          /\ \A k \in j - 1 + 1 .. i - 1 : events'[k].e # "status"
      BY <2>1, <2>2, <3>1, <3>2
    <3>. QED
      BY <3>1, <3>3 DEF Shows
  <2>. QED
    BY <2>3, <2>4
<1>4. i + 1 - 1 = i
  BY <1>1
<1>. QED
  BY <1>2, <1>3, <1>4 DEF Shows

LEMMA StatusStep ==
  ASSUME TypeOK, CommandInv, StatusInv, [Next]_vars
  PROVE  StatusInv'
<1>1. events \in Seq(Event) /\ Len(events) \in Nat /\ serving # None => running = None
  BY DEF TypeOK, StatusInv
<1>2. Shows(Len(events) + 1, Stage)
  BY DEF StatusInv
<1>3. ASSUME UNCHANGED <<status, engineVars, events>>
      PROVE  StatusInv'
  BY <1>3 DEF StatusInv, Shows, Stage, engineVars
<1>4. CASE Interface
  <2>1. UNCHANGED <<status, engineVars, events>>
    BY <1>4, UiSteps DEF CommandInv
  <2>. QED
    BY <1>3, <2>1
<1>5. CASE Engine
  <2>1. status' = status /\ Takes
    BY <1>1, <1>5, EngineSteps DEF StatusInv, uiVars
  <2>2. PICK new \in Seq(Event) : Tells(new)
    BY <1>1, <1>5, EngineSteps DEF StatusInv
  <2>3. events' = events \o new
    BY <2>2 DEF Tells
  <2>4. serving' # None => running' = None
    BY <2>1 DEF Takes
  <2>5. CASE Stage' = Stage /\ \A i \in DOMAIN new : new[i].e # "status"
    <3>1. \A st : Shows(Len(events) + 1, st) => Shows(Len(events) + 1, st)'
      BY <2>1, <2>3, <2>5, ShownBeforeNews
    <3>. QED
      BY <1>2, <2>4, <2>5, <3>1 DEF StatusInv
  <2>6. CASE new = <<[e |-> "status", status |-> Stage']>>
    <3>1. \A st : new = <<[e |-> "status", status |-> st]>> => Shows(Len(events) + 1, st)'
      BY <2>1, <2>3, ShownBeforeNews
    <3>. QED
      BY <2>4, <2>6, <3>1 DEF StatusInv
  <2>. QED
    BY <2>2, <2>5, <2>6 DEF Tells
<1>6. CASE Apply
  <2>1. /\ UNCHANGED engineVars /\ events # <<>> /\ events' = Tail(events)
        /\ status' = IF Head(events).e = "status" THEN Head(events).status ELSE status
    BY <1>6, ApplySteps
  <2>2. Len(events) >= 1 /\ Len(events') + 1 = Len(events) /\ Stage' = Stage
    BY <1>1, <2>1, TailFacts DEF Stage, engineVars
  <2>0. PICK n \in Nat : n = Len(events)
    BY <1>1
  <2>3. PICK st : n = Len(events) /\ st = Stage
    BY <2>0
  <2>4. Shows(n, st)'
    BY <1>1, <1>2, <2>1, <2>2, <2>3, ShownAfterApply
  <2>5. n = Len(events') + 1 /\ st = Stage'
    BY <1>1, <2>2, <2>3
  <2>6. Shows(Len(events) + 1, Stage)'
    BY <2>4, <2>5
  <2>. QED
    BY <1>1, <2>1, <2>6 DEF StatusInv, engineVars
<1>7. CASE UNCHANGED vars
  BY <1>3, <1>7 DEF vars, uiVars
<1>. QED
  BY <1>4, <1>5, <1>6, <1>7 DEF Next

-----------------------------------------------------------------------------
(* The mode that was asked for *)

LEMMA ModeStep ==
  ASSUME TypeOK, CommandInv, StatusInv, ModeInv, [Next]_vars
  PROVE  ModeInv'
<1>1. commands \in Seq(Command) /\ Len(commands) \in Nat /\ DOMAIN commands = 1 .. Len(commands)
  BY LenProperties DEF TypeOK
<1>2. ASSUME UNCHANGED <<commands, mode, missed, serving, running>>
      PROVE  ModeInv'
  BY <1>2 DEF ModeInv
<1>3. CASE Interface
  <2>1. UNCHANGED <<serving, running>> /\ (SendsNothing \/ \E c \in Command : Sends(c))
    BY <1>3, UiSteps DEF CommandInv, engineVars
  <2>2. CASE SendsNothing
    <3>1. CASE missed'
      BY <3>1 DEF ModeInv
    <3>2. CASE UNCHANGED <<mode, missed>>
      BY <1>2, <2>1, <2>2, <3>2 DEF SendsNothing
    <3>. QED
      BY <2>2, <3>1, <3>2 DEF SendsNothing
  <2>3. ASSUME NEW c \in Command, Sends(c)
        PROVE  ModeInv'
    <3>1. /\ DOMAIN commands' = 1 .. Len(commands) + 1
          /\ \A i \in 1 .. Len(commands) : commands'[i] = commands[i] /\ i \in 1 .. Len(commands) + 1
          /\ commands'[Len(commands) + 1] = c
      BY <1>1, <2>3, AppendFacts DEF Sends
    <3>2. Len(commands) + 1 \in DOMAIN commands' /\ \A i \in DOMAIN commands' :
             i \in 1 .. Len(commands) \/ i = Len(commands) + 1
      BY <1>1, <3>1
    <3>3. CASE c.op = "connect"
      <4>1. c.mode = mode'
        BY <2>3, <3>3 DEF Sends
      <4>2. ASSUME NEW i \in DOMAIN commands',
                   \A j \in DOMAIN commands' : j > i => commands'[j].op # "connect"
            PROVE  commands'[i].mode = mode'
        <5>1. ~(Len(commands) + 1 > i)
          BY <3>1, <3>2, <3>3, <4>2
        <5>2. i = Len(commands) + 1
          BY <1>1, <3>2, <5>1
        <5>. QED
          BY <3>1, <4>1, <5>2
      <4>. QED
        BY <3>1, <3>2, <3>3, <4>2 DEF ModeInv
    <3>4. CASE c.op # "connect" /\ missed'
      BY <3>4 DEF ModeInv
    <3>5. CASE c.op # "connect" /\ ~missed'
      <4>1. mode' = mode /\ ~missed
        BY <2>3, <3>5 DEF Sends
      <4>2. ASSUME NEW i \in DOMAIN commands', commands'[i].op = "connect",
                   \A j \in DOMAIN commands' : j > i => commands'[j].op # "connect"
            PROVE  commands'[i].mode = mode'
        <5>1. i \in DOMAIN commands /\ commands[i] = commands'[i]
          BY <1>1, <3>1, <3>2, <3>5, <4>2
        <5>2. \A j \in DOMAIN commands : j > i => commands[j].op # "connect"
          BY <1>1, <3>1, <4>2
        <5>. QED
          BY <4>1, <4>2, <5>1, <5>2 DEF ModeInv
      <4>3. ASSUME \A i \in DOMAIN commands' : commands'[i].op # "connect"
            PROVE  \A d \in {serving', running'} \ {None} : d.mode = mode'
        <5>1. \A i \in DOMAIN commands : commands[i].op # "connect"
          BY <1>1, <3>1, <4>3
        <5>. QED
          BY <2>1, <4>1, <5>1 DEF ModeInv
      <4>. QED
        BY <4>2, <4>3 DEF ModeInv
    <3>. QED
      BY <3>3, <3>4, <3>5
  <2>. QED
    BY <2>1, <2>2, <2>3
<1>4. CASE Engine
  <2>1. UNCHANGED <<mode, missed>> /\ Takes
    BY <1>4, EngineSteps DEF StatusInv, uiVars
  <2>2. CASE missed
    BY <2>1, <2>2 DEF ModeInv
  <2>3. CASE ~missed /\ UNCHANGED commands /\ serving' \in {None, serving}
    BY <2>1, <2>3 DEF Takes, ModeInv
  <2>4. CASE /\ ~missed /\ commands # <<>> /\ commands' = Tail(commands)
             /\ serving' = IF Head(commands).op = "connect" THEN Head(commands) ELSE serving
    <3>1. /\ Head(commands) = commands[1] /\ Len(commands) >= 1
          /\ DOMAIN commands' = 1 .. Len(commands) - 1
          /\ \A i \in 1 .. Len(commands) - 1 : commands'[i] = commands[i + 1]
                                               /\ i + 1 \in 1 .. Len(commands)
      BY <1>1, <2>4, TailFacts
    <3>2. ASSUME NEW i \in DOMAIN commands', commands'[i].op = "connect",
                 \A j \in DOMAIN commands' : j > i => commands'[j].op # "connect"
          PROVE  commands'[i].mode = mode'
      <4>1. i + 1 \in DOMAIN commands /\ commands[i + 1] = commands'[i]
        BY <1>1, <3>1
      <4>2. ASSUME NEW j \in DOMAIN commands, j > i + 1
            PROVE  commands[j].op # "connect"
        <5>1. j - 1 \in 1 .. Len(commands) - 1 /\ j - 1 > i /\ j - 1 + 1 = j
          BY <1>1, <3>1, <4>2
        <5>. QED
          BY <3>1, <3>2, <5>1
      <4>. QED
        BY <2>1, <2>4, <3>2, <4>1, <4>2 DEF ModeInv
    <3>3. ASSUME \A i \in DOMAIN commands' : commands'[i].op # "connect",
                 NEW d \in {serving', running'} \ {None}
          PROVE  d.mode = mode'
      <4>1. \A j \in DOMAIN commands : j > 1 => commands[j].op # "connect"
        <5>1. ASSUME NEW j \in DOMAIN commands, j > 1
              PROVE  j - 1 \in 1 .. Len(commands) - 1 /\ j - 1 + 1 = j
          BY <1>1, <5>1
        <5>. QED
          BY <3>1, <3>3, <5>1
      <4>2. CASE Head(commands).op = "connect"
        <5>1. commands[1].mode = mode
          BY <1>1, <2>4, <3>1, <4>1, <4>2 DEF ModeInv
        <5>2. serving' = commands[1] /\ (serving' # None => running' = None)
          BY <2>1, <2>4, <3>1, <4>2 DEF Takes
        <5>3. commands[1] # None
          BY <1>1, <3>1, CommandFields
        <5>. QED
          BY <2>1, <5>1, <5>2, <5>3
      <4>3. CASE Head(commands).op # "connect"
        <5>1. \A j \in DOMAIN commands : commands[j].op # "connect"
          BY <1>1, <3>1, <4>1, <4>3
        <5>2. d \in {serving, running} \ {None}
          BY <2>1, <2>4, <4>3 DEF Takes
        <5>. QED
          BY <2>1, <2>4, <5>1, <5>2 DEF ModeInv
      <4>. QED
        BY <4>2, <4>3
    <3>. QED
      BY <3>2, <3>3 DEF ModeInv
  <2>. QED
    BY <2>1, <2>2, <2>3, <2>4 DEF Takes
<1>5. CASE Apply
  BY <1>2, <1>5, ApplySteps DEF engineVars
<1>6. CASE UNCHANGED vars
  BY <1>2, <1>6 DEF vars, uiVars, engineVars, ghosts
<1>. QED
  BY <1>3, <1>4, <1>5, <1>6 DEF Next

-----------------------------------------------------------------------------
(* The test that is shown *)

(***************************************************************************)
(* Taking a command or an event from the front moves the places of tests   *)
(* and ends; what is appended leaves them, and adds its own.               *)
(***************************************************************************)
LEMMA QueuedTail ==
  ASSUME TypeOK, commands # <<>>, commands' = Tail(commands)
  PROVE  /\ Queued \subseteq Int
         /\ \A i \in Queued' : i + 1 \in Queued /\ i + 1 # 1 /\ i \in Int
         /\ \A i \in Queued : i # 1 => i - 1 \in Queued'
         /\ 1 \in Queued <=> Head(commands).op = "test"
<1>1. commands \in Seq(Command)
  BY DEF TypeOK
<1>2. /\ Head(commands) = commands[1] /\ Len(commands) \in Nat /\ Len(commands) >= 1
      /\ DOMAIN commands = 1 .. Len(commands) /\ DOMAIN commands' = 1 .. Len(commands) - 1
      /\ \A i \in 1 .. Len(commands) - 1 : commands'[i] = commands[i + 1]
                                           /\ i + 1 \in 1 .. Len(commands)
  BY <1>1, TailFacts
<1>3. \A i \in 1 .. Len(commands) : i # 1 => i - 1 \in 1 .. Len(commands) - 1 /\ i - 1 + 1 = i
  BY <1>2
<1>4. Queued \subseteq Int /\ (1 \in Queued <=> Head(commands).op = "test")
  BY <1>2 DEF Queued
<1>5. ASSUME NEW i \in Queued' PROVE i + 1 \in Queued /\ i + 1 # 1 /\ i \in Int
  BY <1>2 DEF Queued
<1>6. ASSUME NEW i \in Queued, i # 1 PROVE i - 1 \in Queued'
  BY <1>2, <1>3, <1>6 DEF Queued
<1>. QED
  BY <1>4, <1>5, <1>6

LEMMA EndedTail ==
  ASSUME TypeOK, events # <<>>, events' = Tail(events)
  PROVE  /\ Ended \subseteq Int
         /\ \A i \in Ended' : i + 1 \in Ended /\ i + 1 # 1 /\ i \in Int
         /\ \A i \in Ended : i # 1 => i - 1 \in Ended'
         /\ 1 \in Ended <=> Head(events).e = "finished"
<1>1. events \in Seq(Event)
  BY DEF TypeOK
<1>2. /\ Head(events) = events[1] /\ Len(events) \in Nat /\ Len(events) >= 1
      /\ DOMAIN events = 1 .. Len(events) /\ DOMAIN events' = 1 .. Len(events) - 1
      /\ \A i \in 1 .. Len(events) - 1 : events'[i] = events[i + 1]
                                         /\ i + 1 \in 1 .. Len(events)
  BY <1>1, TailFacts
<1>3. \A i \in 1 .. Len(events) : i # 1 => i - 1 \in 1 .. Len(events) - 1 /\ i - 1 + 1 = i
  BY <1>2
<1>4. Ended \subseteq Int /\ (1 \in Ended <=> Head(events).e = "finished")
  BY <1>2 DEF Ended
<1>5. ASSUME NEW i \in Ended' PROVE i + 1 \in Ended /\ i + 1 # 1 /\ i \in Int
  BY <1>2 DEF Ended
<1>6. ASSUME NEW i \in Ended, i # 1 PROVE i - 1 \in Ended'
  BY <1>2, <1>3, <1>6 DEF Ended
<1>. QED
  BY <1>4, <1>5, <1>6

LEMMA QueuedAppend ==
  ASSUME TypeOK, NEW c \in Command, commands' = Append(commands, c)
  PROVE  /\ c.op # "test" => Queued' = Queued
         /\ c.op = "test" => Queued' = Queued \cup {Len(commands) + 1}
<1>1. commands \in Seq(Command)
  BY DEF TypeOK
<1>2. /\ Len(commands) \in Nat
      /\ DOMAIN commands = 1 .. Len(commands) /\ DOMAIN commands' = 1 .. Len(commands) + 1
      /\ \A i \in 1 .. Len(commands) : commands'[i] = commands[i] /\ i \in 1 .. Len(commands) + 1
      /\ commands'[Len(commands) + 1] = c
  BY <1>1, AppendFacts
<1>3. \A i \in 1 .. Len(commands) + 1 : i \in 1 .. Len(commands) \/ i = Len(commands) + 1
  BY <1>2
<1>4. Len(commands) + 1 \in 1 .. Len(commands) + 1
  BY <1>2
<1>. QED
  BY <1>2, <1>3, <1>4 DEF Queued

LEMMA EndedAppend ==
  ASSUME TypeOK, NEW ev, ev.e # "finished", Emit(ev)
  PROVE  Ended' = Ended
<1>. DEFINE S == Event \cup {ev}
<1>1. events \in Seq(S) /\ ev \in S
  <2>1. events \in Seq(Event) /\ Event \subseteq S
    BY DEF TypeOK
  <2>. QED
    BY <2>1, SeqMonotonic
<1>. HIDE DEF S
<1>2. /\ Len(events) \in Nat
      /\ DOMAIN events = 1 .. Len(events) /\ DOMAIN events' = 1 .. Len(events) + 1
      /\ \A i \in 1 .. Len(events) : events'[i] = events[i] /\ i \in 1 .. Len(events) + 1
      /\ events'[Len(events) + 1] = ev
  BY <1>1, AppendFacts DEF Emit
<1>3. \A i \in 1 .. Len(events) + 1 : i \in 1 .. Len(events) \/ i = Len(events) + 1
  BY <1>2
<1>. QED
  BY <1>2, <1>3 DEF Ended

(***************************************************************************)
(* The end of a test adds one place of an end, or more if it is told so.   *)
(***************************************************************************)
LEMMA EndedOnce ==
  ASSUME TypeOK, CommandInv, NEW t \in tasks, TestAnswers(t)
  PROVE  \E n \in Nat : n \in Ended' /\ (~twice' => Ended' = Ended \cup {n})
<1>. DEFINE fin == [e |-> "finished"]
<1>1. PICK a \in Seq(Event) :
         /\ events' = events \o (a \o <<fin>>)
         /\ \A i \in 1 .. Len(a) : TestReport(t, a[i]) \/ (a[i] = fin /\ twice')
  BY TestReports
<1>2. fin \in Event /\ fin.e = "finished" /\ events \in Seq(Event)
  BY DEF Event, TypeOK
<1>. DEFINE new == a \o <<fin>>
<1>. HIDE DEF fin
<1>3. /\ new \in Seq(Event) /\ Len(a) \in Nat
      /\ DOMAIN new = 1 .. Len(a) + 1
      /\ \A i \in 1 .. Len(a) : new[i] = a[i]
      /\ new[Len(a) + 1] = fin
  BY <1>2, EndedBy
<1>. HIDE DEF new
<1>4. events' = events \o new
  BY <1>1 DEF new
<1>5. /\ Len(events) \in Nat /\ Len(new) = Len(a) + 1 /\ DOMAIN events = 1 .. Len(events)
      /\ events' \in Seq(Event) /\ Len(events') = Len(events) + Len(new)
      /\ \A i \in 1 .. Len(events) + Len(new) :
            events'[i] = IF i <= Len(events) THEN events[i] ELSE new[i - Len(events)]
  BY <1>2, <1>3, <1>4, ConcatProperties, LenProperties
<1>6. DOMAIN events' = 1 .. Len(events) + Len(a) + 1
  BY <1>3, <1>5, LenProperties
<1>. DEFINE n == Len(events) + Len(a) + 1
<1>7. n \in Nat /\ n \in DOMAIN events' /\ n - Len(events) = Len(a) + 1 /\ ~(n <= Len(events))
  BY <1>3, <1>5, <1>6
<1>8. events'[n] = fin
  BY <1>3, <1>5, <1>6, <1>7
<1>9. n \in Ended'
  BY <1>2, <1>7, <1>8 DEF Ended
<1>10. ASSUME NEW i \in DOMAIN events', ~(i <= Len(events)), i # n
       PROVE  i - Len(events) \in 1 .. Len(a) /\ events'[i] = a[i - Len(events)]
  <2>1. i \in 1 .. Len(events) + Len(new) /\ i - Len(events) \in 1 .. Len(a)
    <3>1. /\ Len(events) \in Nat /\ Len(a) \in Nat /\ Len(new) = Len(a) + 1
          /\ i \in 1 .. Len(events) + Len(a) + 1
      BY <1>3, <1>5, <1>6
    <3>. QED
      BY <3>1, <1>10
  <2>2. events'[i] = new[i - Len(events)]
    BY <1>5, <1>10, <2>1
  <2>. QED
    BY <1>3, <2>1, <2>2
<1>11. ASSUME ~twice', NEW i \in Ended' PROVE i \in Ended \cup {n}
  <2>1. i \in DOMAIN events' /\ events'[i].e = "finished"
    BY DEF Ended
  <2>2. CASE i <= Len(events)
    BY <1>5, <1>6, <2>1, <2>2 DEF Ended
  <2>3. CASE ~(i <= Len(events)) /\ i # n
    BY <1>1, <1>10, <1>11, <2>1, <2>3 DEF TestReport
  <2>. QED
    BY <2>2, <2>3
<1>12. ASSUME NEW i \in Ended PROVE i \in Ended'
  BY <1>3, <1>5, <1>6 DEF Ended
<1>. QED
  BY <1>7, <1>9, <1>11, <1>12

LEMMA TestStep ==
  ASSUME TypeOK, CommandInv, StatusInv, TestInv, [Next]_vars
  PROVE  TestInv'
<1>1. commands \in Seq(Command) /\ events \in Seq(Event) /\ Len(commands) \in Nat
  BY LenProperties DEF TypeOK
<1>2. ASSUME Queued' = Queued, UnderWay' = UnderWay, Ended' = Ended,
             UNCHANGED <<testing, twice>>
      PROVE  TestInv'
  BY <1>2 DEF TestInv
<1>3. CASE Interface
  <2>1. UNCHANGED <<engineVars, events, twice>> /\ (SendsNothing \/ \E c \in Command : Sends(c))
    BY <1>3, UiSteps DEF CommandInv
  <2>2. UnderWay' = UnderWay /\ Ended' = Ended
    BY <2>1 DEF UnderWay, Ended, engineVars
  <2>3. CASE SendsNothing
    BY <1>2, <2>1, <2>2, <2>3 DEF SendsNothing, Queued
  <2>4. ASSUME NEW c \in Command, Sends(c)
        PROVE  TestInv'
    <3>1. commands' = Append(commands, c)
      BY <2>4 DEF Sends
    <3>2. CASE c.op # "test"
      <4>1. Queued' = Queued
        BY <3>1, <3>2, QueuedAppend
      <4>2. testing' = testing
        BY <2>4, <3>2 DEF Sends
      <4>. QED
        BY <1>2, <2>1, <2>2, <4>1, <4>2
    <3>3. CASE c.op = "test"
      <4>1. Queued' = Queued \cup {Len(commands) + 1}
        BY <3>1, <3>3, QueuedAppend
      <4>2. ~testing /\ testing'
        BY <2>4, <3>3 DEF Sends
      <4>3. CASE twice
        BY <2>1, <4>1, <4>3 DEF TestInv
      <4>4. CASE ~twice
        <5>1. Queued = {} /\ UnderWay = {} /\ Ended = {}
          BY <4>2, <4>4 DEF TestInv
        <5>. QED
          BY <2>1, <2>2, <4>1, <4>2, <5>1 DEF TestInv
      <4>. QED
        BY <4>3, <4>4
    <3>. QED
      BY <3>2, <3>3
  <2>. QED
    BY <2>1, <2>3, <2>4
<1>4. CASE Engine
  <2>1. UNCHANGED testing
    BY <1>4, EngineSteps DEF StatusInv, uiVars
  <2>2. ASSUME NEW st, Emit([e |-> "status", status |-> st])
        PROVE  Ended' = Ended
    <3>. DEFINE ev == [e |-> "status", status |-> st]
    <3>1. ev.e # "finished" /\ Emit(ev)
      BY <2>2
    <3>. HIDE DEF ev
    <3>. QED
      BY <3>1, EndedAppend
  <2>3. ASSUME NEW ops, "test" \notin ops, Take(ops), UNCHANGED <<tasks, twice>>, Ended' = Ended
        PROVE  TestInv'
    <3>1. commands # <<>> /\ commands' = Tail(commands) /\ Head(commands).op # "test"
      BY <2>3 DEF Take
    <3>2. /\ Queued \subseteq Int
          /\ \A i \in Queued' : i + 1 \in Queued /\ i \in Int
          /\ \A i \in Queued : i # 1 => i - 1 \in Queued'
          /\ 1 \notin Queued
      BY <3>1, QueuedTail
    <3>3. UnderWay' = UnderWay
      BY <2>3 DEF UnderWay
    <3>4. Queued # {} => Queued' # {}
      BY <3>2
    <3>5. Queued = {} => Queued' = {}
      BY <3>2
    <3>6. (\A i, j \in Queued : i = j) => \A i, j \in Queued' : i = j
      <4>1. ASSUME \A i, j \in Queued : i = j, NEW i \in Queued', NEW j \in Queued'
            PROVE  i = j
        <5>1. i + 1 = j + 1 /\ i \in Int /\ j \in Int
          BY <3>2, <4>1
        <5>. QED
          BY <5>1
      <4>. QED
        BY <4>1
    <3>. QED
      BY <2>1, <2>3, <3>3, <3>4, <3>5, <3>6 DEF TestInv
  <2>4. CASE TakeConnect
    BY <2>2, <2>3, <2>4 DEF TakeConnect, ghosts
  <2>5. CASE TakeDisconnect
    BY <2>2, <2>3, <2>5 DEF TakeDisconnect, ghosts
  <2>6. CASE Connected \/ ConnectFails \/ PollExited
    <3>1. Ended' = Ended /\ UNCHANGED <<commands, tasks, twice>>
      BY <2>2, <2>6 DEF Connected, ConnectFails, PollExited, ghosts
    <3>. QED
      BY <1>2, <2>1, <3>1 DEF Queued, UnderWay
  <2>7. CASE PollTraffic
    <3>. DEFINE ev == [e |-> "traffic", from |-> {p[2] : p \in running.of}]
    <3>1. ev.e # "finished" /\ Emit(ev) /\ UNCHANGED <<commands, tasks, twice>>
      BY <2>7 DEF PollTraffic, engineVars, ghosts
    <3>. HIDE DEF ev
    <3>. QED
      BY <1>2, <2>1, <3>1, EndedAppend DEF Queued, UnderWay
  <2>8. CASE TakeTask
    <3>. DEFINE c == Head(commands)
    <3>1. /\ Take({"test", "speed", "fetch"}) /\ tasks' = tasks \cup {c}
          /\ UNCHANGED <<events, twice>>
      BY <2>8 DEF TakeTask, ghosts
    <3>2. commands # <<>> /\ commands' = Tail(commands)
      BY <3>1 DEF Take
    <3>3. /\ Queued \subseteq Int
          /\ \A i \in Queued' : i + 1 \in Queued /\ i + 1 # 1 /\ i \in Int
          /\ \A i \in Queued : i # 1 => i - 1 \in Queued'
          /\ 1 \in Queued <=> c.op = "test"
      BY <3>2, QueuedTail
    <3>4. Ended' = Ended
      BY <3>1 DEF Ended
    <3>5. UnderWay' = UnderWay \cup (IF c.op = "test" THEN {c} ELSE {})
      BY <3>1 DEF UnderWay
    <3>6. (\A i, j \in Queued : i = j) => \A i, j \in Queued' : i = j
      <4>1. ASSUME \A i, j \in Queued : i = j, NEW i \in Queued', NEW j \in Queued'
            PROVE  i = j
        <5>1. i + 1 = j + 1 /\ i \in Int /\ j \in Int
          BY <3>3, <4>1
        <5>. QED
          BY <5>1
      <4>. QED
        BY <4>1
    <3>7. CASE c.op = "test"
      <4>1. (\A i, j \in Queued : i = j) => Queued' = {}
        BY <3>3, <3>7
      <4>. HIDE DEF c
      <4>. QED
        BY <2>1, <3>1, <3>3, <3>4, <3>5, <3>7, <4>1 DEF TestInv
    <3>8. CASE c.op # "test"
      <4>1. (Queued = {} => Queued' = {}) /\ (Queued # {} => Queued' # {})
        BY <3>3, <3>8
      <4>. HIDE DEF c
      <4>. QED
        BY <2>1, <3>1, <3>3, <3>4, <3>5, <3>6, <3>8, <4>1 DEF TestInv
    <3>. QED
      BY <3>7, <3>8
  <2>9. ASSUME NEW t \in tasks, TestAnswers(t)
        PROVE  TestInv'
    <3>1. /\ UNCHANGED <<commands, testing>> /\ tasks' = tasks \ {t} /\ t.op = "test"
          /\ ~twice' => ~twice
      BY <2>9 DEF TestAnswers, uiVars
    <3>2. Queued' = Queued /\ UnderWay' = UnderWay \ {t} /\ t \in UnderWay
      BY <3>1 DEF Queued, UnderWay
    <3>3. PICK n \in Nat : n \in Ended' /\ (~twice' => Ended' = Ended \cup {n})
      BY <2>9, EndedOnce
    <3>4. CASE twice'
      BY <3>3, <3>4 DEF TestInv
    <3>5. CASE ~twice'
      <4>1. Queued = {} /\ Ended = {} /\ UnderWay = {t} /\ testing
        BY <3>1, <3>2, <3>5 DEF TestInv
      <4>2. Queued' = {} /\ Ended' = {n} /\ UnderWay' = {} /\ testing'
        BY <3>1, <3>2, <3>3, <3>5, <4>1
      <4>. QED
        BY <4>2 DEF TestInv
    <3>. QED
      BY <3>4, <3>5
  <2>10. ASSUME NEW t \in tasks, SpeedAnswers(t) \/ FetchAnswers(t)
         PROVE  TestInv'
    <3>1. UNCHANGED <<commands, twice>> /\ tasks' = tasks \ {t} /\ t.op # "test"
      BY <2>10 DEF SpeedAnswers, FetchAnswers, ghosts
    <3>2. Queued' = Queued /\ UnderWay' = UnderWay
      BY <3>1 DEF Queued, UnderWay
    <3>3. ASSUME NEW p, Emit([e |-> "result", id |-> p[1], server |-> p[2]])
          PROVE  Ended' = Ended
      <4>. DEFINE ev == [e |-> "result", id |-> p[1], server |-> p[2]]
      <4>1. ev.e # "finished" /\ Emit(ev)
        BY <3>3
      <4>. HIDE DEF ev
      <4>. QED
        BY <4>1, EndedAppend
    <3>4. ASSUME NEW list, Emit([e |-> "subscription", gid |-> -t.id, list |-> list])
          PROVE  Ended' = Ended
      <4>. DEFINE ev == [e |-> "subscription", gid |-> -t.id, list |-> list]
      <4>1. ev.e # "finished" /\ Emit(ev)
        BY <3>4
      <4>. HIDE DEF ev
      <4>. QED
        BY <4>1, EndedAppend
    <3>5. Ended' = Ended
      <4>1. UNCHANGED events => Ended' = Ended
        BY DEF Ended
      <4>. QED
        BY <2>10, <3>3, <3>4, <4>1 DEF SpeedAnswers, FetchAnswers
    <3>. QED
      BY <1>2, <2>1, <3>1, <3>2, <3>5
  <2>. QED
    BY <1>4, <2>4, <2>5, <2>6, <2>7, <2>8, <2>9, <2>10 DEF Engine
<1>5. CASE Apply
  <2>1. /\ UNCHANGED <<commands, tasks, twice>> /\ events # <<>> /\ events' = Tail(events)
        /\ IF Head(events).e = "finished" THEN testing' = FALSE ELSE UNCHANGED testing
    BY <1>5, ApplySteps DEF engineVars
  <2>2. Queued' = Queued /\ UnderWay' = UnderWay
    BY <2>1 DEF Queued, UnderWay
  <2>3. /\ Ended \subseteq Int
        /\ \A i \in Ended' : i + 1 \in Ended /\ i + 1 # 1 /\ i \in Int
        /\ \A i \in Ended : i # 1 => i - 1 \in Ended'
        /\ 1 \in Ended <=> Head(events).e = "finished"
    BY <2>1, EndedTail
  <2>4. (\A i, j \in Ended : i = j) => \A i, j \in Ended' : i = j
    <3>1. ASSUME \A i, j \in Ended : i = j, NEW i \in Ended', NEW j \in Ended'
          PROVE  i = j
      <4>1. i + 1 = j + 1 /\ i \in Int /\ j \in Int
        BY <2>3, <3>1
      <4>. QED
        BY <4>1
    <3>. QED
      BY <3>1
  <2>5. Ended = {} => Ended' = {}
    BY <2>3
  <2>6. CASE Head(events).e = "finished"
    <3>1. ~testing' /\ Ended # {}
      BY <2>1, <2>3, <2>6
    <3>2. (\A i, j \in Ended : i = j) => Ended' = {}
      BY <2>3, <2>6
    <3>. QED
      BY <2>1, <2>2, <2>4, <3>1, <3>2 DEF TestInv
  <2>7. CASE Head(events).e # "finished"
    <3>1. testing' = testing /\ (Ended # {} => Ended' # {})
      BY <2>1, <2>3, <2>7
    <3>. QED
      BY <2>1, <2>2, <2>4, <2>5, <3>1 DEF TestInv
  <2>. QED
    BY <2>6, <2>7
<1>6. CASE UNCHANGED vars
  BY <1>2, <1>6 DEF vars, uiVars, engineVars, ghosts, Queued, UnderWay, Ended
<1>. QED
  BY <1>3, <1>4, <1>5, <1>6 DEF Next

-----------------------------------------------------------------------------
(* The store *)

(***************************************************************************)
(* New rows get ids above those that are kept.                             *)
(***************************************************************************)
LEMMA RefilledRows ==
  ASSUME NEW kept, DOMAIN kept \subseteq Ids, IsFiniteSet(DOMAIN kept),
         NEW new \in Seq(Row)
  PROVE  LET first == NextId(DOMAIN kept)
             fresh == first .. first + Len(new) - 1
             all   == Refilled(kept, new)
         IN  /\ first \in Ids /\ Len(new) \in Nat
             /\ fresh \subseteq Ids /\ fresh \cap DOMAIN kept = {}
             /\ IsFiniteSet(fresh) /\ Cardinality(fresh) = Len(new)
             /\ DOMAIN all = DOMAIN kept \cup fresh
             /\ all = [id \in DOMAIN all |-> all[id]]
             /\ \A id \in DOMAIN kept : all[id] = kept[id]
             /\ \A id \in fresh : id - first + 1 \in 1 .. Len(new)
                                  /\ all[id] = new[id - first + 1]
             /\ \A i \in 1 .. Len(new) : first + i - 1 \in fresh
                                         /\ all[first + i - 1] = new[i]
<1>. DEFINE first == NextId(DOMAIN kept)
            fresh == first .. first + Len(new) - 1
            all   == Refilled(kept, new)
<1>1. first \in Ids /\ \A x \in DOMAIN kept : x < first
  BY NextIsFresh
<1>2. Len(new) \in Nat
  BY LenProperties
<1>3. all = [id \in DOMAIN kept \cup fresh |->
                IF id \in fresh THEN new[id - first + 1] ELSE kept[id]]
  BY DEF Refilled
<1>. HIDE DEF first, all
<1>4. first \in Nat /\ first >= 1 /\ first + Len(new) - 1 \in Int
  BY <1>1, <1>2 DEF Ids
<1>5. fresh \subseteq Ids /\ fresh \cap DOMAIN kept = {}
  BY <1>1, <1>2, <1>4 DEF Ids
<1>6. IsFiniteSet(fresh) /\ Cardinality(fresh) = Len(new)
  <2>1. IsFiniteSet(fresh) /\ Cardinality(fresh) =
           IF first > first + Len(new) - 1 THEN 0 ELSE first + Len(new) - 1 - first + 1
    BY <1>4, FS_Interval
  <2>. QED
    BY <1>2, <1>4, <2>1
<1>7. \A id \in fresh : id - first + 1 \in 1 .. Len(new)
  BY <1>2, <1>4
<1>8. \A i \in 1 .. Len(new) : first + i - 1 \in fresh /\ first + i - 1 - first + 1 = i
  BY <1>2, <1>4
<1>. HIDE DEF fresh
<1>9. DOMAIN all = DOMAIN kept \cup fresh /\ all = [id \in DOMAIN all |-> all[id]]
  BY <1>3
<1>10. \A id \in DOMAIN kept : all[id] = kept[id]
  BY <1>3, <1>5
<1>11. \A id \in fresh : all[id] = new[id - first + 1]
  BY <1>3
<1>12. ASSUME NEW i \in 1 .. Len(new) PROVE all[first + i - 1] = new[i]
  <2>1. PICK id \in fresh : id = first + i - 1
    BY <1>8
  <2>2. id - first + 1 = i
    BY <1>2, <1>4, <2>1
  <2>. QED
    BY <1>11, <2>1, <2>2
<1>. QED
  BY <1>1, <1>2, <1>5, <1>6, <1>7, <1>8, <1>9, <1>10, <1>11, <1>12 DEF first, fresh, all

(***************************************************************************)
(* The rows of a group after an update: each has its server from the list  *)
(* and no history, or is a former row of that server.                      *)
(***************************************************************************)
Unmoved(g)       == DOMAIN rows \ InGroup(g)
NextRow(g)       == NextId(Unmoved(g))
NewIds(g, list)  == NextRow(g) .. NextRow(g) + Len(list) - 1
Former(g, s)     == {old \in InGroup(g) : rows[old].server = s}

Replaced(g, list, all) ==
    /\ DOMAIN list = 1 .. Len(list)
    /\ NewIds(g, list) \subseteq Ids /\ NewIds(g, list) \cap Unmoved(g) = {}
    /\ IsFiniteSet(NewIds(g, list)) /\ Cardinality(NewIds(g, list)) = Len(list)
    /\ DOMAIN all = Unmoved(g) \cup NewIds(g, list)
    /\ \A id \in Unmoved(g) : all[id] = rows[id]
    /\ \A id \in NewIds(g, list) :
          \E i \in 1 .. Len(list) :
             /\ all[id] \in Row /\ all[id].gid = g /\ all[id].server = list[i]
             /\ IF Former(g, list[i]) = {} THEN all[id] = NewRow(g, list[i])
                ELSE \E old \in Former(g, list[i]) : all[id] = rows[old]
    /\ \A i \in 1 .. Len(list) : \E id \in NewIds(g, list) : all[id].server = list[i]

LEMMA ReplacedRows ==
  ASSUME TypeOK, IsFiniteSet(DOMAIN rows), NEW g \in Groups, NEW list \in Lists
  PROVE  Replaced(g, list, replace_group_profiles(g, list))
<1>. DEFINE kept  == DOMAIN rows \ InGroup(g)
            first == NextId(kept)
            fresh == first .. first + Len(list) - 1
            all   == replace_group_profiles(g, list)
            Same(s) == {id \in InGroup(g) : rows[id].server = s}
            new   == [i \in DOMAIN list |->
                        IF Same(list[i]) = {} THEN NewRow(g, list[i])
                        ELSE rows[Min(Same(list[i]))]]
            but   == RowsBut(InGroup(g))
<1>1. list \in Seq(Servers) /\ Len(list) \in Nat /\ DOMAIN list = 1 .. Len(list)
      /\ \A i \in 1 .. Len(list) : list[i] \in Servers
  <2>1. list \in Seq(Servers)
    BY LibraryAssumption
  <2>. QED
    BY <2>1, LenProperties, ElementOfSeq
<1>2. DOMAIN rows \subseteq Ids /\ \A id \in DOMAIN rows : rows[id] \in Row
  BY DEF TypeOK
<1>3. all = Refilled(but, new)
  BY DEF replace_group_profiles
<1>4. DOMAIN but = kept /\ \A id \in kept : but[id] = rows[id]
  BY DEF RowsBut
<1>5. kept \subseteq Ids /\ IsFiniteSet(kept)
  BY <1>2, FS_Subset
<1>6. ASSUME NEW s \in Servers, Same(s) # {}
      PROVE  Min(Same(s)) \in Same(s)
  <2>1. Same(s) \in SUBSET Nat /\ Same(s) \in SUBSET DOMAIN rows
    BY <1>2 DEF InGroup, Ids
  <2>2. IsFiniteSet(Same(s))
    BY <2>1, FS_Subset
  <2>. HIDE DEF Same
  <2>. QED
    BY <1>6, <2>1, <2>2, Extremes
<1>7. ASSUME NEW i \in 1 .. Len(list)
      PROVE  /\ new[i] \in Row /\ new[i].gid = g /\ new[i].server = list[i]
             /\ IF Same(list[i]) = {} THEN new[i] = NewRow(g, list[i])
                ELSE \E old \in Same(list[i]) : new[i] = rows[old]
  <2>1. list[i] \in Servers
    BY <1>1
  <2>2. CASE Same(list[i]) = {}
    <3>1. new[i] = NewRow(g, list[i])
      BY <1>1, <2>2
    <3>. HIDE DEF new
    <3>2. NewRow(g, list[i]) \in Row /\ NewRow(g, list[i]).gid = g
          /\ NewRow(g, list[i]).server = list[i]
      BY <2>1 DEF NewRow, Row
    <3>. QED
      BY <2>2, <3>1, <3>2
  <2>3. CASE Same(list[i]) # {}
    <3>1. new[i] = rows[Min(Same(list[i]))]
      BY <1>1, <2>3
    <3>2. PICK old \in Same(list[i]) : old = Min(Same(list[i]))
      BY <1>6, <2>1, <2>3
    <3>. HIDE DEF new
    <3>3. old \in DOMAIN rows /\ rows[old].gid = g /\ rows[old].server = list[i]
      BY <3>2 DEF InGroup
    <3>. QED
      BY <1>2, <2>3, <3>1, <3>2, <3>3
  <2>. QED
    BY <2>2, <2>3
<1>8. new \in Seq(Row) /\ Len(new) = Len(list)
  <2>1. new = [i \in 1 .. Len(list) |-> new[i]]
    BY <1>1
  <2>. HIDE DEF new
  <2>2. new \in [1 .. Len(list) -> Row]
    BY <1>7, <2>1
  <2>. QED
    BY <1>1, <2>2, SeqDef
<1>. HIDE DEF new, all, but, Same
<1>9. /\ first \in Ids
      /\ fresh \subseteq Ids /\ fresh \cap kept = {}
      /\ IsFiniteSet(fresh) /\ Cardinality(fresh) = Len(list)
      /\ DOMAIN all = kept \cup fresh
      /\ \A id \in kept : all[id] = but[id]
      /\ \A id \in fresh : id - first + 1 \in 1 .. Len(list)
                           /\ all[id] = new[id - first + 1]
      /\ \A i \in 1 .. Len(list) : first + i - 1 \in fresh
                                   /\ all[first + i - 1] = new[i]
  <2>1. DOMAIN but \subseteq Ids /\ IsFiniteSet(DOMAIN but)
    BY <1>4, <1>5
  <2>2. /\ NextId(DOMAIN but) = first /\ Len(new) = Len(list)
    BY <1>4, <1>8 DEF first
  <2>. DEFINE start == NextId(DOMAIN but)
              ids   == start .. start + Len(new) - 1
              every == Refilled(but, new)
  <2>3. /\ start \in Ids
        /\ ids \subseteq Ids /\ ids \cap DOMAIN but = {}
        /\ IsFiniteSet(ids) /\ Cardinality(ids) = Len(new)
        /\ DOMAIN every = DOMAIN but \cup ids
        /\ \A id \in DOMAIN but : every[id] = but[id]
        /\ \A id \in ids : id - start + 1 \in 1 .. Len(new)
                           /\ every[id] = new[id - start + 1]
        /\ \A i \in 1 .. Len(new) : start + i - 1 \in ids
                                    /\ every[start + i - 1] = new[i]
    BY <1>8, <2>1, RefilledRows
  <2>4. start = first /\ ids = fresh /\ every = all
    BY <1>3, <2>2
  <2>. HIDE DEF start, ids, every, first, fresh, kept
  <2>. QED
    BY <1>4, <1>8, <2>3, <2>4
<1>. HIDE DEF first, fresh, kept
<1>10. \A id \in kept : all[id] = rows[id]
  BY <1>4, <1>9
<1>11. ASSUME NEW id \in fresh
       PROVE  /\ id - first + 1 \in 1 .. Len(list)
              /\ all[id] \in Row /\ all[id].gid = g
              /\ all[id].server = list[id - first + 1]
              /\ IF Same(list[id - first + 1]) = {}
                   THEN all[id] = NewRow(g, list[id - first + 1])
                   ELSE \E old \in Same(list[id - first + 1]) : all[id] = rows[old]
  <2>1. PICK i \in 1 .. Len(list) : i = id - first + 1
    BY <1>9
  <2>2. all[id] = new[i]
    BY <1>9, <2>1
  <2>. QED
    BY <1>7, <2>1, <2>2
<1>12. ASSUME NEW id \in fresh
       PROVE  \E i \in 1 .. Len(list) :
                 /\ all[id] \in Row /\ all[id].gid = g /\ all[id].server = list[i]
                 /\ IF Same(list[i]) = {} THEN all[id] = NewRow(g, list[i])
                    ELSE \E old \in Same(list[i]) : all[id] = rows[old]
  BY <1>11
<1>13. ASSUME NEW i \in 1 .. Len(list)
       PROVE  \E id \in fresh : all[id].server = list[i]
  <2>1. PICK id \in fresh : all[id] = new[i]
    BY <1>9
  <2>. QED
    BY <1>7, <2>1
<1>14. kept = Unmoved(g) /\ fresh = NewIds(g, list) /\ \A s : Same(s) = Former(g, s)
  BY DEF kept, first, fresh, Same, Unmoved, NextRow, NewIds, Former
<1>. HIDE DEF kept, fresh
<1>15. Replaced(g, list, all)
  <2>1. \A id \in fresh :
           \E i \in 1 .. Len(list) :
              /\ all[id] \in Row /\ all[id].gid = g /\ all[id].server = list[i]
              /\ IF Former(g, list[i]) = {} THEN all[id] = NewRow(g, list[i])
                 ELSE \E old \in Former(g, list[i]) : all[id] = rows[old]
    BY <1>12, <1>14
  <2>. QED
    BY <1>1, <1>9, <1>10, <1>13, <1>14, <2>1 DEF Replaced
<1>. QED
  BY <1>15 DEF all

(***************************************************************************)
(* What a step does to the rows: those it keeps stay with their servers,   *)
(* and if one that is named goes, it is overtaken.  The new ones have no   *)
(* history but that of their server.                                       *)
(***************************************************************************)
KeepsRows ==
    /\ DOMAIN rows' \subseteq Ids /\ IsFiniteSet(DOMAIN rows')
    /\ \A id \in DOMAIN rows' : rows'[id] \in Row /\ rows'[id].gid \in groups
    /\ overtaken' \in BOOLEAN
    /\ ~overtaken' =>
        /\ ~overtaken
        /\ \A id \in DOMAIN rows : id \in Named =>
              id \in DOMAIN rows' /\ rows'[id].server = rows[id].server

\* No row has history it did not have.
NoHistory ==
    ~overtaken' => \A id \in DOMAIN rows' :
        \/ rows'[id].latency = None /\ rows'[id].traffic = {}
        \/ \E old \in DOMAIN rows : /\ rows'[id].server = rows[old].server
                                    /\ rows'[id].latency = rows[old].latency
                                    /\ rows'[id].traffic = rows[old].traffic

LEMMA SameRows ==
  ASSUME TypeOK, IsFiniteSet(DOMAIN rows), UNCHANGED <<rows, overtaken>>
  PROVE  KeepsRows /\ NoHistory
<1>1. KeepsRows
  BY DEF TypeOK, KeepsRows
<1>2. NoHistory
  BY DEF NoHistory
<1>. QED
  BY <1>1, <1>2

LEMMA AddLinkRows ==
  ASSUME TypeOK, IsFiniteSet(DOMAIN rows), NEW s \in Servers, AddLink(s)
  PROVE  KeepsRows /\ NoHistory
<1>1. /\ DOMAIN rows \subseteq Ids /\ \A id \in DOMAIN rows : rows[id] \in Row /\ rows[id].gid \in groups
      /\ current \in groups /\ groups \subseteq Groups /\ overtaken \in BOOLEAN
  BY DEF TypeOK
<1>. DEFINE new == <<NewRow(current, s)>>
            start == NextId(DOMAIN rows)
            ids   == start .. start + Len(new) - 1
            every == Refilled(rows, new)
<1>2. rows' = every /\ UNCHANGED <<groups, overtaken>>
  BY DEF AddLink, insert_profile, ghosts
<1>3. NewRow(current, s) \in Row /\ NewRow(current, s).gid \in groups
      /\ NewRow(current, s).latency = None /\ NewRow(current, s).traffic = {}
  BY <1>1 DEF NewRow, Row
<1>4. new \in Seq(Row) /\ \A i \in 1 .. Len(new) : new[i] = NewRow(current, s)
  BY <1>3
<1>. HIDE DEF new
<1>5. /\ ids \subseteq Ids /\ ids \cap DOMAIN rows = {} /\ IsFiniteSet(ids)
      /\ DOMAIN every = DOMAIN rows \cup ids
      /\ \A id \in DOMAIN rows : every[id] = rows[id]
      /\ \A id \in ids : id - start + 1 \in 1 .. Len(new)
                         /\ every[id] = new[id - start + 1]
  BY <1>1, <1>4, RefilledRows
<1>6. \A id \in ids : every[id] = NewRow(current, s)
  BY <1>4, <1>5
<1>7. IsFiniteSet(DOMAIN every)
  <2>. HIDE DEF start, ids, every
  <2>1. IsFiniteSet(DOMAIN rows \cup ids)
    BY <1>5, FS_Union
  <2>. QED
    BY <1>5, <2>1
<1>. HIDE DEF start, ids, every
<1>8. KeepsRows
  BY <1>1, <1>2, <1>3, <1>5, <1>6, <1>7 DEF KeepsRows
<1>9. NoHistory
  BY <1>2, <1>3, <1>5, <1>6 DEF NoHistory
<1>. QED
  BY <1>8, <1>9

LEMMA DeleteRows ==
  ASSUME TypeOK, IsFiniteSet(DOMAIN rows), DeleteSelected
  PROVE  KeepsRows /\ NoHistory
<1>1. /\ rows' = RowsBut({selected}) /\ groups' = groups
      /\ overtaken' = (overtaken \/ {selected} \cap Named # {})
  BY DEF DeleteSelected, Removes
<1>2. DOMAIN rows' = DOMAIN rows \ {selected} /\ \A id \in DOMAIN rows' : rows'[id] = rows[id]
  BY <1>1 DEF RowsBut
<1>3. IsFiniteSet(DOMAIN rows')
  BY <1>2, FS_Subset
<1>4. KeepsRows
  BY <1>1, <1>2, <1>3 DEF KeepsRows, TypeOK
<1>5. NoHistory
  BY <1>2 DEF NoHistory
<1>. QED
  BY <1>4, <1>5

LEMMA SubscriptionRows ==
  ASSUME TypeOK, CommandInv, apply_subscription
  PROVE  KeepsRows /\ NoHistory
<1>. DEFINE g == Head(events).gid
            list == Head(events).list
<1>1. Head(events) \in Event /\ Head(events).e = "subscription" /\ Head(events) \in Range(events)
  BY TailFacts DEF apply_subscription, Received, TypeOK
<1>2. g \in groups /\ g \in Groups /\ list \in Lists
  BY <1>1, EventFields DEF CommandInv
<1>3. /\ rows' = replace_group_profiles(g, list) /\ groups' = groups
      /\ overtaken' = (overtaken \/ InGroup(g) \cap Named # {})
  BY DEF apply_subscription, Removes
<1>4. IsFiniteSet(DOMAIN rows)
  BY DEF CommandInv
<1>. HIDE DEF g, list
<1>11. Replaced(g, list, rows')
  BY <1>2, <1>3, <1>4, ReplacedRows
<1>. DEFINE kept  == Unmoved(g)
            fresh == NewIds(g, list)
<1>5. /\ fresh \subseteq Ids /\ IsFiniteSet(fresh)
      /\ DOMAIN rows' = kept \cup fresh
      /\ \A id \in kept : rows'[id] = rows[id]
      /\ \A id \in fresh :
            \E i \in 1 .. Len(list) :
               /\ rows'[id] \in Row /\ rows'[id].gid = g /\ rows'[id].server = list[i]
               /\ IF Former(g, list[i]) = {} THEN rows'[id] = NewRow(g, list[i])
                  ELSE \E old \in Former(g, list[i]) : rows'[id] = rows[old]
  BY <1>11 DEF Replaced
<1>6. \A id \in fresh : \/ rows'[id].latency = None /\ rows'[id].traffic = {}
                        \/ \E old \in DOMAIN rows : rows'[id] = rows[old]
  <2>1. \A s : NewRow(g, s).latency = None /\ NewRow(g, s).traffic = {}
    BY DEF NewRow
  <2>2. \A s : Former(g, s) \subseteq DOMAIN rows
    BY DEF Former, InGroup
  <2>. HIDE DEF fresh
  <2>. QED
    BY <1>5, <2>1, <2>2
<1>10. kept \subseteq DOMAIN rows /\ kept = DOMAIN rows \ InGroup(g)
  BY DEF Unmoved
<1>. HIDE DEF kept, fresh
<1>7. IsFiniteSet(DOMAIN rows')
  <2>1. IsFiniteSet(kept)
    BY <1>4, <1>10, FS_Subset
  <2>2. IsFiniteSet(kept \cup fresh)
    BY <1>5, <2>1, FS_Union
  <2>3. DOMAIN rows' = kept \cup fresh
    BY <1>5
  <2>. QED
    BY <2>2, <2>3
<1>8. KeepsRows
  <2>1. \A id \in DOMAIN rows' : rows'[id] \in Row /\ rows'[id].gid \in groups
    BY <1>2, <1>3, <1>5, <1>10 DEF TypeOK
  <2>2. DOMAIN rows' \subseteq Ids
    BY <1>5, <1>10 DEF TypeOK
  <2>3. ASSUME ~overtaken', NEW id \in DOMAIN rows, id \in Named
        PROVE  id \in DOMAIN rows' /\ rows'[id].server = rows[id].server
    BY <1>3, <1>5, <1>10, <2>3
  <2>. QED
    BY <1>3, <1>7, <2>1, <2>2, <2>3 DEF KeepsRows, TypeOK
<1>9. NoHistory
  BY <1>5, <1>6, <1>10 DEF NoHistory
<1>. QED
  BY <1>8, <1>9

LEMMA RowsStep ==
  ASSUME TypeOK, CommandInv, StatusInv, [Next]_vars
  PROVE  KeepsRows
<1>1. /\ IsFiniteSet(DOMAIN rows) /\ events \in Seq(Event)
      /\ DOMAIN rows \subseteq Ids /\ overtaken \in BOOLEAN
      /\ \A id \in DOMAIN rows : rows[id] \in Row /\ rows[id].gid \in groups
  BY DEF CommandInv, TypeOK
<1>2. ASSUME UNCHANGED <<rows, overtaken>> PROVE KeepsRows
  BY <1>1, <1>2, SameRows
<1>3. CASE Interface
  <2>1. SendsNothing \/ \E c \in Command : Sends(c)
    BY <1>1, <1>3, UiSteps
  <2>2. CASE SendsNothing
    BY <1>1, <1>2, <2>2, AddLinkRows, DeleteRows DEF SendsNothing
  <2>3. CASE \E c \in Command : Sends(c)
    BY <1>2, <2>3 DEF Sends
  <2>. QED
    BY <2>1, <2>2, <2>3
<1>4. CASE Engine
  BY <1>2, <1>4, EngineSteps DEF StatusInv
<1>5. CASE Apply
  <2>1. Head(events) \in Event
    BY <1>1, <1>5, ApplySteps, TailFacts
  <2>2. ASSUME DOMAIN rows' = DOMAIN rows, overtaken' = overtaken,
               \A id \in DOMAIN rows : rows'[id] \in Row /\ rows'[id].gid = rows[id].gid
                                       /\ rows'[id].server = rows[id].server
        PROVE  KeepsRows
    <3>1. DOMAIN rows' \subseteq Ids /\ IsFiniteSet(DOMAIN rows')
      BY <1>1, <2>2
    <3>2. \A id \in DOMAIN rows' : rows'[id] \in Row /\ rows'[id].gid \in groups
      BY <1>1, <2>2
    <3>3. overtaken' \in BOOLEAN /\ (~overtaken' => ~overtaken)
      BY <1>1, <2>2, Zenon
    <3>4. \A id \in DOMAIN rows : id \in DOMAIN rows' /\ rows'[id].server = rows[id].server
      BY <2>2
    <3>. QED
      BY <3>1, <3>2, <3>3, <3>4, Zenon DEF KeepsRows
  <2>3. CASE ApplyStatus
    BY <1>2, <2>3 DEF ApplyStatus, ghosts
  <2>4. CASE ApplyFinished
    BY <1>2, <2>4 DEF ApplyFinished, ghosts
  <2>5. CASE ApplyTraffic
    <3>1. Head(events).from \in SUBSET Servers
      BY <2>1, <2>5, EventFields DEF ApplyTraffic, Received
    <3>2. rows' = [id \in DOMAIN rows |-> IF id = status.id
                     THEN [rows[id] EXCEPT !.traffic = @ \cup Head(events).from] ELSE rows[id]]
      BY <2>5 DEF ApplyTraffic
    <3>3. \A id \in DOMAIN rows : rows'[id] \in Row /\ rows'[id].gid = rows[id].gid
                                  /\ rows'[id].server = rows[id].server
      BY <1>1, <3>1, <3>2 DEF Row
    <3>. QED
      BY <2>2, <2>5, <3>2, <3>3 DEF ApplyTraffic, ghosts
  <2>6. CASE ApplyResult
    <3>1. Head(events).server \in Servers
      BY <2>1, <2>6, EventFields DEF ApplyResult, Received
    <3>2. rows' = [id \in DOMAIN rows |-> IF id = Head(events).id
                     THEN [rows[id] EXCEPT !.latency = Head(events).server] ELSE rows[id]]
      BY <2>6 DEF ApplyResult
    <3>3. \A id \in DOMAIN rows : rows'[id] \in Row /\ rows'[id].gid = rows[id].gid
                                  /\ rows'[id].server = rows[id].server
      BY <1>1, <3>1, <3>2 DEF Row
    <3>. QED
      BY <2>2, <2>6, <3>2, <3>3 DEF ApplyResult, ghosts
  <2>7. CASE apply_subscription
    BY <2>7, SubscriptionRows
  <2>. QED
    BY <1>5, <2>3, <2>4, <2>5, <2>6, <2>7 DEF Apply
<1>6. CASE UNCHANGED vars
  BY <1>2, <1>6 DEF vars, ghosts
<1>. QED
  BY <1>3, <1>4, <1>5, <1>6 DEF Next

-----------------------------------------------------------------------------
(* Types, and where commands go *)

LEMMA TypeStep ==
  ASSUME TypeOK, CommandInv, StatusInv, [Next]_vars
  PROVE  TypeOK'
<1>1. /\ current \in groups /\ groups \subseteq Groups /\ selected \in Int /\ mode \in Modes
      /\ status \in Statuses /\ testing \in BOOLEAN /\ commands \in Seq(Command)
      /\ serving \in Command \cup {None} /\ running \in Command \cup {None}
      /\ tasks \subseteq Command /\ events \in Seq(Event) /\ left \in [Spent -> Nat]
      /\ missed \in BOOLEAN /\ twice \in BOOLEAN /\ IsFiniteSet(DOMAIN rows)
  BY DEF TypeOK, Targets, CommandInv
<1>2. KeepsRows
  BY RowsStep
<1>3. groups \subseteq groups' =>
         /\ DOMAIN rows' \subseteq Ids /\ overtaken' \in BOOLEAN
         /\ \A id \in DOMAIN rows' : rows'[id] \in Row /\ rows'[id].gid \in groups'
  BY <1>2 DEF KeepsRows
<1>4. ASSUME groups \subseteq groups', groups' \subseteq Groups, current' \in groups',
             selected' \in Int, mode' \in Modes, status' \in Statuses, testing' \in BOOLEAN,
             commands' \in Seq(Command), serving' \in Command \cup {None},
             running' \in Command \cup {None}, tasks' \subseteq Command,
             events' \in Seq(Event), left' \in [Spent -> Nat],
             missed' \in BOOLEAN, twice' \in BOOLEAN
      PROVE  TypeOK'
  BY <1>3, <1>4 DEF TypeOK, Targets
<1>5. CASE Interface
  <2>1. /\ UNCHANGED <<status, engineVars, events, twice>>
        /\ current' \in groups' /\ selected' \in Int /\ left' \in [Spent -> Nat]
        /\ SendsNothing \/ \E c \in Command : Sends(c)
    BY <1>1, <1>5, UiSteps
  <2>2. CASE SendsNothing
    <3>1. UNCHANGED <<commands, testing, groups>> /\ mode' \in Modes /\ missed' \in BOOLEAN
      BY <1>1, <2>2 DEF SendsNothing
    <3>. QED
      BY <1>1, <1>4, <2>1, <3>1 DEF engineVars
  <2>3. ASSUME NEW c \in Command, Sends(c)
        PROVE  TypeOK'
    <3>1. /\ commands' = Append(commands, c) /\ mode' \in Modes
          /\ groups \subseteq groups' /\ groups' \subseteq Groups
      BY <2>3 DEF Sends
    <3>3. testing' \in BOOLEAN
      <4>1. CASE c.op = "test"
        BY <2>3, <4>1, Zenon DEF Sends
      <4>2. CASE c.op # "test"
        BY <1>1, <2>3, <4>2, Zenon DEF Sends
      <4>. QED
        BY <4>1, <4>2
    <3>4. missed' \in BOOLEAN
      <4>1. CASE c.op = "connect"
        BY <2>3, <4>1, Zenon DEF Sends
      <4>2. CASE c.op # "connect"
        BY <1>1, <2>3, <4>2, Zenon DEF Sends
      <4>. QED
        BY <4>1, <4>2
    <3>2. commands' \in Seq(Command)
      BY <1>1, <3>1
    <3>. QED
      BY <1>1, <1>4, <2>1, <3>1, <3>2, <3>3, <3>4 DEF engineVars
  <2>. QED
    BY <2>1, <2>2, <2>3
<1>6. CASE Engine
  <2>1. /\ UNCHANGED <<groups, uiVars, missed>> /\ left' \in [Spent -> Nat] /\ Takes
        /\ \E new \in Seq(Event) : Tells(new)
    BY <1>6, EngineSteps DEF StatusInv
  <2>2. events' \in Seq(Event)
    BY <1>1, <2>1, ConcatProperties DEF Tells
  <2>3. commands # <<>> =>
           Tail(commands) \in Seq(Command) /\ Head(commands) \in Command
    BY <1>1, TailFacts
  <2>4. /\ commands' \in Seq(Command) /\ serving' \in Command \cup {None}
        /\ running' \in Command \cup {None}
    BY <1>1, <2>1, <2>3 DEF Takes
  <2>5. tasks' \subseteq Command /\ twice' \in BOOLEAN
    BY <1>1, <1>6, <2>3 DEF Engine, TakeConnect, Connected, ConnectFails, TakeDisconnect,
       TakeTask, Take, PollTraffic, PollExited, TestAnswers, SpeedAnswers, FetchAnswers,
       engineVars, ghosts
  <2>. QED
    BY <1>1, <1>4, <2>1, <2>2, <2>4, <2>5 DEF uiVars
<1>7. CASE Apply
  <2>1. /\ UNCHANGED <<groups, current, selected, mode, commands, engineVars, left, missed,
                       twice>>
        /\ events # <<>> /\ events' = Tail(events)
        /\ status' = IF Head(events).e = "status" THEN Head(events).status ELSE status
        /\ IF Head(events).e = "finished" THEN testing' = FALSE ELSE UNCHANGED testing
    BY <1>7, ApplySteps
  <2>2. events' \in Seq(Event) /\ Head(events) \in Event
    BY <1>1, <2>1, TailFacts
  <2>3. status' \in Statuses
    BY <1>1, <2>1, <2>2, EventFields
  <2>4. testing' \in BOOLEAN
    <3>1. CASE Head(events).e = "finished"
      BY <2>1, <3>1, Zenon
    <3>2. CASE Head(events).e # "finished"
      BY <1>1, <2>1, <3>2, Zenon
    <3>. QED
      BY <3>1, <3>2
  <2>. QED
    BY <1>1, <1>4, <2>1, <2>2, <2>3, <2>4 DEF engineVars
<1>8. CASE UNCHANGED vars
  BY <1>8 DEF vars, uiVars, engineVars, ghosts, TypeOK
<1>. QED
  BY <1>5, <1>6, <1>7, <1>8 DEF Next

(***************************************************************************)
(* Commands come into play when they are sent, and only then.              *)
(***************************************************************************)
LEMMA EngineCommands ==
  ASSUME TypeOK, CommandInv, StatusInv, Engine
  PROVE  /\ InPlay' \subseteq InPlay
         /\ \A c \in {serving', running'} \ {None} : c.op = "connect"
         /\ \A c \in tasks' : c.op \in {"test", "speed", "fetch"}
         /\ IsFiniteSet(tasks')
<1>1. /\ Takes /\ commands \in Seq(Command) /\ IsFiniteSet(tasks)
      /\ serving \in Command \cup {None} /\ running \in Command \cup {None}
  BY EngineSteps DEF StatusInv, TypeOK, CommandInv
<1>2. commands # <<>> => /\ Head(commands) \in Range(commands) /\ Head(commands) \in Command
                         /\ Range(Tail(commands)) \subseteq Range(commands)
  BY <1>1, TailFacts
<1>3. /\ \A c \in {serving, running} \ {None} : c.op = "connect"
      /\ \A c \in tasks : c.op \in {"test", "speed", "fetch"}
  BY DEF CommandInv
<1>4. \/ tasks' \subseteq tasks
      \/ /\ commands # <<>> /\ Head(commands).op \in {"test", "speed", "fetch"}
         /\ tasks' = tasks \cup {Head(commands)}
  BY DEF Engine, TakeConnect, Connected, ConnectFails, TakeDisconnect, TakeTask, Take,
     PollTraffic, PollExited, TestAnswers, SpeedAnswers, FetchAnswers, engineVars
<1>5. IsFiniteSet(tasks')
  <2>1. IsFiniteSet(tasks \cup {Head(commands)})
    BY <1>1, FS_AddElement
  <2>2. tasks' \subseteq tasks \cup {Head(commands)}
    BY <1>4
  <2>. QED
    BY <2>1, <2>2, FS_Subset
<1>6. Range(commands)' \subseteq Range(commands)
  BY <1>1, <1>2 DEF Takes
<1>7. serving' \in {None, serving} \/ (commands # <<>> /\ serving' = Head(commands)
                                      /\ Head(commands).op = "connect")
  BY <1>1 DEF Takes
<1>8. running' \in {None, serving, running}
  BY <1>1 DEF Takes
<1>9. tasks' \subseteq InPlay
  BY <1>2, <1>4 DEF InPlay
<1>10. {serving', running'} \ {None} \subseteq InPlay
  BY <1>2, <1>7, <1>8 DEF InPlay
<1>11. InPlay' \subseteq InPlay
  BY <1>6, <1>9, <1>10 DEF InPlay
<1>12. \A c \in {serving', running'} \ {None} : c.op = "connect"
  BY <1>3, <1>7, <1>8
<1>13. \A c \in tasks' : c.op \in {"test", "speed", "fetch"}
  BY <1>3, <1>4
<1>. QED
  BY <1>5, <1>11, <1>12, <1>13

LEMMA CommandStep ==
  ASSUME TypeOK, CommandInv, StatusInv, [Next]_vars
  PROVE  CommandInv'
<1>1. /\ IsFiniteSet(tasks) /\ IsFiniteSet(DOMAIN rows)
      /\ commands \in Seq(Command) /\ events \in Seq(Event)
      /\ \A c \in {serving, running} \ {None} : c.op = "connect"
      /\ \A c \in tasks : c.op \in {"test", "speed", "fetch"}
      /\ \A c \in InPlay :
          /\ c.op = "connect" /\ c.id > 0 => \A p \in c.of : p[1] = c.id
          /\ c.op = "fetch" => -c.id \in groups
          /\ IsFiniteSet(c.of)
      /\ \A ev \in Range(events) : ev.e = "subscription" => ev.gid \in groups
  BY DEF CommandInv, TypeOK
<1>2. IsFiniteSet(DOMAIN rows)'
  BY RowsStep DEF KeepsRows
<1>3. ASSUME groups \subseteq groups', IsFiniteSet(tasks'), InPlay' \subseteq InPlay,
             \A c \in {serving', running'} \ {None} : c.op = "connect",
             \A c \in tasks' : c.op \in {"test", "speed", "fetch"},
             \A ev \in Range(events)' : ev.e = "subscription" => ev.gid \in groups'
      PROVE  CommandInv'
  BY <1>1, <1>2, <1>3 DEF CommandInv
<1>4. CASE Interface
  <2>1. UNCHANGED <<engineVars, events>> /\ (SendsNothing \/ \E c \in Command : Sends(c))
    BY <1>1, <1>4, UiSteps
  <2>2. CASE SendsNothing
    BY <1>1, <1>2, <2>1, <2>2 DEF SendsNothing, CommandInv, InPlay, engineVars
  <2>3. ASSUME NEW c \in Command, Sends(c)
        PROVE  CommandInv'
    <3>1. Range(commands)' = Range(commands) \cup {c}
      BY <1>1, <2>3, AppendFacts DEF Sends
    <3>2. InPlay' = InPlay \cup {c} /\ UNCHANGED <<serving, running, tasks, events>>
      BY <2>1, <3>1 DEF InPlay, engineVars
    <3>3. /\ groups \subseteq groups'
          /\ c.op = "connect" /\ c.id > 0 => \A p \in c.of : p[1] = c.id
          /\ c.op = "fetch" => -c.id \in groups'
          /\ IsFiniteSet(c.of)
      BY <2>3 DEF Sends
    <3>4. \A d \in InPlay' :
             /\ d.op = "connect" /\ d.id > 0 => \A p \in d.of : p[1] = d.id
             /\ d.op = "fetch" => -d.id \in groups'
             /\ IsFiniteSet(d.of)
      BY <1>1, <3>2, <3>3
    <3>5. \A ev \in Range(events)' : ev.e = "subscription" => ev.gid \in groups'
      BY <1>1, <3>2, <3>3
    <3>. QED
      BY <1>1, <1>2, <3>2, <3>4, <3>5 DEF CommandInv
  <2>. QED
    BY <2>1, <2>2, <2>3
<1>5. CASE Engine
  <2>1. groups' = groups
    BY <1>5, EngineSteps DEF StatusInv
  <2>2. PICK new \in Seq(Event) : Tells(new)
    BY <1>5, EngineSteps DEF StatusInv
  <2>3. Range(events)' = Range(events) \cup Range(new)
    <3>1. events' = events \o new
      BY <2>2 DEF Tells
    <3>2. Range(events \o new) = Range(events) \cup Range(new)
      BY <1>1, RangeConcatenation
    <3>. QED
      BY <3>1, <3>2, Zenon
  <2>4. \A ev \in Range(events)' : ev.e = "subscription" => ev.gid \in groups'
    BY <1>1, <2>1, <2>2, <2>3 DEF Tells
  <2>. QED
    BY <1>3, <1>5, <2>1, <2>4, EngineCommands
<1>6. CASE Apply
  <2>1. UNCHANGED <<groups, commands, engineVars>> /\ events # <<>> /\ events' = Tail(events)
    BY <1>6, ApplySteps
  <2>2. Range(events)' \subseteq Range(events)
    BY <1>1, <2>1, TailFacts
  <2>3. InPlay' = InPlay /\ UNCHANGED <<serving, running, tasks>>
    BY <2>1 DEF InPlay, engineVars
  <2>. QED
    BY <1>1, <1>3, <2>1, <2>2, <2>3
<1>7. CASE UNCHANGED vars
  BY <1>7 DEF vars, uiVars, engineVars, ghosts, CommandInv, InPlay
<1>. QED
  BY <1>4, <1>5, <1>6, <1>7 DEF Next

-----------------------------------------------------------------------------
(* What commands and events name *)

(***************************************************************************)
(* Unless it is overtaken, a step leaves every pair that a command or an   *)
(* event names with its row and its server.                                *)
(***************************************************************************)
LEMMA NamedPairsStay ==
  ASSUME CommandInv, NamedInv, KeepsRows, ~overtaken'
  PROVE  /\ \A c \in InPlay : c.op # "connect" \/ c.id > 0 => \A p \in c.of : Holds(p)'
         /\ \A ev \in Range(events) : ev.e = "result" => Holds(<<ev.id, ev.server>>)'
         /\ \A i \in DOMAIN events : events[i].e = "traffic" =>
               \E st : /\ Shows(i, st)
                       /\ st.id > 0 => \A s \in events[i].from : Holds(<<st.id, s>>)'
<1>1. /\ ~overtaken
      /\ \A id \in DOMAIN rows : id \in Named =>
            id \in DOMAIN rows' /\ rows'[id].server = rows[id].server
  BY DEF KeepsRows
<1>2. /\ \A c \in InPlay : c.op # "connect" \/ c.id > 0 => \A p \in c.of : Holds(p)
      /\ \A ev \in Range(events) : ev.e = "result" => Holds(<<ev.id, ev.server>>)
      /\ \A i \in DOMAIN events : events[i].e = "traffic" =>
            \E st \in {status} \cup {ev.status : ev \in {x \in Range(events) : x.e = "status"}} :
                /\ Shows(i, st)
                /\ st.id > 0 => \A s \in events[i].from : Holds(<<st.id, s>>)
  BY <1>1 DEF NamedInv
<1>. DEFINE resultIds == {ev.id : ev \in {x \in Range(events) : x.e = "result"}}
            statusIds == {ev.status.id : ev \in {x \in Range(events) : x.e = "status"}}
<1>7. resultIds \subseteq Named /\ statusIds \subseteq Named
  <2>. DEFINE commandIds == UNION {NamedBy(c) : c \in tasks \cup Range(commands)
                                                 \cup ({serving, running} \ {None})}
  <2>1. Named = {status.id} \cup commandIds \cup resultIds \cup statusIds
    BY DEF Named
  <2>. HIDE DEF commandIds, resultIds, statusIds
  <2>. QED
    BY <2>1
<1>3. ASSUME NEW p, Holds(p), p[1] \in Named
      PROVE  Holds(p)'
  BY <1>1, <1>3 DEF Holds
<1>4. ASSUME NEW c \in InPlay, c.op # "connect" \/ c.id > 0, NEW p \in c.of
      PROVE  Holds(p)'
  <2>1. Holds(p)
    BY <1>2, <1>4
  <2>2. p[1] \in NamedBy(c)
    BY <1>4 DEF NamedBy, CommandInv
  <2>3. p[1] \in Named
    BY <1>4, <2>2 DEF Named, InPlay
  <2>. QED
    BY <1>3, <2>1, <2>3
<1>5. ASSUME NEW ev \in Range(events), ev.e = "result"
      PROVE  Holds(<<ev.id, ev.server>>)'
  <2>1. Holds(<<ev.id, ev.server>>)
    BY <1>2, <1>5
  <2>2. ev.id \in resultIds
    BY <1>5
  <2>3. ev.id \in Named
    BY <1>7, <2>2, Zenon
  <2>. QED
    BY <1>3, <2>1, <2>3
<1>6. ASSUME NEW i \in DOMAIN events, events[i].e = "traffic"
      PROVE  \E st : /\ Shows(i, st)
                     /\ st.id > 0 => \A s \in events[i].from : Holds(<<st.id, s>>)'
  <2>1. PICK st \in {status} \cup {ev.status : ev \in {x \in Range(events) : x.e = "status"}} :
           /\ Shows(i, st)
           /\ st.id > 0 => \A s \in events[i].from : Holds(<<st.id, s>>)
    BY <1>2, <1>6
  <2>2. st.id \in Named
    <3>1. CASE st = status
      BY <3>1, Zenon DEF Named
    <3>2. ASSUME NEW ev \in {x \in Range(events) : x.e = "status"}, st = ev.status
          PROVE  st.id \in Named
      <4>1. st.id \in statusIds
        BY <3>2
      <4>. QED
        BY <1>7, <4>1, Zenon
    <3>. QED
      BY <2>1, <3>1, <3>2
  <2>3. ASSUME st.id > 0, NEW s \in events[i].from
        PROVE  Holds(<<st.id, s>>)'
    <3>1. Holds(<<st.id, s>>) /\ <<st.id, s>>[1] \in Named
      BY <2>1, <2>2, <2>3
    <3>. QED
      BY <1>3, <3>1
  <2>. QED
    BY <2>1, <2>3
<1>. QED
  BY <1>4, <1>5, <1>6

LEMMA ShownIsKnown ==
  ASSUME events' \in Seq(Event), NEW i \in 1 .. Len(events'), NEW st, Shows(i, st)'
  PROVE  st \in {status'} \cup {ev.status : ev \in {x \in Range(events') : x.e = "status"}}
<1>1. CASE st = status'
  BY <1>1
<1>2. CASE \E j \in 1 .. i - 1 : events'[j].e = "status" /\ events'[j].status = st
  <2>1. PICK j \in 1 .. i - 1 : events'[j].e = "status" /\ events'[j].status = st
    BY <1>2
  <2>2. j \in DOMAIN events'
    BY LenProperties
  <2>3. events'[j] \in Range(events')
    BY <2>2 DEF Range
  <2>. QED
    BY <2>1, <2>3
<1>. QED
  BY <1>1, <1>2 DEF Shows

LEMMA NamedStep ==
  ASSUME TypeOK, CommandInv, StatusInv, NamedInv, [Next]_vars
  PROVE  NamedInv'
<1>. SUFFICES ASSUME ~overtaken' PROVE NamedInv'
  BY DEF NamedInv
<1>1. /\ commands \in Seq(Command) /\ events \in Seq(Event) /\ events' \in Seq(Event)
      /\ Len(events) \in Nat /\ IsFiniteSet(DOMAIN rows)
  BY TypeStep DEF TypeOK, CommandInv
<1>2. /\ \A c \in InPlay : c.op # "connect" \/ c.id > 0 => \A p \in c.of : Holds(p)'
      /\ \A ev \in Range(events) : ev.e = "result" => Holds(<<ev.id, ev.server>>)'
      /\ \A i \in DOMAIN events : events[i].e = "traffic" =>
            \E st : /\ Shows(i, st)
                    /\ st.id > 0 => \A s \in events[i].from : Holds(<<st.id, s>>)'
  BY RowsStep, NamedPairsStay
<1>3. ASSUME \A c \in InPlay' : c.op # "connect" \/ c.id > 0 => \A p \in c.of : Holds(p)',
             \A ev \in Range(events') : ev.e = "result" => Holds(<<ev.id, ev.server>>)',
             \A i \in 1 .. Len(events') : events'[i].e = "traffic" =>
               \E st : /\ Shows(i, st)'
                       /\ st.id > 0 => \A s \in events'[i].from : Holds(<<st.id, s>>)'
      PROVE  NamedInv'
  <2>1. DOMAIN events' = 1 .. Len(events')
    BY <1>1, LenProperties
  <2>2. ASSUME NEW i \in DOMAIN events', events'[i].e = "traffic"
        PROVE  \E st \in {status'} \cup {ev.status : ev \in {x \in Range(events') : x.e = "status"}} :
                  /\ Shows(i, st)'
                  /\ st.id > 0 => \A s \in events'[i].from : Holds(<<st.id, s>>)'
    BY <1>1, <1>3, <2>1, <2>2, ShownIsKnown
  <2>. QED
    BY <1>3, <2>2 DEF NamedInv
<1>4. ASSUME UNCHANGED <<events, status>>, InPlay' \subseteq InPlay
      PROVE  NamedInv'
  <2>1. \A i, st : Shows(i, st) => Shows(i, st)'
    BY <1>4 DEF Shows
  <2>2. DOMAIN events = 1 .. Len(events')
    BY <1>1, <1>4, LenProperties
  <2>. QED
    BY <1>2, <1>3, <1>4, <2>1, <2>2
<1>5. CASE Interface
  <2>1. UNCHANGED <<status, engineVars, events>>
        /\ (SendsNothing \/ \E c \in Command : Sends(c))
    BY <1>1, <1>5, UiSteps
  <2>2. CASE SendsNothing
    <3>1. InPlay' = InPlay
      BY <2>1, <2>2 DEF SendsNothing, InPlay, engineVars
    <3>. QED
      BY <1>4, <2>1, <3>1
  <2>3. ASSUME NEW c \in Command, Sends(c)
        PROVE  NamedInv'
    <3>1. Range(commands)' = Range(commands) \cup {c} /\ rows' = rows
          /\ \A p \in c.of : Holds(p)
      BY <1>1, <2>3, AppendFacts DEF Sends
    <3>2. InPlay' = InPlay \cup {c}
      BY <2>1, <3>1 DEF InPlay, engineVars
    <3>3. \A p \in c.of : Holds(p)'
      BY <3>1 DEF Holds
    <3>4. \A i, st : Shows(i, st) => Shows(i, st)'
      BY <2>1 DEF Shows
    <3>5. DOMAIN events = 1 .. Len(events') /\ events' = events
      BY <1>1, <2>1, LenProperties
    <3>. QED
      BY <1>2, <1>3, <3>2, <3>3, <3>4, <3>5
  <2>. QED
    BY <2>1, <2>2, <2>3
<1>6. CASE Engine
  <2>1. UNCHANGED <<rows, status>> /\ overtaken' = overtaken
    BY <1>6, EngineSteps DEF StatusInv, uiVars
  <2>2. PICK new \in Seq(Event) : Tells(new)
    BY <1>6, EngineSteps DEF StatusInv
  <2>3. events' = events \o new
    BY <2>2 DEF Tells
  <2>4. /\ Len(new) \in Nat /\ Len(events') = Len(events) + Len(new)
        /\ DOMAIN events = 1 .. Len(events) /\ DOMAIN new = 1 .. Len(new)
        /\ \A i \in 1 .. Len(events') :
              events'[i] = IF i <= Len(events) THEN events[i] ELSE new[i - Len(events)]
    BY <1>1, <2>3, ConcatProperties, LenProperties
  <2>5. Range(events') = Range(events) \cup Range(new)
    <3>1. Range(events \o new) = Range(events) \cup Range(new)
      BY <1>1, RangeConcatenation
    <3>. QED
      BY <2>3, <3>1, Zenon
  <2>6. InPlay' \subseteq InPlay
    BY <1>6, EngineCommands
  <2>7. ASSUME NEW ev \in Range(events'), ev.e = "result"
        PROVE  Holds(<<ev.id, ev.server>>)'
    <3>1. CASE ev \in Range(events)
      BY <1>2, <2>7, <3>1
    <3>2. CASE ev \in Range(new)
      <4>1. PICK t \in tasks : t.op # "connect" /\ <<ev.id, ev.server>> \in t.of
        BY <2>2, <2>7, <3>2 DEF Tells
      <4>. QED
        BY <1>2, <4>1 DEF InPlay
    <3>. QED
      BY <2>5, <3>1, <3>2
  <2>8. ASSUME NEW i \in 1 .. Len(events'), events'[i].e = "traffic"
        PROVE  \E st : /\ Shows(i, st)'
                       /\ st.id > 0 => \A s \in events'[i].from : Holds(<<st.id, s>>)'
    <3>1. CASE i <= Len(events)
      <4>1. i \in 1 .. Len(events) + 1 /\ i \in DOMAIN events /\ events'[i] = events[i]
        BY <1>1, <2>4, <3>1
      <4>2. PICK st : /\ Shows(i, st)
                      /\ st.id > 0 => \A s \in events[i].from : Holds(<<st.id, s>>)'
        BY <1>2, <2>8, <4>1
      <4>3. Shows(i, st)'
        BY <2>1, <2>3, <4>1, <4>2, ShownBeforeNews
      <4>. QED
        BY <4>1, <4>2, <4>3
    <3>2. CASE i > Len(events)
      <4>1. PICK ev : ev = events'[i]
        OBVIOUS
      <4>2. i - Len(events) \in DOMAIN new /\ ev = new[i - Len(events)] /\ ev.e = "traffic"
        BY <1>1, <2>4, <2>8, <3>2, <4>1
      <4>3. ev \in Range(new)
        BY <4>2 DEF Range
      <4>4. /\ serving = None /\ running # None /\ ev.from = {p[2] : p \in running.of}
            /\ new = <<ev>>
        BY <2>2, <4>2, <4>3 DEF Tells
      <4>5. Len(new) = 1 /\ i = Len(events) + 1 /\ \A j \in DOMAIN new : new[j].e # "status"
        BY <1>1, <2>4, <3>2, <4>2, <4>4
      <4>6. PICK st : st = Stage
        OBVIOUS
      <4>7. st = [k |-> "connected", id |-> running.id] /\ Shows(Len(events) + 1, st)
        BY <4>4, <4>6 DEF Stage, StatusInv
      <4>8. Shows(i, st)'
        <5>1. PICK n \in Nat : n = Len(events) + 1
          BY <1>1
        <5>2. Shows(n, st)'
          BY <2>1, <2>3, <4>5, <4>7, <5>1, ShownBeforeNews
        <5>. QED
          BY <4>5, <5>1, <5>2
      <4>9. ASSUME st.id > 0, NEW s \in ev.from
            PROVE  Holds(<<st.id, s>>)'
        <5>1. /\ running \in Command /\ running \in InPlay /\ running.op = "connect"
              /\ running.id = st.id
          BY <4>4, <4>7 DEF TypeOK, InPlay, CommandInv
        <5>2. PICK p \in running.of : s = p[2]
          BY <4>4, <4>9
        <5>3. p[1] = st.id /\ p \in Ids \X Servers
          BY <4>9, <5>1, <5>2, CommandFields DEF CommandInv
        <5>4. p = <<st.id, s>>
          BY <5>2, <5>3
        <5>. QED
          BY <1>2, <4>9, <5>1, <5>2, <5>4
      <4>. QED
        BY <4>1, <4>8, <4>9
    <3>. QED
      BY <1>1, <3>1, <3>2
  <2>. QED
    BY <1>2, <1>3, <2>6, <2>7, <2>8
<1>7. CASE Apply
  <2>1. /\ UNCHANGED <<commands, engineVars>> /\ events # <<>> /\ events' = Tail(events)
        /\ status' = IF Head(events).e = "status" THEN Head(events).status ELSE status
    BY <1>7, ApplySteps
  <2>2. InPlay' = InPlay
    BY <2>1 DEF InPlay, engineVars
  <2>3. /\ DOMAIN events = 1 .. Len(events) /\ Len(events') = Len(events) - 1
        /\ Range(events') \subseteq Range(events)
        /\ \A i \in 1 .. Len(events') : events'[i] = events[i + 1]
    BY <1>1, <2>1, TailFacts
  <2>4. ASSUME NEW i \in 1 .. Len(events'), events'[i].e = "traffic"
        PROVE  \E st : /\ Shows(i, st)'
                       /\ st.id > 0 => \A s \in events'[i].from : Holds(<<st.id, s>>)'
    <3>1. PICK j \in DOMAIN events : j = i + 1 /\ events[j] = events'[i]
      BY <1>1, <2>3
    <3>2. PICK st : /\ Shows(j, st)
                    /\ st.id > 0 => \A s \in events[j].from : Holds(<<st.id, s>>)'
      BY <1>2, <2>4, <3>1
    <3>3. Shows(i, st)'
      <4>1. i \in 1 .. Len(events) /\ Shows(i + 1, st)
        BY <1>1, <2>3, <3>1, <3>2
      <4>. QED
        BY <2>1, <4>1, ShownAfterApply
    <3>. QED
      BY <3>1, <3>2, <3>3
  <2>. QED
    BY <1>2, <1>3, <2>2, <2>3, <2>4
<1>8. CASE UNCHANGED vars
  <2>1. UNCHANGED <<events, status, commands, serving, running, tasks>>
    BY <1>8 DEF vars, uiVars, engineVars
  <2>. QED
    BY <1>4, <2>1 DEF InPlay
<1>. QED
  BY <1>5, <1>6, <1>7, <1>8 DEF Next

-----------------------------------------------------------------------------
(* Whose history a row has *)

(***************************************************************************)
(* What an event tells of a row goes to a row of that server.              *)
(***************************************************************************)
LEMMA NoForeignHistory ==
  ASSUME KeepsRows, NoHistory, HistoryIsOwn
  PROVE  HistoryIsOwn'
<1>. SUFFICES ASSUME ~overtaken', NEW id \in DOMAIN rows'
              PROVE  /\ rows'[id].latency \in {rows'[id].server, None}
                     /\ rows'[id].traffic \subseteq {rows'[id].server}
  BY DEF HistoryIsOwn
<1>1. \A old \in DOMAIN rows : /\ rows[old].latency \in {rows[old].server, None}
                               /\ rows[old].traffic \subseteq {rows[old].server}
  BY DEF KeepsRows, HistoryIsOwn
<1>2. CASE rows'[id].latency = None /\ rows'[id].traffic = {}
  BY <1>2
<1>3. CASE \E old \in DOMAIN rows : /\ rows'[id].server = rows[old].server
                                    /\ rows'[id].latency = rows[old].latency
                                    /\ rows'[id].traffic = rows[old].traffic
  BY <1>1, <1>3
<1>. QED
  BY <1>2, <1>3 DEF NoHistory

LEMMA HistoryStep ==
  ASSUME TypeOK, CommandInv, StatusInv, NamedInv, HistoryIsOwn, [Next]_vars
  PROVE  HistoryIsOwn'
<1>1. /\ IsFiniteSet(DOMAIN rows) /\ events \in Seq(Event) /\ DOMAIN rows \subseteq Ids
      /\ KeepsRows
      /\ \A id \in DOMAIN rows : rows[id] \in Row
  BY RowsStep DEF CommandInv, TypeOK
<1>2. ASSUME UNCHANGED <<rows, overtaken>> PROVE HistoryIsOwn'
  BY <1>2 DEF HistoryIsOwn
<1>3. CASE Interface
  <2>1. SendsNothing \/ \E c \in Command : Sends(c)
    BY <1>1, <1>3, UiSteps
  <2>2. CASE SendsNothing
    <3>1. ASSUME NEW s \in Servers, AddLink(s) PROVE HistoryIsOwn'
      BY <1>1, <3>1, AddLinkRows, NoForeignHistory
    <3>2. CASE DeleteSelected
      BY <1>1, <3>2, DeleteRows, NoForeignHistory
    <3>. QED
      BY <1>2, <2>2, <3>1, <3>2 DEF SendsNothing
  <2>3. CASE \E c \in Command : Sends(c)
    BY <1>2, <2>3 DEF Sends
  <2>. QED
    BY <2>1, <2>2, <2>3
<1>4. CASE Engine
  BY <1>2, <1>4, EngineSteps DEF StatusInv
<1>5. CASE ApplyStatus \/ ApplyFinished
  BY <1>2, <1>5 DEF ApplyStatus, ApplyFinished, ghosts
<1>6. CASE apply_subscription
  BY <1>1, <1>6, SubscriptionRows, NoForeignHistory
<1>7. ASSUME ApplyTraffic \/ ApplyResult, ~overtaken'
      PROVE  /\ ~overtaken /\ events # <<>>
             /\ \A id \in DOMAIN rows : /\ rows[id].latency \in {rows[id].server, None}
                                        /\ rows[id].traffic \subseteq {rows[id].server}
  BY <1>1, <1>7 DEF KeepsRows, HistoryIsOwn, ApplyTraffic, ApplyResult, Received
<1>8. CASE ApplyTraffic
  <2>. SUFFICES ASSUME ~overtaken', NEW id \in DOMAIN rows'
                PROVE  /\ rows'[id].latency \in {rows'[id].server, None}
                       /\ rows'[id].traffic \subseteq {rows'[id].server}
    BY DEF HistoryIsOwn
  <2>1. /\ events # <<>> /\ Head(events).e = "traffic"
        /\ rows' = [x \in DOMAIN rows |-> IF x = status.id
                      THEN [rows[x] EXCEPT !.traffic = @ \cup Head(events).from] ELSE rows[x]]
    BY <1>8 DEF ApplyTraffic, Received
  <2>2. 1 \in DOMAIN events /\ Head(events) = events[1]
    BY <1>1, <2>1, TailFacts
  <2>3. CASE id # status.id
    BY <1>7, <1>8, <2>1, <2>3
  <2>4. CASE id = status.id
    <3>1. PICK st : /\ Shows(1, st)
                    /\ st.id > 0 => \A s \in events[1].from : Holds(<<st.id, s>>)
      BY <1>7, <1>8, <2>1, <2>2 DEF NamedInv
    <3>2. st = status
      BY <3>1 DEF Shows
    <3>3. id \in DOMAIN rows /\ id > 0
      BY <1>1, <2>1 DEF Ids
    <3>4. \A s \in Head(events).from : rows[id].server = s
      BY <2>2, <2>4, <3>1, <3>2, <3>3 DEF Holds
    <3>5. rows'[id] = [rows[id] EXCEPT !.traffic = @ \cup Head(events).from]
      BY <2>1, <2>4, <3>3
    <3>6. /\ rows'[id].server = rows[id].server /\ rows'[id].latency = rows[id].latency
          /\ rows'[id].traffic = rows[id].traffic \cup Head(events).from
      BY <1>1, <3>3, <3>5 DEF Row
    <3>. QED
      BY <1>7, <1>8, <3>3, <3>4, <3>6
  <2>. QED
    BY <2>3, <2>4
<1>9. CASE ApplyResult
  <2>. SUFFICES ASSUME ~overtaken', NEW id \in DOMAIN rows'
                PROVE  /\ rows'[id].latency \in {rows'[id].server, None}
                       /\ rows'[id].traffic \subseteq {rows'[id].server}
    BY DEF HistoryIsOwn
  <2>1. /\ events # <<>> /\ Head(events).e = "result"
        /\ rows' = [x \in DOMAIN rows |-> IF x = Head(events).id
                      THEN [rows[x] EXCEPT !.latency = Head(events).server] ELSE rows[x]]
    BY <1>9 DEF ApplyResult, Received
  <2>2. Head(events) \in Range(events)
    BY <1>1, <2>1, TailFacts
  <2>3. CASE id # Head(events).id
    BY <1>7, <1>9, <2>1, <2>3
  <2>4. CASE id = Head(events).id
    <3>1. Holds(<<id, Head(events).server>>)
      BY <1>7, <1>9, <2>1, <2>2, <2>4 DEF NamedInv
    <3>2. id \in DOMAIN rows /\ rows[id].server = Head(events).server
      BY <3>1 DEF Holds
    <3>3. rows'[id] = [rows[id] EXCEPT !.latency = Head(events).server]
      BY <2>1, <2>4, <3>2
    <3>4. /\ rows'[id].server = rows[id].server /\ rows'[id].traffic = rows[id].traffic
          /\ rows'[id].latency = Head(events).server
      BY <1>1, <3>2, <3>3 DEF Row
    <3>. QED
      BY <1>7, <1>9, <3>2, <3>4
  <2>. QED
    BY <2>3, <2>4
<1>10. CASE UNCHANGED vars
  BY <1>2, <1>10 DEF vars, ghosts
<1>. QED
  BY <1>3, <1>4, <1>5, <1>6, <1>8, <1>9, <1>10 DEF Next, Apply

-----------------------------------------------------------------------------
(* The invariant holds *)

LEMMA LibraryInit ==
  ASSUME Init
  PROVE  LibraryInv
<1>1. rows = <<>> /\ DOMAIN rows = {} /\ tasks = {} /\ commands = <<>> /\ events = <<>>
      /\ serving = None /\ running = None /\ testing = FALSE /\ status = Off
      /\ groups = {1} /\ current = 1 /\ overtaken = FALSE /\ missed = FALSE /\ twice = FALSE
  BY DEF Init
<1>2. IsFiniteSet({}) /\ Range(<<>>) = {} /\ Len(<<>>) = 0 /\ DOMAIN <<>> = {}
  BY FS_EmptySet DEF Range
<1>3. InPlay = {}
  BY <1>1, <1>2 DEF InPlay
<1>4. TypeOK
  <2>1. 1 \in Groups
    <3>1. MaxGroups \in Nat \ {0}
      BY LibraryAssumption, Zenon
    <3>. QED
      BY <3>1 DEF Groups
  <2>2. left \in [Spent -> Nat]
    BY LibraryAssumption DEF Init
  <2>3. /\ overtaken \in BOOLEAN /\ missed \in BOOLEAN /\ twice \in BOOLEAN
        /\ testing \in BOOLEAN
    BY <1>1
  <2>4. mode \in Modes /\ selected \in Targets /\ status \in Statuses
    BY DEF Init, Modes, Targets, Statuses, Off
  <2>. QED
    BY <1>1, <2>1, <2>2, <2>3, <2>4 DEF TypeOK
<1>5. CommandInv
  BY <1>1, <1>2, <1>3 DEF CommandInv
<1>6. StatusInv
  BY <1>1, <1>2 DEF StatusInv, Shows, Stage
<1>7. ModeInv
  BY <1>1, <1>2 DEF ModeInv
<1>8. TestInv
  <2>1. Queued = {} /\ UnderWay = {} /\ Ended = {}
    BY <1>1, <1>2 DEF Queued, UnderWay, Ended
  <2>. QED
    BY <1>1, <2>1 DEF TestInv
<1>9. NamedInv
  BY <1>1, <1>2, <1>3 DEF NamedInv
<1>10. HistoryIsOwn
  BY <1>1 DEF HistoryIsOwn
<1>. QED
  BY <1>4, <1>5, <1>6, <1>7, <1>8, <1>9, <1>10 DEF LibraryInv

(***************************************************************************)
(* The library is sound: every state is well formed, every command and     *)
(* event names what it should, and the stage, the mode and the test that   *)
(* the interface shows are accounted for by what is queued, under way or   *)
(* reported (state.rs, ui/window.rs, engine.rs).                           *)
(***************************************************************************)
THEOREM LibraryIsSound == Spec => []LibraryInv
<1>1. Init => LibraryInv
  BY LibraryInit
<1>2. LibraryInv /\ [Next]_vars => LibraryInv'
  BY TypeStep, CommandStep, StatusStep, ModeStep, TestStep, NamedStep, HistoryStep DEF LibraryInv
<1>. QED
  BY <1>1, <1>2, PTL DEF Spec

(***************************************************************************)
(* The variables have their types: a row belongs to a group there is, and  *)
(* ids are positive however many rows are added.                           *)
(***************************************************************************)
THEOREM LibraryTypeCorrect == Spec => []TypeOK
<1>1. LibraryInv => TypeOK
  BY DEF LibraryInv
<1>. QED
  BY <1>1, LibraryIsSound, PTL

(***************************************************************************)
(* Latency and traffic are of a row's own server, unless a row was removed *)
(* under a command or an event that names it (apply_event in state.rs).    *)
(***************************************************************************)
THEOREM HistoryIsKeptApart == Spec => []HistoryIsOwn
<1>1. LibraryInv => HistoryIsOwn
  BY DEF LibraryInv
<1>. QED
  BY <1>1, LibraryIsSound, PTL

-----------------------------------------------------------------------------
(* The test that is shown *)

LEMMA AtMostOne ==
  ASSUME NEW S, IsFiniteSet(S)
  PROVE  /\ Cardinality(S) \in Nat
         /\ S = {} <=> Cardinality(S) = 0
         /\ S # {} /\ (\A x, y \in S : x = y) => Cardinality(S) = 1
<1>1. Cardinality(S) \in Nat /\ (S = {} <=> Cardinality(S) = 0)
  BY FS_CardinalityType, FS_EmptySet
<1>2. ASSUME S # {}, \A x, y \in S : x = y
      PROVE  Cardinality(S) = 1
  <2>1. PICK x \in S : S = {x}
    BY <1>2
  <2>. QED
    BY <2>1, FS_Singleton
<1>. QED
  BY <1>1, <1>2

(***************************************************************************)
(* The button shows a test exactly while there is one queued, under way or *)
(* about to report its end, unless one reported its end twice (the         *)
(* testing flag of ui/window.rs).                                          *)
(***************************************************************************)
THEOREM TestingIsTold == Spec => []TestingTells
<1>1. ASSUME LibraryInv PROVE TestingTells
  <2>1. TestInv /\ commands \in Seq(Command) /\ events \in Seq(Event) /\ IsFiniteSet(tasks)
    BY <1>1 DEF LibraryInv, TypeOK, CommandInv
  <2>2. IsFiniteSet(DOMAIN commands) /\ IsFiniteSet(DOMAIN events)
    BY <2>1, LenProperties, FS_Interval
  <2>3. IsFiniteSet(Queued) /\ IsFiniteSet(UnderWay) /\ IsFiniteSet(Ended)
    <3>1. Queued \subseteq DOMAIN commands /\ UnderWay \subseteq tasks
          /\ Ended \subseteq DOMAIN events
      BY DEF Queued, UnderWay, Ended
    <3>. QED
      BY <2>1, <2>2, <3>1, FS_Subset
  <2>4. ASSUME NEW S \in {Queued, UnderWay, Ended}
        PROVE  /\ Cardinality(S) \in Nat
               /\ S = {} <=> Cardinality(S) = 0
               /\ S # {} /\ (\A x, y \in S : x = y) => Cardinality(S) = 1
    BY <2>3, AtMostOne
  <2>5. testing => LatencyTests > 0
    BY <2>1, <2>4 DEF TestInv, LatencyTests
  <2>6. ASSUME ~twice
        PROVE  LatencyTests = IF testing THEN 1 ELSE 0
    BY <2>1, <2>4, <2>6 DEF TestInv, LatencyTests
  <2>. QED
    BY <2>5, <2>6 DEF TestingTells
<1>. QED
  BY <1>1, LibraryIsSound, PTL

-----------------------------------------------------------------------------
(* The connection that is shown *)

(***************************************************************************)
(* Once everything is served and shown, the connection that is shown is    *)
(* the one that runs, in the mode of the switch unless that change was     *)
(* missed (apply_event in state.rs, the switch of ui/window.rs).           *)
(***************************************************************************)
THEOREM ConnectionIsShown == Spec => []ConnectionShown
<1>1. ASSUME LibraryInv, Settled PROVE
        /\ status.k = "connected" <=> running # None
        /\ status.k # "connecting"
        /\ running # None => /\ status.id = running.id
                             /\ running.mode = mode \/ missed
  <2>1. commands = <<>> /\ serving = None /\ events = <<>> /\ StatusInv /\ ModeInv
    BY <1>1 DEF LibraryInv, Settled
  <2>2. Len(events) + 1 = 1
    BY <2>1
  <2>3. PICK st : st = Stage
    OBVIOUS
  <2>4. Shows(1, st)
    BY <2>1, <2>2, <2>3 DEF StatusInv
  <2>5. status = Stage
    BY <2>3, <2>4 DEF Shows
  <2>6. running # None => running.mode = mode \/ missed
    BY <2>1 DEF ModeInv
  <2>. QED
    BY <2>1, <2>5, <2>6 DEF Stage, Off
<1>2. LibraryInv => ConnectionShown
  BY <1>1 DEF ConnectionShown
<1>. QED
  BY <1>2, LibraryIsSound, PTL

-----------------------------------------------------------------------------
(* What an update of a subscription leaves *)

LEMMA UpdatedRows ==
  ASSUME TypeOK, IsFiniteSet(DOMAIN rows), NEW g \in Groups, NEW list \in Lists,
         rows' = replace_group_profiles(g, list)
  PROVE  Updated(g, list)
<1>8. Replaced(g, list, rows')
  BY ReplacedRows
<1>. DEFINE kept  == Unmoved(g)
            fresh == NewIds(g, list)
            now   == {id \in DOMAIN rows' : rows'[id].gid = g}
<1>1. /\ DOMAIN list = 1 .. Len(list)
      /\ fresh \cap kept = {} /\ Cardinality(fresh) = Len(list)
      /\ DOMAIN rows' = kept \cup fresh
      /\ \A id \in kept : rows'[id] = rows[id]
      /\ \A id \in fresh :
            \E i \in 1 .. Len(list) :
               /\ rows'[id] \in Row /\ rows'[id].gid = g /\ rows'[id].server = list[i]
               /\ IF Former(g, list[i]) = {} THEN rows'[id] = NewRow(g, list[i])
                  ELSE \E old \in Former(g, list[i]) : rows'[id] = rows[old]
      /\ \A i \in 1 .. Len(list) : \E id \in fresh : rows'[id].server = list[i]
  BY <1>8 DEF Replaced
<1>2. kept \subseteq DOMAIN rows /\ \A id \in kept : rows[id].gid # g
  BY DEF Unmoved, InGroup
<1>3. RowsBut(InGroup(g)) = [id \in kept |-> rows[id]]
  BY DEF RowsBut, Unmoved
<1>. HIDE DEF kept, fresh
<1>4. now = fresh
  BY <1>1, <1>2
<1>. HIDE DEF now
<1>5. RowsBut(InGroup(g)) = [id \in DOMAIN rows' \ now |-> rows'[id]]
  <2>1. DOMAIN rows' \ now = kept
    BY <1>1, <1>4
  <2>. QED
    BY <1>1, <1>3, <2>1
<1>6. {rows'[id].server : id \in now} = Range(list)
  <2>1. ASSUME NEW id \in now
        PROVE  rows'[id].server \in Range(list)
    <3>1. PICK i \in 1 .. Len(list) : rows'[id].server = list[i]
      BY <1>1, <1>4
    <3>. QED
      BY <1>1, <3>1 DEF Range
  <2>2. ASSUME NEW s \in Range(list)
        PROVE  \E id \in now : rows'[id].server = s
    <3>1. PICK i \in 1 .. Len(list) : s = list[i]
      BY <1>1 DEF Range
    <3>. QED
      BY <1>1, <1>4, <3>1
  <2>. QED
    BY <2>1, <2>2
<1>7. ASSUME NEW id \in now,
             NEW same, same = {old \in InGroup(g) : rows[old].server = rows'[id].server}
      PROVE  HistoryOf(rows'[id]) \in IF same = {} THEN {<<None, {}>>}
                                      ELSE {HistoryOf(rows[old]) : old \in same}
  <2>1. PICK s : /\ rows'[id].server = s
                 /\ IF Former(g, s) = {} THEN rows'[id] = NewRow(g, s)
                    ELSE \E old \in Former(g, s) : rows'[id] = rows[old]
    BY <1>1, <1>4
  <2>2. same = Former(g, s)
    BY <1>7, <2>1 DEF Former
  <2>3. CASE same = {}
    BY <2>1, <2>2, <2>3 DEF HistoryOf, NewRow
  <2>4. CASE same # {}
    <3>1. PICK old \in same : rows'[id] = rows[old]
      BY <2>1, <2>2, <2>4
    <3>. QED
      BY <2>4, <3>1
  <2>. QED
    BY <2>3, <2>4
<1>. QED
  BY <1>1, <1>4, <1>5, <1>6, <1>7 DEF Updated, now

(***************************************************************************)
(* A subscription update leaves the group with the servers it brought,     *)
(* each with the history it had, and touches no other group                *)
(* (replace_group_profiles of the store).                                  *)
(***************************************************************************)
THEOREM UpdatesKeepHistory == Spec => HistoryKept
<1>1. ASSUME LibraryInv, [Next]_vars, NEW g \in Groups, NEW list \in Lists,
             events # <<>>, events' = Tail(events),
             Head(events) = [e |-> "subscription", gid |-> g, list |-> list]
      PROVE  Updated(g, list)
  <2>1. /\ TypeOK /\ CommandInv /\ StatusInv /\ IsFiniteSet(DOMAIN rows)
        /\ events \in Seq(Event)
    BY <1>1 DEF LibraryInv, CommandInv, TypeOK
  <2>2. Len(events) \in Nat /\ Len(events') = Len(events) - 1
    BY <1>1, <2>1, TailFacts
  <2>3. CASE Interface
    BY <2>1, <2>2, <2>3, UiSteps
  <2>4. CASE Engine
    <3>1. PICK new \in Seq(Event) : events' = events \o new
      BY <2>1, <2>4, EngineSteps DEF StatusInv, Tells
    <3>2. Len(events') = Len(events) + Len(new) /\ Len(new) \in Nat
      BY <2>1, <3>1, ConcatProperties, LenProperties
    <3>. QED
      BY <2>2, <3>2
  <2>5. CASE UNCHANGED vars
    BY <2>2, <2>5 DEF vars
  <2>6. CASE Apply
    <3>1. Head(events).e = "subscription" /\ Head(events).gid = g /\ Head(events).list = list
      BY <1>1
    <3>2. apply_subscription
      BY <2>6, <3>1 DEF Apply, ApplyStatus, ApplyTraffic, ApplyResult, ApplyFinished, Received
    <3>3. rows' = replace_group_profiles(g, list)
      BY <3>1, <3>2 DEF apply_subscription
    <3>. QED
      BY <2>1, <3>3, UpdatedRows
  <2>. QED
    BY <1>1, <2>3, <2>4, <2>5, <2>6 DEF Next
<1>2. LibraryInv /\ [Next]_vars =>
         [\A g \in Groups, list \in Lists :
            events # <<>> /\ events' = Tail(events)
            /\ Head(events) = [e |-> "subscription", gid |-> g, list |-> list]
            => Updated(g, list)]_vars
  BY <1>1
<1>. QED
  BY <1>2, LibraryIsSound, PTL DEF Spec, HistoryKept
=============================================================================
