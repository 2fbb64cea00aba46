-------------------------- MODULE ChatPageProofs --------------------------
(***************************************************************************)
(* Proofs about ChatPage: its types; the page never waits for nothing; and *)
(* unless the user walked away from a request, it never has more than one  *)
(* turn under way, shows the conversation it writes to, shows nothing      *)
(* twice, and, as long as nothing fails, shows with each question what was *)
(* said to it.                                                             *)
(***************************************************************************)
EXTENDS ChatPage, FiniteSetTheorems, TLAPS

(* A set of naturals that is not empty has a least element.                *)
LEMMA LeastElement ==
  ASSUME NEW T, T \subseteq Nat, T # {}
  PROVE  \E x \in T : \A y \in T : x <= y
<1>1. PICK x \in T : \A y \in T : ~(<<y, x>> \in OpToRel(<, Nat))
  BY NatLessThanWellFounded, WFMin
<1>2. \A y \in T : ~(y < x)
  BY <1>1 DEF OpToRel
<1> QED BY <1>2

(* A bounded one that is not empty has a greatest.                         *)
LEMMA GreatestElement ==
  ASSUME NEW m \in Nat, NEW T, T \subseteq 0 .. m, T # {}
  PROVE  Max(T) \in T /\ \A y \in T : y <= Max(T)
<1> DEFINE U == {u \in Nat : \A y \in T : y <= u}
<1>1. m \in U
  OBVIOUS
<1>2. PICK u \in U : \A v \in U : u <= v
  BY <1>1, LeastElement
<1>3. u \in T
  <2> SUFFICES ASSUME u \notin T PROVE FALSE
    OBVIOUS
  <2>1. u \in Nat /\ \A y \in T : y \in Nat /\ y <= u
    OBVIOUS
  <2>2. \A y \in T : y <= u - 1
    BY <2>1
  <2>3. PICK y \in T : TRUE
    OBVIOUS
  <2>4. u - 1 \in Nat
    BY <2>1, <2>2, <2>3
  <2>5. u - 1 \in U
    BY <2>2, <2>4
  <2> QED BY <1>2, <2>1, <2>5
<1>4. \E x \in T : \A y \in T : x >= y
  BY <1>3
<1>5. Max(T) \in T /\ \A y \in T : Max(T) >= y
  BY <1>4 DEF Max
<1> QED BY <1>5

(* Ranks are numbers, from none to all.                                    *)
LEMMA RankType ==
  ASSUME NEW m \in Nat, NEW S, S \subseteq 1 .. m
  PROVE  /\ IsFiniteSet(S) /\ Cardinality(S) \in Nat /\ Cardinality(S) <= m
         /\ \A i \in Nat : Rank(S, i) \in Nat /\ Rank(S, i) <= Cardinality(S)
         /\ Rank(S, 0) = 0 /\ Rank(S, m) = Cardinality(S)
<1>1. IsFiniteSet(1 .. m) /\ Cardinality(1 .. m) = m
  BY FS_Interval
<1>2. S \in SUBSET (1 .. m)
  OBVIOUS
<1>3. IsFiniteSet(S) /\ Cardinality(S) <= m /\ Cardinality(S) \in Nat
  BY <1>1, <1>2, FS_Subset, FS_CardinalityType
<1>4. ASSUME NEW i \in Nat
      PROVE  Rank(S, i) \in Nat /\ Rank(S, i) <= Cardinality(S)
  <2> DEFINE A == S \cap (1 .. i)
  <2>1. A \in SUBSET S
    OBVIOUS
  <2> HIDE DEF A
  <2>2. IsFiniteSet(A) /\ Cardinality(A) <= Cardinality(S) /\ Cardinality(A) \in Nat
    BY <1>3, <2>1, FS_Subset, FS_CardinalityType
  <2> QED BY <2>2 DEF Rank, A
<1>5. S \cap (1 .. 0) = {}
  OBVIOUS
<1>6. S \cap (1 .. m) = S
  OBVIOUS
<1> QED BY <1>3, <1>4, <1>5, <1>6, FS_EmptySet DEF Rank

(* One index more counts one more, if it is in the set.                    *)
LEMMA RankStep ==
  ASSUME NEW m \in Nat, NEW S, S \subseteq 1 .. m, NEW i \in Nat, i # 0
  PROVE  /\ i - 1 \in Nat
         /\ i \in S => Rank(S, i) = Rank(S, i - 1) + 1
         /\ i \notin S => Rank(S, i) = Rank(S, i - 1)
<1> DEFINE A == S \cap (1 .. i - 1)
<1>1. i - 1 \in Nat /\ i \notin A
  OBVIOUS
<1>2. /\ i \in S => S \cap (1 .. i) = A \cup {i}
      /\ i \notin S => S \cap (1 .. i) = A
  OBVIOUS
<1>3. A \in SUBSET S /\ IsFiniteSet(S)
  BY RankType
<1> HIDE DEF A
<1>4. IsFiniteSet(A)
  BY <1>3, FS_Subset
<1>5. Cardinality(A \cup {i}) = Cardinality(A) + 1
  BY <1>1, <1>4, FS_AddElement
<1>6. Rank(S, i - 1) = Cardinality(A)
  BY DEF Rank, A
<1> QED BY <1>1, <1>2, <1>5, <1>6 DEF Rank

(* The n-th index is one of the set, and n of the set are up to it.        *)
LEMMA NthRank ==
  ASSUME NEW m \in Nat, NEW S, S \subseteq 1 .. m, NEW n \in 1 .. Cardinality(S)
  PROVE  Nth(S, n) \in S /\ Rank(S, Nth(S, n)) = n
<1> DEFINE U == {i \in Nat : Rank(S, i) >= n}
<1>c. Cardinality(S) \in Nat /\ n \in Nat /\ n >= 1 /\ n <= Cardinality(S)
  <2>1. Cardinality(S) \in Nat
    BY RankType
  <2> QED BY <2>1
<1>1. m \in U
  BY <1>c, RankType
<1>2. U \subseteq Nat
  OBVIOUS
<1>3. PICK i \in U : \A j \in U : i <= j
  <2> HIDE DEF U
  <2> QED BY <1>1, <1>2, LeastElement
<1>4. i \in Nat /\ Rank(S, i) >= n
  OBVIOUS
<1>5. i # 0
  <2>1. Rank(S, 0) = 0
    BY RankType
  <2> QED BY <1>c, <1>4, <2>1
<1>6. /\ i - 1 \in Nat
      /\ i \in S => Rank(S, i) = Rank(S, i - 1) + 1
      /\ i \notin S => Rank(S, i) = Rank(S, i - 1)
  BY <1>4, <1>5, RankStep
<1>7. ~(Rank(S, i - 1) >= n)
  <2>1. i - 1 \notin U
    BY <1>3, <1>4
  <2> QED BY <1>6, <2>1
<1>8. Rank(S, i) \in Nat /\ Rank(S, i - 1) \in Nat
  BY <1>4, <1>6, RankType
<1>9. i \in S /\ Rank(S, i) = n
  BY <1>c, <1>4, <1>6, <1>7, <1>8
<1> QED BY <1>9 DEF Nth

(* Ranks grow with the indexes.                                            *)
LEMMA RankGrows ==
  ASSUME NEW m \in Nat, NEW S, S \subseteq 1 .. m, NEW i \in Nat, NEW j \in S, i < j
  PROVE  Rank(S, i) < Rank(S, j)
<1>1. j \in Nat /\ j # 0 /\ j - 1 \in Nat /\ i <= j - 1
  OBVIOUS
<1> DEFINE A == S \cap (1 .. i)
           B == S \cap (1 .. j - 1)
<1>2. A \in SUBSET B /\ B \in SUBSET S
  BY <1>1
<1> HIDE DEF A, B
<1>3. IsFiniteSet(S)
  BY RankType
<1>4. IsFiniteSet(B)
  BY <1>2, <1>3, FS_Subset
<1>5. Cardinality(A) <= Cardinality(B)
  BY <1>2, <1>4, FS_Subset
<1>6. Rank(S, i) = Cardinality(A) /\ Rank(S, j - 1) = Cardinality(B)
  BY DEF A, B, Rank
<1>7. Rank(S, j) = Rank(S, j - 1) + 1
  BY ZenonT(60), <1>1, RankStep
<1>8. Rank(S, i) \in Nat /\ Rank(S, j - 1) \in Nat
  BY <1>1, RankType
<1> QED BY <1>5, <1>6, <1>7, <1>8

(* Every index of the set is the one its rank names.                       *)
LEMMA NthOfRank ==
  ASSUME NEW m \in Nat, NEW S, S \subseteq 1 .. m, NEW i \in S
  PROVE  Rank(S, i) \in 1 .. Cardinality(S) /\ Nth(S, Rank(S, i)) = i
<1> DEFINE n == Rank(S, i)
<1>1. i \in Nat /\ 0 < i /\ 0 \in Nat
  OBVIOUS
<1>2. n \in 1 .. Cardinality(S)
  <2>1. n \in Nat /\ n <= Cardinality(S) /\ Cardinality(S) \in Nat /\ Rank(S, 0) = 0
    BY <1>1, RankType
  <2>2. Rank(S, 0) < n
    BY <1>1, RankGrows
  <2> HIDE DEF n
  <2> QED BY <2>1, <2>2
<1>3. Nth(S, n) \in S /\ Rank(S, Nth(S, n)) = n
  <2> HIDE DEF n
  <2> QED BY <1>2, NthRank
<1>4. n \in Nat /\ Nth(S, n) \in Nat
  <2>1. n \in Nat
    BY <1>1, RankType
  <2>2. \A j \in S : j \in Nat
    OBVIOUS
  <2> QED BY <1>3, <2>1, <2>2
<1>5. ~(Nth(S, n) < i) /\ ~(i < Nth(S, n))
  <2>1. Nth(S, n) < i => Rank(S, Nth(S, n)) < n
    BY <1>4, RankGrows
  <2>2. i < Nth(S, n) => n < Rank(S, Nth(S, n))
    BY <1>1, <1>3, RankGrows
  <2> QED BY <1>3, <1>4, <2>1, <2>2
<1>6. Nth(S, n) = i
  BY <1>1, <1>4, <1>5
<1> QED BY <1>2, <1>6

(* The n-th indexes come in the order of n.                                *)
LEMMA NthGrows ==
  ASSUME NEW m \in Nat, NEW S, S \subseteq 1 .. m,
         NEW n \in 1 .. Cardinality(S), NEW l \in 1 .. Cardinality(S), n < l
  PROVE  Nth(S, n) < Nth(S, l)
<1>1. /\ Nth(S, n) \in S /\ Rank(S, Nth(S, n)) = n
      /\ Nth(S, l) \in S /\ Rank(S, Nth(S, l)) = l
  BY NthRank
<1>2. Nth(S, n) \in Nat /\ Nth(S, l) \in Nat
  <2>1. \A j \in S : j \in Nat
    OBVIOUS
  <2> QED BY <1>1, <2>1
<1>3. ~(Nth(S, l) < Nth(S, n))
  <2>1. Nth(S, l) < Nth(S, n) => Rank(S, Nth(S, l)) < Rank(S, Nth(S, n))
    BY <1>1, <1>2, RankGrows
  <2> QED BY <1>1, <2>1
<1>4. Nth(S, l) # Nth(S, n)
  BY <1>1
<1> QED BY <1>2, <1>3, <1>4
----------------------------------------------------------------------------
(* The messages picked are those at the indexes.                           *)
LEMMA PickedIs ==
  ASSUME NEW msgs, Len(msgs) \in Nat, NEW S, S \subseteq 1 .. Len(msgs)
  PROVE  \A n \in 1 .. Cardinality(S) :
           /\ Picked(msgs, S)[n] = msgs[Nth(S, n)]
           /\ Nth(S, n) \in S /\ Nth(S, n) \in 1 .. Len(msgs)
<1>1. \A n \in 1 .. Cardinality(S) : Nth(S, n) \in S
  BY NthRank
<1> QED BY <1>1 DEF Picked

(* They are as many as the indexes, and of the same kind.                  *)
LEMMA PickedAt ==
  ASSUME NEW M, NEW msgs \in Seq(M), NEW S, S \subseteq 1 .. Len(msgs)
  PROVE  /\ Picked(msgs, S) \in Seq(M)
         /\ Len(Picked(msgs, S)) = Cardinality(S) /\ Cardinality(S) \in Nat
         /\ \A n \in 1 .. Cardinality(S) :
              /\ Picked(msgs, S)[n] = msgs[Nth(S, n)]
              /\ Nth(S, n) \in S /\ Nth(S, n) \in 1 .. Len(msgs)
<1>1. Len(msgs) \in Nat /\ \A i \in 1 .. Len(msgs) : msgs[i] \in M
  OBVIOUS
<1>2. Cardinality(S) \in Nat
  BY <1>1, RankType
<1>3. \A n \in 1 .. Cardinality(S) : Nth(S, n) \in S /\ Nth(S, n) \in 1 .. Len(msgs)
  BY <1>1, NthRank
<1>4. \A n \in 1 .. Cardinality(S) : msgs[Nth(S, n)] \in M
  BY <1>1, <1>3
<1> QED BY <1>2, <1>3, <1>4 DEF Picked

(* The agents' messages and the thinking log are messages of the chat.     *)
LEMMA PickedKinds ==
  ASSUME NEW msgs \in Seq(Message)
  PROVE  /\ Agents(msgs) \in Seq(Message) /\ Thinking(msgs) \in Seq(Message)
         /\ \A n \in 1 .. Len(Agents(msgs)) :
              \E i \in 1 .. Len(msgs) : Agents(msgs)[n] = msgs[i]
         /\ \A n \in 1 .. Len(Thinking(msgs)) :
              \E i \in 1 .. Len(msgs) : Thinking(msgs)[n] = msgs[i]
<1>1. \A S : S \subseteq 1 .. Len(msgs) =>
        /\ Picked(msgs, S) \in Seq(Message)
        /\ \A n \in 1 .. Len(Picked(msgs, S)) :
             \E i \in 1 .. Len(msgs) : Picked(msgs, S)[n] = msgs[i]
  <2> SUFFICES ASSUME NEW S, S \subseteq 1 .. Len(msgs)
               PROVE  /\ Picked(msgs, S) \in Seq(Message)
                      /\ \A n \in 1 .. Len(Picked(msgs, S)) :
                           \E i \in 1 .. Len(msgs) : Picked(msgs, S)[n] = msgs[i]
    OBVIOUS
  <2>1. /\ Picked(msgs, S) \in Seq(Message)
        /\ Len(Picked(msgs, S)) = Cardinality(S)
    BY PickedAt
  <2>2. Len(msgs) \in Nat
    OBVIOUS
  <2>3. \A n \in 1 .. Cardinality(S) : /\ Picked(msgs, S)[n] = msgs[Nth(S, n)]
                                        /\ Nth(S, n) \in 1 .. Len(msgs)
    BY <2>2, PickedIs
  <2> QED BY <2>1, <2>3
<1> QED BY <1>1 DEF Agents, Thinking

(* What splitTurns knows of a chat: its replies, and the last question or  *)
(* reply before each of them.                                              *)
RepliesOf(msgs)  == {i \in 1 .. Len(msgs) : msgs[i].kind = "reply"}
SaidTo(msgs, e)  == {i \in 1 .. e - 1 : msgs[i].kind # "thinking"}
Before(msgs, e)  == IF SaidTo(msgs, e) = {} THEN 0 ELSE Max(SaidTo(msgs, e))
TurnTo(msgs, e)  ==
  [question |-> IF Before(msgs, e) > 0 /\ msgs[Before(msgs, e)].kind = "ask"
                  THEN msgs[Before(msgs, e)].of ELSE None,
   messages |-> SubSeq(msgs, Before(msgs, e) + 1, e), answer |-> msgs[e]]

(* With these, splitTurns reads ...                                        *)
LEMMA SplitForm ==
  ASSUME NEW msgs
  PROVE  Split(msgs) = [n \in 1 .. Cardinality(RepliesOf(msgs)) |->
                          TurnTo(msgs, Nth(RepliesOf(msgs), n))]
BY DEF Split, RepliesOf, SaidTo, Before, TurnTo

(* ... where that last one is.                                             *)
LEMMA BeforeAt ==
  ASSUME NEW msgs \in Seq(Message), NEW e \in 1 .. Len(msgs)
  PROVE  LET b == Before(msgs, e)
         IN  /\ b \in Nat /\ b < e
             /\ b > 0 => b \in 1 .. Len(msgs) /\ msgs[b].kind # "thinking"
             /\ \A i \in 1 .. e - 1 : i > b => msgs[i].kind = "thinking"
<1> DEFINE T == SaidTo(msgs, e)
<1>1. T \subseteq 1 .. e - 1 /\ e - 1 \in Nat /\ Len(msgs) \in Nat /\ e \in Nat
      /\ e <= Len(msgs)
  BY DEF SaidTo
<1>2. CASE T = {}
  BY <1>1, <1>2 DEF Before, SaidTo
<1>3. CASE T # {}
  <2>1. T \subseteq 0 .. e - 1
    BY <1>1
  <2> HIDE DEF T
  <2>2. Max(T) \in T /\ \A y \in T : y <= Max(T)
    BY <1>1, <1>3, <2>1, GreatestElement
  <2>3. Before(msgs, e) = Max(T)
    BY <1>3 DEF Before, T
  <2> DEFINE b == Max(T)
  <2>4. b \in T /\ \A y \in T : y <= b
    BY <2>2
  <2> HIDE DEF b
  <2>5. /\ b \in Nat /\ b < e /\ b \in 1 .. Len(msgs) /\ msgs[b].kind # "thinking"
    BY <1>1, <2>4 DEF T, SaidTo
  <2>6. \A i \in 1 .. e - 1 : i > b => msgs[i].kind = "thinking"
    BY <1>1, <2>4, <2>5 DEF T, SaidTo
  <2> QED BY <2>3, <2>5, <2>6 DEF b
<1> QED BY <1>2, <1>3

(* A finished turn is a part of its chat that ends with its reply.         *)
LEMMA TurnToType ==
  ASSUME NEW msgs \in Seq(Message), NEW e \in RepliesOf(msgs)
  PROVE  LET t == TurnTo(msgs, e)
             b == Before(msgs, e)
         IN  /\ t \in Turn
             /\ t.answer = msgs[e]
             /\ Len(t.messages) = e - b
             /\ \A i \in 1 .. e - b : /\ t.messages[i] = msgs[b + i]
                                      /\ b + i \in 1 .. Len(msgs)
<1> DEFINE b == Before(msgs, e)
           t == TurnTo(msgs, e)
<1>1. e \in 1 .. Len(msgs) /\ e \in Nat /\ Len(msgs) \in Nat /\ e <= Len(msgs)
  BY DEF RepliesOf
<1>2. /\ b \in Nat /\ b < e
      /\ b > 0 => b \in 1 .. Len(msgs)
  BY <1>1, BeforeAt
<1> HIDE DEF b
<1>3. /\ SubSeq(msgs, b + 1, e) \in Seq(Message)
      /\ Len(SubSeq(msgs, b + 1, e)) = e - b
      /\ \A i \in 1 .. e - b : SubSeq(msgs, b + 1, e)[i] = msgs[b + i]
  BY SMTT(30), <1>1, <1>2
<1>4. \A i \in 1 .. e - b : b + i \in 1 .. Len(msgs)
  BY <1>1, <1>2
<1>5. /\ msgs[e] \in Message
      /\ b > 0 => msgs[b] \in Message
  BY <1>1, <1>2
<1>6. (IF b > 0 /\ msgs[b].kind = "ask" THEN msgs[b].of ELSE None)
        \in Question \cup {None}
  BY <1>5 DEF Message
<1>7. t = [question |-> IF b > 0 /\ msgs[b].kind = "ask" THEN msgs[b].of ELSE None,
           messages |-> SubSeq(msgs, b + 1, e), answer |-> msgs[e]]
  BY DEF TurnTo, b
<1> HIDE DEF t
<1>8. t \in Turn /\ t.answer = msgs[e] /\ t.messages = SubSeq(msgs, b + 1, e)
  BY <1>3, <1>5, <1>6, <1>7 DEF Turn
<1> QED BY <1>3, <1>4, <1>8 DEF b, t

(* splitTurns finds one finished turn for each reply, in their order.      *)
LEMMA SplitAt ==
  ASSUME NEW msgs \in Seq(Message)
  PROVE  /\ Split(msgs) \in Seq(Turn)
         /\ Len(Split(msgs)) = Cardinality(RepliesOf(msgs))
         /\ \A n \in 1 .. Len(Split(msgs)) :
              /\ Nth(RepliesOf(msgs), n) \in RepliesOf(msgs)
              /\ Split(msgs)[n] = TurnTo(msgs, Nth(RepliesOf(msgs), n))
<1> DEFINE R == RepliesOf(msgs)
<1>1. R \subseteq 1 .. Len(msgs) /\ Len(msgs) \in Nat
  BY DEF RepliesOf
<1>2. Cardinality(R) \in Nat
  BY <1>1, RankType
<1>3. \A n \in 1 .. Cardinality(R) : Nth(R, n) \in R
  BY <1>1, NthRank
<1>4. \A n \in 1 .. Cardinality(R) : TurnTo(msgs, Nth(R, n)) \in Turn
  BY <1>3, TurnToType
<1>5. Split(msgs) = [n \in 1 .. Cardinality(R) |-> TurnTo(msgs, Nth(R, n))]
  BY SplitForm
<1> HIDE DEF R
<1> QED BY <1>2, <1>3, <1>4, <1>5 DEF R

(* The offset of a loaded chat is a number.                                *)
LEMMA ShownType ==
  ASSUME NEW turns \in Seq(Turn)
  PROVE  /\ Shown(turns) \in Nat
         /\ IsFiniteSet(UNION {{i} \X (1 .. Len(turns[i].messages)) : i \in 1 .. Len(turns)})
<1> DEFINE n == Len(turns)
           L(i) == Len(turns[i].messages)
<1>1. n \in Nat /\ \A i \in 1 .. n : L(i) \in Nat
  <2>1. \A i \in 1 .. n : turns[i] \in Turn
    OBVIOUS
  <2>2. \A t \in Turn : Len(t.messages) \in Nat
    BY DEF Turn
  <2> QED BY <2>1, <2>2
<1> DEFINE P(i) == {i} \X (1 .. L(i))
<1>2. \A i \in 1 .. n : IsFiniteSet(P(i))
  <2> SUFFICES ASSUME NEW i \in 1 .. n PROVE IsFiniteSet(P(i))
    OBVIOUS
  <2>1. L(i) \in Int /\ 1 \in Int
    BY <1>1
  <2>2. IsFiniteSet(1 .. L(i))
    BY <2>1, FS_Interval
  <2>3. IsFiniteSet({i})
    BY FS_Singleton
  <2> QED BY <2>2, <2>3, FS_Product
<1>3. IsFiniteSet({P(i) : i \in 1 .. n})
  <2> DEFINE f == [i \in 1 .. n |-> P(i)]
             T == {P(i) : i \in 1 .. n}
  <2>1. f \in Surjection(1 .. n, T)
    BY DEF Surjection
  <2>2. IsFiniteSet(1 .. n)
    BY <1>1, FS_Interval
  <2> HIDE DEF f, T
  <2>3. IsFiniteSet(T)
    BY <2>1, <2>2, FS_Surjection
  <2> QED BY <2>3 DEF T
<1>4. IsFiniteSet(UNION {P(i) : i \in 1 .. n})
  BY <1>2, <1>3, FS_UNION
<1>5. Cardinality(UNION {P(i) : i \in 1 .. n}) \in Nat
  BY <1>4, FS_CardinalityType
<1> QED BY <1>4, <1>5 DEF Shown
----------------------------------------------------------------------------
(* The shape of the two records: their fields, whatever most of them hold. *)
PageFields == {"session", "url", "loading", "error", "question", "messages",
               "answer", "completed", "conversation", "active", "offset",
               "socket", "polls", "deaf"}
CallFields == {"op", "conv", "n", "pc", "copy"}

IsPage(p) ==
  /\ p = [f \in PageFields |-> p[f]]
  /\ p.loading \in BOOLEAN
  /\ p.url \in Conv \cup {None}
  /\ p.conversation \in Conv \cup {None}
IsCall(k) ==
  /\ k = [f \in CallFields |-> k[f]]
  /\ k.op \in {"new", "continue", "load"}
  /\ k.conv \in Conv

(* While a request is in flight that the user did not walk away from, it   *)
(* is the only one and the page waits for it without a socket.             *)
OneRequest ==
  ~crossed /\ calls # {} =>
    page.loading /\ page.socket = None /\ \E k \in calls : calls = {k}

(* A socket of a turn that the user did not walk away from is waited on.   *)
SocketIsAwaited == ~crossed /\ page.socket # None => page.loading

IInv ==
  /\ IsPage(page)
  /\ \A k \in calls : IsCall(k)
  /\ crossed \in BOOLEAN
  /\ WaitIsCovered
  /\ OneRequest
  /\ SocketIsAwaited
----------------------------------------------------------------------------
(* What the helpers on the page's record do to the fields the invariant    *)
(* reads.                                                                  *)
Same(p, q) == q.url = p.url /\ q.conversation = p.conversation

(* The blank page waits for nothing.                                       *)
LEMMA BlankFields ==
  /\ IsPage(Blank)
  /\ Blank.loading = FALSE /\ Blank.socket = None /\ Blank.deaf = FALSE
BY DEF IsPage, Blank, PageFields

(* Closing the socket leaves the rest of the page alone.                   *)
LEMMA DisconnectedFields ==
  ASSUME NEW p, IsPage(p)
  PROVE  LET q == Disconnected(p) IN
         IsPage(q) /\ Same(p, q) /\ q.socket = None /\ q.loading = p.loading
BY DEF IsPage, PageFields, Disconnected, Same

(* After endConversation the page neither waits nor listens.               *)
LEMMA EndedFields ==
  ASSUME NEW p, IsPage(p)
  PROVE  LET q == Ended(p) IN
         IsPage(q) /\ Same(p, q) /\ q.socket = None /\ q.loading = FALSE
<1> DEFINE d == Disconnected(p)
           q == Ended(p)
<1>1. IsPage(d) /\ Same(p, d) /\ d.socket = None
  BY DisconnectedFields
<1>2. q = [d EXCEPT !.active = None, !.loading = FALSE]
  BY DEF Ended
<1> HIDE DEF d, q
<1>3. IsPage(q) /\ Same(p, q) /\ q.socket = None /\ q.loading = FALSE
  BY <1>1, <1>2 DEF IsPage, PageFields, Same
<1> QED
  BY <1>3 DEF q

(* A subscription is to the conversation whose errors the page takes.      *)
LEMMA SubscribedFields ==
  ASSUME NEW p, IsPage(p), NEW c \in Conv
  PROVE  LET q == Subscribed(p, c) IN
         IsPage(q) /\ Same(p, q) /\ q.socket = c /\ q.active = c /\ q.loading = p.loading
BY DEF IsPage, PageFields, Subscribed, Same

(* The callback of a POST subscribes.                                      *)
LEMMA StartedFields ==
  ASSUME NEW p, IsPage(p), NEW k, IsCall(k)
  PROVE  LET q == Started(p, k) IN
         IsPage(q) /\ q.socket = k.conv /\ q.active = k.conv /\ q.loading = p.loading
<1> DEFINE r == IF k.op = "new" THEN [p EXCEPT !.conversation = k.conv] ELSE p
<1>1. IsPage(r) /\ r.loading = p.loading
  BY DEF IsPage, IsCall, PageFields
<1>2. k.conv \in Conv
  BY DEF IsCall
<1> HIDE DEF r
<1>3. LET q == Subscribed(r, k.conv) IN
      IsPage(q) /\ q.socket = k.conv /\ q.active = k.conv /\ q.loading = r.loading
  BY <1>1, <1>2, SubscribedFields
<1> QED
  BY <1>1, <1>3 DEF Started, r

(* The callback of getChat touches neither the socket nor the wait.        *)
LEMMA LoadedFields ==
  ASSUME NEW p, IsPage(p), NEW turns
  PROVE  LET q == Loaded(p, turns) IN
         IsPage(q) /\ Same(p, q) /\ q.socket = p.socket /\ q.loading = p.loading
<1>1. CASE turns = << >>
  BY <1>1 DEF Loaded, Same
<1>2. CASE turns # << >>
  BY <1>2 DEF Loaded, Same, IsPage, PageFields
<1> QED
  BY <1>1, <1>2
----------------------------------------------------------------------------
(* The invariant holds of the blank page.                                  *)
LEMMA InitIInv == Init => IInv
<1> SUFFICES ASSUME Init PROVE IInv
  OBVIOUS
<1>1. page = Blank /\ calls = {} /\ crossed = FALSE
  BY DEF Init
<1> QED
  BY <1>1, BlankFields DEF IInv, WaitIsCovered, OneRequest, SocketIsAwaited

(* A request is a call of its kind.                                        *)
LEMMA RequestIsCall ==
  ASSUME NEW op \in {"new", "continue", "load"}, NEW c \in Conv, NEW n
  PROVE  IsCall(Request(op, c, n))
BY DEF IsCall, CallFields, Request

(* A step after which the page waits for one new request and listens to    *)
(* nothing keeps the invariant: what a message or a loading begins with.   *)
LEMMA NewRequest ==
  ASSUME IInv, NEW k, IsCall(k), calls' = calls \cup {k},
         IsPage(page'), page'.loading = TRUE, page'.socket = None,
         crossed' \in BOOLEAN, ~crossed' => calls = {}
  PROVE  IInv'
<1>1. \A j \in calls' : IsCall(j)
  BY DEF IInv
<1>2. WaitIsCovered'
  BY DEF WaitIsCovered
<1>3. OneRequest'
  BY DEF OneRequest
<1>4. SocketIsAwaited'
  BY DEF SocketIsAwaited
<1> QED
  BY <1>1, <1>2, <1>3, <1>4 DEF IInv

(* A step that leaves the requests alone and after which the page neither  *)
(* waits nor listens keeps it, if no request is awaited.                   *)
LEMMA AtRest ==
  ASSUME IInv, UNCHANGED <<calls, crossed>>,
         IsPage(page'), page'.loading = FALSE, page'.socket = None,
         ~crossed => calls = {}
  PROVE  IInv'
BY DEF IInv, WaitIsCovered, OneRequest, SocketIsAwaited

(* Unless the user walked away, nothing is in flight while a page listens  *)
(* or takes input.                                                         *)
LEMMA NothingInFlight ==
  ASSUME IInv, ~crossed, page.socket # None \/ ~page.loading
  PROVE  calls = {}
BY DEF IInv, OneRequest
----------------------------------------------------------------------------
(* Navigating away from a request sets the history variable; otherwise     *)
(* nothing was in flight, and a page that is not reset stays as it is.     *)
LEMMA NavigateIInv ==
  ASSUME IInv, NEW s \in BOOLEAN, NEW u \in Conv \cup {None}, Navigate(s, u)
  PROVE  IInv'
<1> DEFINE p == SessionReset(page, s \/ page.session)
           loads == u # None /\ u # page.url
           q == IF loads THEN ChatReset(p) ELSE p
<1>1. IsPage(p) /\ (p = page \/ p = Blank)
  BY BlankFields DEF SessionReset, IInv
<1>2. page' = [q EXCEPT !.session = s, !.url = u]
  BY DEF Navigate
<1>3. crossed' = (crossed \/ calls # {}) /\ crossed \in BOOLEAN
  BY DEF Navigate, IInv
<1>4. CASE loads
  <2>1. calls' = calls \cup {Request("load", u, acts)}
    BY <1>4 DEF Navigate
  <2>2. IsCall(Request("load", u, acts))
    BY <1>4, RequestIsCall
  <2>3. page' = [[Blank EXCEPT !.question = p.question, !.loading = TRUE]
                   EXCEPT !.session = s, !.url = u]
    BY <1>2, <1>4 DEF ChatReset
  <2> HIDE DEF p, loads, q
  <2>4. IsPage(page') /\ page'.loading = TRUE /\ page'.socket = None
    BY <2>3 DEF Blank, IsPage, PageFields
  <2> QED
    BY <2>1, <2>2, <2>4, <1>3, NewRequest
<1>5. CASE ~loads
  <2>1. calls' = calls
    BY <1>5 DEF Navigate
  <2>2. page' = [p EXCEPT !.session = s, !.url = u]
    BY <1>2, <1>5
  <2> HIDE DEF p, loads, q
  <2>3. /\ IsPage(page') /\ page'.loading = p.loading
        /\ page'.socket = p.socket /\ page'.active = p.active /\ page'.deaf = p.deaf
    BY <2>2, <1>1 DEF IsPage, PageFields
  <2>4. CASE p = page
    BY <2>1, <2>3, <2>4, <1>3 DEF IInv, WaitIsCovered, OneRequest, SocketIsAwaited
  <2>5. CASE p = Blank
    BY <2>1, <2>3, <2>5, <1>3, BlankFields
       DEF IInv, WaitIsCovered, OneRequest, SocketIsAwaited
  <2> QED
    BY <2>4, <2>5, <1>1
<1> QED
  BY <1>4, <1>5

(* A first message begins a wait.                                          *)
LEMMA SearchIInv ==
  ASSUME IInv, NEW c \in Conv, Search(c)
  PROVE  IInv'
<1> DEFINE p == Disconnected(page)
<1>1. IsPage(p) /\ p.socket = None
  BY DisconnectedFields DEF IInv
<1>2. page' = [p EXCEPT !.loading = TRUE, !.error = FALSE, !.answer = None,
                !.messages = << >>, !.completed = << >>, !.offset = 0,
                !.question = [conv |-> c, turn |-> 1]]
  BY DEF Search
<1> HIDE DEF p
<1>3. IsPage(page') /\ page'.loading = TRUE /\ page'.socket = None
  BY <1>1, <1>2 DEF IsPage, PageFields
<1>4. calls' = calls \cup {Request("new", c, 1)} /\ IsCall(Request("new", c, 1))
  BY RequestIsCall DEF Search
<1>5. crossed' = crossed /\ crossed \in BOOLEAN /\ ~page.loading
  BY DEF Search, IInv
<1> QED
  BY <1>3, <1>4, <1>5, NothingInFlight, NewRequest

(* So does every further one.                                              *)
LEMMA ContinueIInv ==
  ASSUME IInv, Continue
  PROVE  IInv'
<1> DEFINE c == Addressee
           t == sent[c] + 1
           p == Disconnected(page)
           over == [question |-> page.question, answer |-> page.answer,
                    messages |-> Thinking(page.messages)]
<1>1. IsPage(p) /\ p.socket = None
  BY DisconnectedFields DEF IInv
<1>2. page' = [p EXCEPT !.loading = TRUE, !.error = FALSE, !.answer = None,
                !.messages = << >>, !.offset = NextOffset(page),
                !.question = [conv |-> c, turn |-> t],
                !.completed = IF page.question = None THEN @ ELSE Append(@, over)]
  BY DEF Continue
<1>3. c \in Conv
  BY DEF Continue, Addressee, IInv, IsPage
<1>4. calls' = calls \cup {Request("continue", c, t)}
  BY DEF Continue
<1>5. IsCall(Request("continue", c, t))
  BY <1>3, RequestIsCall
<1>6. crossed' = crossed /\ crossed \in BOOLEAN /\ ~page.loading
  BY DEF Continue, IInv
<1> HIDE DEF p, c, t, over
<1>7. IsPage(page') /\ page'.loading = TRUE /\ page'.socket = None
  BY <1>1, <1>2 DEF IsPage, PageFields
<1> QED
  BY <1>4, <1>5, <1>6, <1>7, NothingInFlight, NewRequest

(* A call that changes its stage is still the same call in flight.         *)
LEMMA StageIInv ==
  ASSUME IInv, NEW k \in calls, NEW j, IsCall(j),
         calls' = (calls \ {k}) \cup {j}, UNCHANGED <<page, crossed>>
  PROVE  IInv'
<1>1. \A i \in calls' : IsCall(i)
  BY DEF IInv
<1>2. calls' # {} /\ WaitIsCovered'
  BY DEF WaitIsCovered
<1>3. OneRequest' /\ SocketIsAwaited'
  BY DEF IInv, OneRequest, SocketIsAwaited
<1> QED
  BY <1>1, <1>2, <1>3 DEF IInv

(* The backend answers a call, or a failure does.                          *)
LEMMA ServeIInv ==
  ASSUME IInv, NEW k, Serve(k)
  PROVE  IInv'
<1>1. k \in calls /\ IsCall(k) /\ UNCHANGED <<page, crossed>>
  BY DEF Serve, IInv
<1>2. CASE k.op = "load"
  <2> DEFINE j == [k EXCEPT !.pc = "answered", !.copy = Split(chat[k.conv])]
  <2>1. calls' = (calls \ {k}) \cup {j}
    BY <1>2 DEF Serve
  <2>2. IsCall(j)
    BY <1>1 DEF IsCall, CallFields
  <2> QED
    BY <1>1, <2>1, <2>2, StageIInv
<1>3. CASE k.op # "load"
  <2> DEFINE j == [k EXCEPT !.pc = "answered"]
  <2>1. calls' = (calls \ {k}) \cup {j}
    BY <1>3 DEF Serve
  <2>2. IsCall(j)
    BY <1>1 DEF IsCall, CallFields
  <2> QED
    BY <1>1, <2>1, <2>2, StageIInv
<1> QED
  BY <1>2, <1>3

(* A call that fails has its callback still to come.                       *)
LEMMA CallFailsIInv ==
  ASSUME IInv, NEW k, CallFails(k)
  PROVE  IInv'
<1> DEFINE j == [k EXCEPT !.pc = "failed", !.copy = << >>]
<1>1. k \in calls /\ IsCall(k) /\ UNCHANGED <<page, crossed>>
  BY DEF CallFails, IInv
<1>2. calls' = (calls \ {k}) \cup {j}
  BY DEF CallFails
<1>3. IsCall(j)
  BY <1>1 DEF IsCall, CallFields
<1> QED
  BY <1>1, <1>2, <1>3, StageIInv

(* The callback of a call either ends the wait or opens the socket the     *)
(* page then waits on.                                                     *)
LEMMA SettleIInv ==
  ASSUME IInv, NEW k, Settle(k)
  PROVE  IInv'
<1>1. k \in calls /\ IsCall(k) /\ IsPage(page) /\ crossed' = crossed
  BY DEF Settle, IInv
<1>2. calls' = calls \ {k} /\ \A j \in calls' : IsCall(j)
  BY DEF Settle, IInv
<1>3. ~crossed => calls' = {} /\ page.loading /\ page.socket = None
  BY <1>1, <1>2 DEF IInv, OneRequest
<1>4. CASE k.pc = "failed" \/ k.op = "load"
  <2>1. IsPage(page') /\ page'.loading = FALSE /\ page'.socket = page.socket
    <3>1. CASE k.pc = "failed"
      <4>1. page' = [page EXCEPT !.loading = FALSE, !.error = TRUE]
        BY <3>1 DEF Settle
      <4> QED
        BY <4>1, <1>1 DEF IsPage, PageFields
    <3>2. CASE k.pc # "failed" /\ k.op = "load"
      <4> DEFINE p == Loaded(page, k.copy)
      <4>1. page' = [p EXCEPT !.loading = FALSE]
        BY <3>2 DEF Settle
      <4>2. IsPage(p) /\ p.socket = page.socket
        BY <1>1, LoadedFields
      <4> HIDE DEF p
      <4> QED
        BY <4>1, <4>2 DEF IsPage, PageFields
    <3> QED
      BY <3>1, <3>2, <1>4
  <2> QED
    BY <1>1, <1>2, <1>3, <2>1 DEF IInv, WaitIsCovered, OneRequest, SocketIsAwaited
<1>5. CASE k.pc # "failed" /\ k.op # "load"
  <2>1. page' = Started(page, k)
    BY <1>5 DEF Settle
  <2>2. /\ IsPage(page') /\ page'.loading = page.loading
        /\ page'.socket = k.conv /\ page'.active = k.conv
    BY <1>1, <2>1, StartedFields
  <2>3. k.conv # None
    BY <1>1, PageAssumption DEF IsCall
  <2> QED
    BY <1>1, <1>2, <1>3, <2>2, <2>3
       DEF IInv, WaitIsCovered, OneRequest, SocketIsAwaited
<1> QED
  BY <1>4, <1>5
----------------------------------------------------------------------------
(* An event of the socket comes only when nothing is in flight, or after   *)
(* the user walked away; it ends the wait with the subscription, or        *)
(* neither.                                                                *)
LEMMA GivenUpIInv ==
  ASSUME IInv, page.socket # None, page' = GivenUp, UNCHANGED <<calls, crossed>>
  PROVE  IInv'
<1> DEFINE p == Ended(page)
<1>1. IsPage(p) /\ p.socket = None /\ p.loading = FALSE
  BY EndedFields DEF IInv
<1>2. page' = [p EXCEPT !.error = TRUE]
  BY DEF GivenUp
<1> HIDE DEF p
<1>3. IsPage(page') /\ page'.socket = None /\ page'.loading = FALSE
  BY <1>1, <1>2 DEF IsPage, PageFields
<1> QED
  BY <1>3, NothingInFlight, AtRest

(* An update ends the wait with the reply, or leaves the page waiting.     *)
LEMMA PollFindsIInv ==
  ASSUME IInv, PollFinds
  PROVE  IInv'
<1> DEFINE msgs == chat[page.socket]
           all  == Agents(msgs)
           seen == [page EXCEPT !.polls = @ + 1,
                                !.messages = SubSeq(all, page.offset + 1, Len(all))]
<1>1. page.socket # None /\ UNCHANGED <<calls, crossed>> /\ IsPage(page)
  BY DEF PollFinds, Connected, IInv
<1>2. page' = IF Replied(msgs)
                THEN [Ended(seen) EXCEPT !.answer = msgs[Len(msgs)]] ELSE seen
  BY DEF PollFinds
<1>3. /\ IsPage(seen) /\ seen.loading = page.loading /\ seen.deaf = page.deaf
      /\ seen.socket = page.socket /\ seen.active = page.active
  BY <1>1 DEF IsPage, PageFields
<1> HIDE DEF seen, all
<1>4. CASE Replied(msgs)
  <2> DEFINE p == Ended(seen)
  <2>1. IsPage(p) /\ p.socket = None /\ p.loading = FALSE
    BY <1>3, EndedFields
  <2>2. page' = [p EXCEPT !.answer = msgs[Len(msgs)]]
    BY <1>2, <1>4
  <2> HIDE DEF p, msgs
  <2>3. IsPage(page') /\ page'.socket = None /\ page'.loading = FALSE
    BY <2>1, <2>2 DEF IsPage, PageFields
  <2> QED
    BY <1>1, <2>3, NothingInFlight, AtRest
<1>5. CASE ~Replied(msgs)
  <2>1. page' = seen
    BY <1>2, <1>5
  <2> QED
    BY <1>1, <1>3, <2>1 DEF IInv, WaitIsCovered, OneRequest, SocketIsAwaited
<1> QED
  BY <1>4, <1>5

(* A poll without an update changes nothing the page can see.              *)
LEMMA PollMissesIInv ==
  ASSUME IInv, PollMisses
  PROVE  IInv'
<1>1. page' = [page EXCEPT !.polls = @ + 1] /\ UNCHANGED <<calls, crossed>>
  BY DEF PollMisses
<1>2. /\ IsPage(page') /\ page'.loading = page.loading /\ page'.deaf = page.deaf
      /\ page'.socket = page.socket /\ page'.active = page.active
  BY <1>1 DEF IInv, IsPage, PageFields
<1> QED
  BY <1>1, <1>2 DEF IInv, WaitIsCovered, OneRequest, SocketIsAwaited

(* A socket that goes silent leaves the page waiting on it.                *)
LEMMA SocketSilentIInv ==
  ASSUME IInv, SocketSilent
  PROVE  IInv'
<1>1. page' = [page EXCEPT !.deaf = TRUE] /\ UNCHANGED <<calls, crossed>>
  BY DEF SocketSilent
<1>2. /\ IsPage(page') /\ page'.loading = page.loading /\ page'.deaf = TRUE
      /\ page'.socket = page.socket
  BY <1>1 DEF IInv, IsPage, PageFields
<1> QED
  BY <1>1, <1>2 DEF IInv, WaitIsCovered, OneRequest, SocketIsAwaited

(* Steps that touch neither the page nor its requests.                     *)
LEMMA QuietIInv ==
  ASSUME IInv, UNCHANGED <<calls, page, crossed>>
  PROVE  IInv'
BY DEF IInv, WaitIsCovered, OneRequest, SocketIsAwaited

(* Every step keeps the invariant.                                         *)
LEMMA NextIInv == IInv /\ [Next]_vars => IInv'
<1> SUFFICES ASSUME IInv, [Next]_vars PROVE IInv'
  OBVIOUS
<1>1. CASE User
  <2>1. CASE \E c \in Conv : Navigate(TRUE, None) \/ Navigate(FALSE, c) \/ Search(c)
    BY <2>1, NavigateIInv, SearchIInv
  <2>2. CASE Navigate(FALSE, None)
    BY <2>2, NavigateIInv
  <2>3. CASE Continue
    BY <2>3, ContinueIInv
  <2> QED
    BY <1>1, <2>1, <2>2, <2>3 DEF User
<1>2. CASE Network
  BY <1>2, ServeIInv, SettleIInv DEF Network
<1>3. CASE Socket
  <2>1. CASE PollFinds
    BY <2>1, PollFindsIInv
  <2>2. CASE PollMisses
    BY <2>2, PollMissesIInv
  <2>3. CASE TimedOut
    BY <2>3, GivenUpIInv DEF TimedOut, Connected
  <2> QED
    BY <1>3, <2>1, <2>2, <2>3 DEF Socket
<1>4. CASE Agent
  BY <1>4, QuietIInv DEF Agent, AgentThinks, AgentReplies
<1>5. CASE Failure
  <2>1. CASE \E k \in calls : CallFails(k)
    BY <2>1, CallFailsIInv
  <2>2. CASE SocketLost
    BY <2>2, GivenUpIInv DEF SocketLost
  <2>3. CASE SocketSilent
    BY <2>3, SocketSilentIInv
  <2> QED
    BY <1>5, <2>1, <2>2, <2>3 DEF Failure
<1>6. CASE UNCHANGED vars
  BY <1>6, QuietIInv DEF vars
<1> QED
  BY <1>1, <1>2, <1>3, <1>4, <1>5, <1>6 DEF Next
----------------------------------------------------------------------------
(* A page that waits has a request or a socket that can end the wait.      *)
THEOREM WaitAlwaysCovered == Spec => []WaitIsCovered
<1>1. IInv => WaitIsCovered
  BY DEF IInv
<1> QED
  BY <1>1, InitIInv, NextIInv, PTL DEF Spec

(* As long as the user walks away from no request, the page takes no       *)
(* message while one is on its way or its reply is awaited.                *)
THEOREM AlwaysOneTurn == Spec => []OneTurnAtATime
<1>1. IInv => OneTurnAtATime
  BY DEF IInv, OneRequest, SocketIsAwaited, OneTurnAtATime
<1> QED
  BY <1>1, InitIInv, NextIInv, PTL DEF Spec
----------------------------------------------------------------------------
(* Types.  The questions being worked on are finitely many, or their       *)
(* number would bound nothing.                                             *)
TypeInv == PageTypeOK /\ IsFiniteSet(working)

(* The helpers on the page's record keep its type.                         *)
LEMMA PageHelpers ==
  ASSUME NEW p \in Page
  PROVE  /\ Blank \in Page /\ Disconnected(p) \in Page /\ Ended(p) \in Page
         /\ \A c \in Conv : Subscribed(p, c) \in Page
         /\ \A c \in Conv : [p EXCEPT !.conversation = c] \in Page
<1>1. Blank \in Page
  BY DEF Blank, Page
<1>2. Disconnected(p) \in Page
  BY DEF Disconnected, Page
<1>3. \A q \in Page : [q EXCEPT !.active = None, !.loading = FALSE] \in Page
  BY DEF Page
<1>4. Ended(p) \in Page
  BY <1>2, <1>3 DEF Ended
<1>5. \A c \in Conv : Subscribed(p, c) \in Page
  BY DEF Subscribed, Page
<1>6. \A c \in Conv : [p EXCEPT !.conversation = c] \in Page
  BY DEF Page
<1> QED BY <1>1, <1>2, <1>4, <1>5, <1>6

(* So do the callbacks.                                                    *)
LEMMA CallbackTypes ==
  ASSUME NEW p \in Page, NEW k \in Call, NEW turns \in Seq(Turn)
  PROVE  Started(p, k) \in Page /\ Loaded(p, turns) \in Page
<1>1. k.conv \in Conv
  BY DEF Call
<1>2. Started(p, k) \in Page
  BY <1>1, PageHelpers DEF Started
<1>3. CASE turns = << >>
  BY <1>2, <1>3 DEF Loaded
<1>4. CASE turns # << >>
  <2> DEFINE last == turns[Len(turns)]
             prev == SubSeq(turns, 1, Len(turns) - 1)
             done == [i \in 1 .. Len(prev) |-> Completed(prev[i])]
  <2>1. last \in Turn
    BY <1>4
  <2>2. prev \in Seq(Turn)
    BY <1>4
  <2>3. \A t \in Turn : Completed(t) \in Turn
    BY PickedKinds DEF Completed, Turn
  <2> HIDE DEF last, prev
  <2>4. \A i \in 1 .. Len(prev) : Completed(prev[i]) \in Turn
    BY <2>2, <2>3
  <2>5. done \in Seq(Turn)
    BY <2>2, <2>4
  <2>6. Shown(prev) \in Nat
    BY <2>2, ShownType
  <2>7. /\ last.question \in Question \cup {None} /\ last.messages \in Seq(Message)
        /\ last.answer \in Message \cup {None}
    BY <2>1 DEF Turn
  <2>8. Loaded(p, turns) =
          [p EXCEPT !.question = last.question, !.messages = last.messages,
                    !.answer = last.answer, !.offset = Shown(prev),
                    !.completed = done]
    BY <1>4 DEF Loaded, last, prev
  <2> HIDE DEF done
  <2> QED BY <1>2, <2>5, <2>6, <2>7, <2>8 DEF Page
<1> QED BY <1>3, <1>4

(* Requests and their stages.                                              *)
LEMMA CallTypes ==
  /\ \A c \in Conv, n \in 1 .. MaxTurns, op \in {"new", "continue"} :
       Request(op, c, n) \in Call
  /\ \A c \in Conv, n \in 0 .. MaxActs : Request("load", c, n) \in Call
  /\ \A k \in Call : /\ [k EXCEPT !.pc = "answered"] \in Call
                     /\ [k EXCEPT !.pc = "failed", !.copy = << >>] \in Call
                     /\ \A turns \in Seq(Turn) :
                          [k EXCEPT !.pc = "answered", !.copy = turns] \in Call
<1>1. << >> \in Seq(Turn)
  OBVIOUS
<1>2. ASSUME NEW c \in Conv, NEW n \in 1 .. MaxTurns, NEW op \in {"new", "continue"}
      PROVE  Request(op, c, n) \in Call
  BY <1>1 DEF Request, Call, CallPc
<1>3. ASSUME NEW c \in Conv, NEW n \in 0 .. MaxActs
      PROVE  Request("load", c, n) \in Call
  BY <1>1 DEF Request, Call, CallPc
<1>4. ASSUME NEW k \in Call, NEW pc \in CallPc, NEW turns \in Seq(Turn)
      PROVE  [k EXCEPT !.pc = pc, !.copy = turns] \in Call
  BY DEF Call
<1>5. ASSUME NEW k \in Call, NEW pc \in CallPc
      PROVE  [k EXCEPT !.pc = pc] \in Call
  BY DEF Call
<1>6. "answered" \in CallPc /\ "failed" \in CallPc
  BY DEF CallPc
<1> QED BY <1>1, <1>2, <1>3, <1>4, <1>5, <1>6

(* A message of the user or of the page's loading.                         *)
LEMMA UserType ==
  ASSUME TypeInv, User
  PROVE  TypeInv'
<1>t. /\ page \in Page /\ calls \subseteq Call /\ sent \in [Conv -> 0 .. MaxTurns]
      /\ acts \in 0 .. MaxActs /\ crossed \in BOOLEAN /\ cut \in BOOLEAN
      /\ Cardinality(working) \in Nat /\ MaxActs \in Nat /\ MaxTurns \in Nat
  BY FS_CardinalityType, PageAssumption DEF TypeInv, PageTypeOK
<1>a. MayAct => acts' \in 0 .. MaxActs
  BY <1>t DEF MayAct
<1>f. ASSUME UNCHANGED services, page' \in Page, calls' \subseteq Call, MayAct,
             sent' \in [Conv -> 0 .. MaxTurns], crossed' \in BOOLEAN, cut' \in BOOLEAN
      PROVE  TypeInv'
  BY <1>f, <1>a DEF TypeInv, PageTypeOK, services
<1>1. ASSUME NEW s \in BOOLEAN, NEW u \in Conv \cup {None}, Navigate(s, u)
      PROVE  TypeInv'
  <2> DEFINE p == SessionReset(page, s \/ page.session)
             loads == u # None /\ u # page.url
             q == IF loads THEN ChatReset(p) ELSE p
  <2>1. p \in Page
    BY <1>t, PageHelpers DEF SessionReset
  <2> HIDE DEF p
  <2>2. ChatReset(p) \in Page
    <3>1. Blank \in Page /\ p.question \in Question \cup {None}
      BY <2>1, PageHelpers DEF Page
    <3>2. ChatReset(p) = [Blank EXCEPT !.question = p.question, !.loading = TRUE]
      BY DEF ChatReset
    <3> QED BY <3>1, <3>2 DEF Page
  <2>3. q \in Page
    BY <2>1, <2>2
  <2>4. /\ page' = [q EXCEPT !.session = s, !.url = u]
        /\ calls' = calls \cup (IF loads THEN {Request("load", u, acts)} ELSE {})
        /\ crossed' = (crossed \/ calls # {}) /\ cut' = (cut \/ page'.socket # page.socket)
        /\ UNCHANGED <<services, sent>> /\ MayAct
    BY <1>1 DEF Navigate, p
  <2> HIDE DEF q
  <2>5. page' \in Page
    BY <2>3, <2>4 DEF Page
  <2>6. calls' \subseteq Call
    BY <1>t, <2>4, CallTypes
  <2> QED BY <1>f, <1>t, <2>4, <2>5, <2>6
<1>2. ASSUME NEW c \in Conv, Search(c) PROVE TypeInv'
  <2> DEFINE p == Disconnected(page)
             w == [conv |-> c, turn |-> 1]
  <2>1. p \in Page
    BY <1>t, PageHelpers
  <2>2. 1 \in 1 .. MaxTurns /\ w \in Question
    BY <1>2, <1>t DEF Search, Question
  <2>3. page' = [p EXCEPT
                   !.loading = TRUE, !.error = FALSE, !.answer = None,
                   !.messages = << >>, !.completed = << >>, !.offset = 0,
                   !.question = w]
    BY <1>2 DEF Search
  <2> HIDE DEF p, w
  <2>4. page' \in Page
    <3>1. << >> \in Seq(Message) /\ << >> \in Seq(Turn) /\ 0 \in Nat
      OBVIOUS
    <3> QED BY <2>1, <2>2, <2>3, <3>1 DEF Page
  <2>5. calls' \subseteq Call
    BY <1>2, <1>t, <2>2, CallTypes DEF Search
  <2>6. sent' \in [Conv -> 0 .. MaxTurns]
    BY <1>2, <1>t, <2>2 DEF Search
  <2> QED BY <1>2, <1>f, <1>t, <2>4, <2>5, <2>6 DEF Search
<1>3. CASE Continue
  <2> DEFINE c == Addressee
             t == sent[c] + 1
             p == Disconnected(page)
             w == [conv |-> c, turn |-> t]
             over == [question |-> page.question, answer |-> page.answer,
                      messages |-> Thinking(page.messages)]
             done == IF page.question = None THEN page.completed
                     ELSE Append(page.completed, over)
  <2>1. c \in Conv
    BY <1>3, <1>t DEF Continue, Addressee, Page
  <2>2. t \in 1 .. MaxTurns /\ w \in Question
    <3> HIDE DEF c
    <3>1. sent[c] \in 0 .. MaxTurns /\ t <= MaxTurns
      BY <1>3, <1>t, <2>1 DEF Continue, c
    <3> QED BY <1>t, <2>1, <3>1 DEF Question
  <2>3. p \in Page /\ p.completed = page.completed
    BY ZenonT(60), <1>t, PageHelpers DEF Disconnected, Page
  <2>4. over \in Turn /\ done \in Seq(Turn) /\ NextOffset(page) \in Nat
    <3>1. /\ page.question \in Question \cup {None} /\ page.messages \in Seq(Message)
          /\ page.answer \in Message \cup {None} /\ page.completed \in Seq(Turn)
          /\ page.offset \in Nat
      BY <1>t DEF Page
    <3>2. over \in Turn
      BY <3>1, PickedKinds DEF Turn
    <3> HIDE DEF over
    <3>3. done \in Seq(Turn)
      BY <3>1, <3>2
    <3>4. Len(page.messages) \in Nat
      BY <3>1
    <3> QED BY <3>1, <3>2, <3>3, <3>4 DEF NextOffset
  <2>5. page' = [p EXCEPT
                   !.loading = TRUE, !.error = FALSE, !.answer = None,
                   !.messages = << >>, !.offset = NextOffset(page),
                   !.question = w, !.completed = done]
    <3>1. page' = [p EXCEPT
                   !.loading = TRUE, !.error = FALSE, !.answer = None,
                   !.messages = << >>, !.offset = NextOffset(page),
                   !.question = w,
                   !.completed = IF page.question = None THEN p.completed
                                 ELSE Append(p.completed, over)]
      BY <1>3 DEF Continue
    <3> HIDE DEF p, w, over
    <3> QED BY <2>3, <3>1
  <2>6. /\ calls' = calls \cup {Request("continue", c, t)}
        /\ sent' = [sent EXCEPT ![c] = t]
        /\ UNCHANGED <<services, crossed, cut>> /\ MayAct
    BY <1>3 DEF Continue
  <2> HIDE DEF c, t, p, w, over, done
  <2>7. page' \in Page
    <3>1. << >> \in Seq(Message)
      OBVIOUS
    <3> DEFINE o == NextOffset(page)
    <3>2. o \in Nat
      BY <2>4
    <3>3. page' = [p EXCEPT
                     !.loading = TRUE, !.error = FALSE, !.answer = None,
                     !.messages = << >>, !.offset = o, !.question = w, !.completed = done]
      BY <2>5
    <3> HIDE DEF o
    <3> QED BY <2>2, <2>3, <2>4, <3>1, <3>2, <3>3 DEF Page
  <2>8. calls' \subseteq Call
    <3>1. Request("continue", c, t) \in Call
      BY <2>1, <2>2, CallTypes
    <3> QED BY <1>t, <2>6, <3>1
  <2>9. sent' \in [Conv -> 0 .. MaxTurns]
    <3>1. t \in 0 .. MaxTurns
      BY <1>t, <2>2
    <3> QED BY <1>t, <2>1, <2>6, <3>1
  <2> QED BY <1>f, <1>t, <2>6, <2>7, <2>8, <2>9
<1> QED BY <1>1, <1>2, <1>3 DEF User

(* The calls.                                                              *)
LEMMA NetworkType ==
  ASSUME TypeInv, NEW k \in calls, Serve(k) \/ Settle(k) \/ CallFails(k)
  PROVE  TypeInv'
<1>t. /\ page \in Page /\ calls \subseteq Call /\ k \in Call
      /\ acts \in 0 .. MaxActs /\ MaxActs \in Nat /\ cut \in BOOLEAN
      /\ chat \in [Conv -> Seq(Message)] /\ working \subseteq Question
      /\ IsFiniteSet(working) /\ k.conv \in Conv /\ k.copy \in Seq(Turn)
  BY PageAssumption DEF TypeInv, PageTypeOK, Call
<1>1. CASE Serve(k)
  <2>1. CASE k.op = "load"
    <3>1. Split(chat[k.conv]) \in Seq(Turn)
      BY <1>t, SplitAt
    <3>2. calls' \subseteq Call
      BY <1>1, <1>t, <2>1, <3>1, CallTypes DEF Serve
    <3> QED BY <1>1, <2>1, <3>2 DEF Serve, services, TypeInv, PageTypeOK
  <2>2. CASE k.op # "load"
    <3> DEFINE w == [conv |-> k.conv, turn |-> k.n]
    <3>1. w \in Question
      BY <1>t, <2>2 DEF Call, Question
    <3>2. /\ calls' = (calls \ {k}) \cup {[k EXCEPT !.pc = "answered"]}
          /\ chat' = [chat EXCEPT ![k.conv] = Append(@, Msg("ask", w))]
          /\ working' = working \cup {w}
      BY <1>1, <2>2 DEF Serve
    <3> HIDE DEF w
    <3>3. calls' \subseteq Call
      BY <1>t, <3>2, CallTypes
    <3>4. Msg("ask", w) \in Message
      BY <3>1 DEF Msg, Message
    <3>5. chat' \in [Conv -> Seq(Message)]
      BY <1>t, <3>2, <3>4
    <3>6. IsFiniteSet(working')
      BY <1>t, <3>2, FS_AddElement
    <3> QED BY <1>1, <1>t, <3>1, <3>2, <3>3, <3>5, <3>6 DEF Serve, TypeInv, PageTypeOK
  <2> QED BY <2>1, <2>2
<1>2. CASE CallFails(k)
  <2>1. calls' \subseteq Call
    BY <1>2, <1>t, CallTypes DEF CallFails
  <2>2. acts' \in 0 .. MaxActs
    BY <1>2, <1>t DEF CallFails, MayFail
  <2> QED BY <1>2, <2>1, <2>2 DEF CallFails, services, TypeInv, PageTypeOK
<1>3. CASE Settle(k)
  <2>1. \A p \in Page : [p EXCEPT !.loading = FALSE] \in Page
    BY DEF Page
  <2>0. \A p \in Page : [p EXCEPT !.loading = FALSE, !.error = TRUE] \in Page
    BY DEF Page
  <2>2. page' \in Page
    BY <1>3, <1>t, <2>0, <2>1, CallbackTypes DEF Settle
  <2>3. cut' \in BOOLEAN /\ calls' \subseteq Call
    BY <1>3, <1>t DEF Settle
  <2> QED BY <1>3, <2>2, <2>3 DEF Settle, services, TypeInv, PageTypeOK
<1> QED BY <1>1, <1>2, <1>3

(* The socket and its ends.                                                *)
LEMMA SocketType ==
  ASSUME TypeInv, Socket \/ SocketLost \/ SocketSilent
  PROVE  TypeInv'
<1>t. /\ page \in Page /\ chat \in [Conv -> Seq(Message)]
      /\ acts \in 0 .. MaxActs /\ MaxActs \in Nat
      /\ page.offset \in Nat /\ page.polls \in Nat /\ page.socket \in Conv \cup {None}
  BY PageAssumption DEF TypeInv, PageTypeOK, Page
<1>u. GivenUp \in Page
  <2>1. Ended(page) \in Page
    BY <1>t, PageHelpers
  <2> HIDE DEF Ended
  <2> QED BY <2>1 DEF GivenUp, Page
<1>1. CASE PollFinds
  <2> DEFINE msgs == chat[page.socket]
             all  == Agents(msgs)
             part == SubSeq(all, page.offset + 1, Len(all))
             seen == [page EXCEPT !.polls = @ + 1, !.messages = part]
  <2>1. msgs \in Seq(Message)
    BY <1>1, <1>t DEF PollFinds, Connected
  <2>2. all \in Seq(Message)
    BY <2>1, PickedKinds
  <2>3. part \in Seq(Message)
    <3> HIDE DEF all
    <3> QED BY <1>t, <2>2
  <2>4. page' = IF Replied(msgs)
                  THEN [Ended(seen) EXCEPT !.answer = msgs[Len(msgs)]] ELSE seen
    BY <1>1 DEF PollFinds
  <2> HIDE DEF all, part
  <2>5. seen \in Page
    <3>1. seen = [page EXCEPT !.polls = page.polls + 1, !.messages = part]
      BY <1>t DEF Page
    <3>2. page.polls + 1 \in Nat
      BY <1>t
    <3> HIDE DEF seen
    <3> QED BY <1>t, <2>3, <3>1, <3>2 DEF Page
  <2>6. Ended(seen) \in Page
    <3> HIDE DEF seen
    <3> QED BY <2>5, PageHelpers
  <2>7. Replied(msgs) => msgs[Len(msgs)] \in Message
    BY <2>1 DEF Replied
  <2>8. \A p \in Page, m \in Message : [p EXCEPT !.answer = m] \in Page
    BY DEF Page
  <2> HIDE DEF seen, msgs
  <2>9. page' \in Page
    BY <2>4, <2>5, <2>6, <2>7, <2>8
  <2> QED BY <1>1, <2>9 DEF PollFinds, services, TypeInv, PageTypeOK
<1>2. CASE PollMisses
  <2>1. page' \in Page
    <3>1. page.polls + 1 \in Nat
      BY <1>t
    <3>2. page' = [page EXCEPT !.polls = page.polls + 1]
      BY <1>2, <1>t DEF PollMisses, Page
    <3> QED BY <1>t, <3>1, <3>2 DEF Page
  <2> QED BY <1>2, <2>1 DEF PollMisses, services, TypeInv, PageTypeOK
<1>3. CASE TimedOut
  BY <1>3, <1>u DEF TimedOut, services, TypeInv, PageTypeOK
<1>4. CASE SocketLost
  <2>1. acts' \in 0 .. MaxActs
    BY <1>4, <1>t DEF SocketLost, MayFail
  <2> QED BY <1>4, <1>u, <2>1 DEF SocketLost, services, TypeInv, PageTypeOK
<1>5. CASE SocketSilent
  <2>1. acts' \in 0 .. MaxActs
    BY <1>5, <1>t DEF SocketSilent, MayFail
  <2>2. page' \in Page
    BY <1>5, <1>t DEF SocketSilent, Page
  <2> QED BY <1>5, <2>1, <2>2 DEF SocketSilent, services, TypeInv, PageTypeOK
<1> QED BY <1>1, <1>2, <1>3, <1>4, <1>5 DEF Socket

(* The agents.                                                             *)
LEMMA AgentType ==
  ASSUME TypeInv, Agent
  PROVE  TypeInv'
<1>t. /\ chat \in [Conv -> Seq(Message)] /\ working \subseteq Question
      /\ IsFiniteSet(working)
  BY DEF TypeInv, PageTypeOK
<1>1. PICK q \in working : AgentThinks(q) \/ AgentReplies(q)
  BY DEF Agent
<1>2. /\ q.conv \in Conv
      /\ Msg("thinking", q) \in Message /\ Msg("reply", q) \in Message
  BY <1>t DEF Question, Msg, Message
<1>3. chat' \in [Conv -> Seq(Message)]
  <2>1. chat[q.conv] \in Seq(Message)
    BY <1>2, <1>t
  <2>2. \A m \in Message : Append(chat[q.conv], m) \in Seq(Message)
    BY <2>1
  <2>3. PICK m \in Message : chat' = [chat EXCEPT ![q.conv] = Append(chat[q.conv], m)]
    BY <1>1, <1>2, <1>t DEF AgentThinks, AgentReplies
  <2> QED BY <1>2, <1>t, <2>2, <2>3
<1>4. working' \subseteq Question /\ IsFiniteSet(working')
  BY <1>1, <1>t, FS_RemoveElement DEF AgentThinks, AgentReplies
<1> QED BY <1>1, <1>3, <1>4 DEF AgentThinks, AgentReplies, TypeInv, PageTypeOK

(* Every step keeps the types.                                            *)
LEMMA NextType == TypeInv /\ [Next]_vars => TypeInv'
<1> SUFFICES ASSUME TypeInv, [Next]_vars PROVE TypeInv'
  OBVIOUS
<1>1. CASE UNCHANGED vars
  BY <1>1 DEF vars, TypeInv, PageTypeOK
<1> QED BY <1>1, UserType, NetworkType, SocketType, AgentType DEF Next, Network, Failure

(* Nothing is there at first.                                              *)
LEMMA InitType == Init => TypeInv
<1> SUFFICES ASSUME Init PROVE TypeInv
  OBVIOUS
<1>1. page \in Page
  BY DEF Init, Blank, Page
<1>2. << >> \in Seq(Message) /\ 0 \in 0 .. MaxActs /\ 0 \in 0 .. MaxTurns
  BY PageAssumption
<1> QED BY <1>1, <1>2, FS_EmptySet DEF Init, TypeInv, PageTypeOK

(* The types hold in every state.                                          *)
LEMMA TypeInvariant == Spec => []TypeInv
BY InitType, NextType, PTL DEF Spec

(* The page, its requests and the stored chats have the types declared for *)
(* them in every state; the offset in particular is never negative.        *)
THEOREM PageTypeCorrect == Spec => []PageTypeOK
<1>1. TypeInv => PageTypeOK
  BY DEF TypeInv
<1> QED BY <1>1, TypeInvariant, PTL
----------------------------------------------------------------------------
(* What each action does to the fields that say what is shown.             *)
AddresseeOf(p) == IF p.conversation # None THEN p.conversation ELSE p.url

Content(p, q) == /\ q.question = p.question /\ q.messages = p.messages
                 /\ q.answer = p.answer /\ q.completed = p.completed
                 /\ q.offset = p.offset
Empty(p) == p.messages = << >> /\ p.answer = None /\ p.completed = << >>
Reset(p) == Empty(p) /\ p.offset = 0 /\ p.socket = None

(* A navigation loads a chat, starts afresh, or only leaves the address.   *)
NavigatedTo(u) ==
  \/ /\ u \in Conv /\ chat[u] # << >>
     /\ calls' = calls \cup {Request("load", u, acts)}
     /\ Reset(page') /\ page'.loading = TRUE /\ AddresseeOf(page') = u
  \/ /\ UNCHANGED calls
     /\ Reset(page') /\ page'.loading = FALSE /\ page'.question = None
  \/ /\ UNCHANGED calls
     /\ Content(page, page') /\ page'.url = None
     /\ page'.conversation = page.conversation
     /\ page'.socket = page.socket /\ page'.loading = page.loading

LEMMA NavigateEffect ==
  ASSUME IInv, NEW s \in BOOLEAN, NEW u \in Conv \cup {None}, Navigate(s, u)
  PROVE  /\ UNCHANGED <<chat, working, sent>>
         /\ crossed' = (crossed \/ calls # {})
         /\ cut' = (cut \/ page'.socket # page.socket)
         /\ NavigatedTo(u)
<1> DEFINE p == SessionReset(page, s \/ page.session)
           loads == u # None /\ u # page.url
           q == IF loads THEN ChatReset(p) ELSE p
<1>1. /\ page' = [q EXCEPT !.session = s, !.url = u]
      /\ calls' = calls \cup (IF loads THEN {Request("load", u, acts)} ELSE {})
      /\ UNCHANGED <<chat, working, sent>>
      /\ crossed' = (crossed \/ calls # {})
      /\ cut' = (cut \/ page'.socket # page.socket)
      /\ s \/ page.session \/ u # page.url
      /\ u # None => chat[u] # << >>
  BY DEF Navigate, services
<1>2. CASE loads
  <2>1. page' = [[Blank EXCEPT !.question = p.question, !.loading = TRUE]
                   EXCEPT !.session = s, !.url = u]
    BY <1>1, <1>2 DEF ChatReset
  <2>2. calls' = calls \cup {Request("load", u, acts)} /\ u \in Conv /\ chat[u] # << >>
    BY <1>1, <1>2
  <2> HIDE DEF p, q, loads
  <2>3. Reset(page') /\ page'.loading = TRUE /\ AddresseeOf(page') = u
    BY <2>1 DEF Blank, Empty, Reset, AddresseeOf
  <2> QED BY <1>1, <2>2, <2>3 DEF NavigatedTo
<1>3. CASE ~loads /\ (s \/ page.session)
  <2>1. page' = [Blank EXCEPT !.session = s, !.url = u] /\ calls' = calls
    BY <1>1, <1>3 DEF SessionReset
  <2>2. Reset(page') /\ page'.loading = FALSE /\ page'.question = None
    BY <2>1 DEF Blank, Empty, Reset
  <2> QED BY <1>1, <2>1, <2>2 DEF NavigatedTo
<1>4. CASE ~loads /\ ~(s \/ page.session)
  <2>1. page' = [page EXCEPT !.session = s, !.url = None] /\ calls' = calls
    BY <1>1, <1>4 DEF SessionReset
  <2>2. /\ Content(page, page') /\ page'.url = None
        /\ page'.conversation = page.conversation
        /\ page'.socket = page.socket /\ page'.loading = page.loading
    BY <2>1 DEF IInv, IsPage, PageFields, Content
  <2> QED BY <1>1, <2>1, <2>2 DEF NavigatedTo
<1> QED BY <1>2, <1>3, <1>4

(* A first message empties the page; ...                                   *)
LEMMA SearchEffect ==
  ASSUME IInv, NEW c \in Conv, Search(c)
  PROVE  /\ UNCHANGED <<chat, working, crossed, cut>> /\ ~page.loading
         /\ sent[c] = 0 /\ sent' = [sent EXCEPT ![c] = 1]
         /\ calls' = calls \cup {Request("new", c, 1)}
         /\ Reset(page') /\ page'.loading = TRUE
         /\ page'.question = [conv |-> c, turn |-> 1]
<1> DEFINE p == Disconnected(page)
           w == [conv |-> c, turn |-> 1]
<1>1. IsPage(p) /\ p.socket = None
  BY DisconnectedFields DEF IInv
<1>2. page' = [p EXCEPT
                 !.loading = TRUE, !.error = FALSE, !.answer = None,
                 !.messages = << >>, !.completed = << >>, !.offset = 0,
                 !.question = w]
  BY DEF Search
<1>3. /\ UNCHANGED <<chat, working, crossed, cut>> /\ ~page.loading
      /\ sent[c] = 0 /\ sent' = [sent EXCEPT ![c] = 1]
      /\ calls' = calls \cup {Request("new", c, 1)}
  BY DEF Search, services
<1> HIDE DEF p, w
<1>4. Reset(page') /\ page'.loading = TRUE /\ page'.question = w
  BY <1>1, <1>2 DEF IsPage, PageFields, Empty, Reset
<1> QED BY <1>3, <1>4 DEF w

(* ... a further one files the turn that is over.                          *)
Over == [question |-> page.question, answer |-> page.answer,
         messages |-> Thinking(page.messages)]

LEMMA ContinueEffect ==
  ASSUME IInv, Continue
  PROVE  LET c == AddresseeOf(page) IN
         /\ UNCHANGED <<chat, working, crossed, cut>> /\ ~page.loading
         /\ c \in Conv /\ HasConversation
         /\ sent' = [sent EXCEPT ![c] = sent[c] + 1]
         /\ calls' = calls \cup {Request("continue", c, sent[c] + 1)}
         /\ page'.question = [conv |-> c, turn |-> sent[c] + 1]
         /\ page'.messages = << >> /\ page'.answer = None
         /\ page'.offset = page.offset + Len(page.messages)
         /\ page'.completed = IF page.question = None THEN page.completed
                              ELSE Append(page.completed, Over)
         /\ Same(page, page') /\ page'.loading = TRUE /\ page'.socket = None
<1> DEFINE c == Addressee
           t == sent[c] + 1
           p == Disconnected(page)
           w == [conv |-> c, turn |-> t]
           o == NextOffset(page)
           done == IF page.question = None THEN page.completed
                   ELSE Append(page.completed, Over)
<1>1. /\ IsPage(p) /\ Same(page, p) /\ p.socket = None /\ p.completed = page.completed
  <2>1. p.completed = page.completed
    BY DEF IInv, IsPage, PageFields, Disconnected
  <2> QED BY <2>1, DisconnectedFields DEF IInv
<1>2. page' = [p EXCEPT
                 !.loading = TRUE, !.error = FALSE, !.answer = None,
                 !.messages = << >>, !.offset = o, !.question = w, !.completed = done]
  <2>1. page' = [p EXCEPT
                   !.loading = TRUE, !.error = FALSE, !.answer = None,
                   !.messages = << >>, !.offset = o, !.question = w,
                   !.completed = IF page.question = None THEN p.completed
                                 ELSE Append(p.completed, Over)]
    BY DEF Continue, Over
  <2> HIDE DEF p, w, o
  <2> QED BY <1>1, <2>1
<1>3. /\ UNCHANGED <<chat, working, crossed, cut>> /\ ~page.loading
      /\ c # None /\ HasConversation
      /\ sent' = [sent EXCEPT ![c] = t]
      /\ calls' = calls \cup {Request("continue", c, t)}
  BY DEF Continue, services
<1>4. c = AddresseeOf(page) /\ c \in Conv
  BY <1>3 DEF Addressee, AddresseeOf, IInv, IsPage
<1> HIDE DEF c, p, w, o, done
<1>5. /\ page'.question = w /\ page'.messages = << >> /\ page'.answer = None
      /\ page'.offset = o /\ page'.completed = done
      /\ page'.loading = TRUE /\ page'.socket = None /\ Same(page, page')
  BY <1>1, <1>2 DEF IsPage, PageFields, Same
<1> QED BY <1>3, <1>4, <1>5 DEF w, o, done, NextOffset

(* A call moves to its next stage.                                         *)
Staged(k, j) == /\ calls' = (calls \ {k}) \cup {j}
                /\ j.op = k.op /\ j.conv = k.conv /\ j.n = k.n

LEMMA ServeEffect ==
  ASSUME IInv, NEW k \in calls, Serve(k)
  PROVE  \E j :
           /\ UNCHANGED <<page, sent, crossed, cut>> /\ k.pc = "sent"
           /\ Staged(k, j) /\ j.pc = "answered"
           /\ \/ /\ k.op = "load" /\ UNCHANGED <<chat, working>>
                 /\ j.copy = Split(chat[k.conv])
              \/ LET q == [conv |-> k.conv, turn |-> k.n] IN
                 /\ k.op # "load" /\ j.copy = k.copy
                 /\ chat' = [chat EXCEPT ![k.conv] = Append(@, Msg("ask", q))]
                 /\ working' = working \cup {q}
<1>1. IsCall(k) /\ UNCHANGED <<page, sent, crossed, cut>> /\ k.pc = "sent"
  BY DEF Serve, IInv
<1>2. CASE k.op = "load"
  <2> DEFINE copy == Split(chat[k.conv])
             j == [k EXCEPT !.pc = "answered", !.copy = copy]
  <2>1. calls' = (calls \ {k}) \cup {j} /\ UNCHANGED <<chat, working>>
    BY <1>2 DEF Serve, services
  <2> HIDE DEF copy
  <2>2. j.op = k.op /\ j.conv = k.conv /\ j.n = k.n /\ j.pc = "answered" /\ j.copy = copy
    BY <1>1 DEF IsCall, CallFields
  <2> QED BY <1>1, <1>2, <2>1, <2>2 DEF Staged, copy
<1>3. CASE k.op # "load"
  <2> DEFINE j == [k EXCEPT !.pc = "answered"]
             q == [conv |-> k.conv, turn |-> k.n]
  <2>1. /\ calls' = (calls \ {k}) \cup {j}
        /\ chat' = [chat EXCEPT ![k.conv] = Append(@, Msg("ask", q))]
        /\ working' = working \cup {q}
    BY <1>3 DEF Serve
  <2>2. j.op = k.op /\ j.conv = k.conv /\ j.n = k.n /\ j.pc = "answered" /\ j.copy = k.copy
    BY <1>1 DEF IsCall, CallFields
  <2> QED BY <1>1, <1>3, <2>1, <2>2 DEF Staged
<1> QED BY <1>2, <1>3

(* Or it fails.                                                            *)
LEMMA CallFailsEffect ==
  ASSUME IInv, NEW k \in calls, CallFails(k)
  PROVE  \E j : /\ UNCHANGED <<chat, working, page, sent, crossed, cut>>
                /\ Staged(k, j) /\ j.pc = "failed" /\ j.copy = << >>
<1> DEFINE j == [k EXCEPT !.pc = "failed", !.copy = << >>]
<1>1. /\ IsCall(k) /\ UNCHANGED <<chat, working, page, sent, crossed, cut>>
      /\ calls' = (calls \ {k}) \cup {j}
  BY DEF CallFails, IInv, services
<1>2. j.op = k.op /\ j.conv = k.conv /\ j.n = k.n /\ j.pc = "failed" /\ j.copy = << >>
  BY <1>1 DEF IsCall, CallFields
<1> QED BY <1>1, <1>2 DEF Staged

(* A callback changes nothing that is shown, fills the page with a chat,   *)
(* or subscribes.                                                          *)
Filled(p, q, turns) ==
  LET last == turns[Len(turns)]
      prev == SubSeq(turns, 1, Len(turns) - 1)
  IN  /\ q.question = last.question /\ q.messages = last.messages
      /\ q.answer = last.answer /\ q.offset = Shown(prev)
      /\ q.completed = [i \in 1 .. Len(prev) |-> Completed(prev[i])]

SettledAs(k) ==
  \/ /\ k.pc = "failed" \/ (k.op = "load" /\ k.copy = << >>)
     /\ Content(page, page') /\ Same(page, page')
     /\ page'.socket = page.socket /\ page'.loading = FALSE
  \/ /\ k.pc # "failed" /\ k.op = "load" /\ k.copy # << >>
     /\ Filled(page, page', k.copy) /\ Same(page, page')
     /\ page'.socket = page.socket /\ page'.loading = FALSE
  \/ /\ k.pc # "failed" /\ k.op # "load"
     /\ Content(page, page') /\ page'.url = page.url
     /\ page'.conversation = IF k.op = "new" THEN k.conv ELSE page.conversation
     /\ page'.socket = k.conv /\ page'.loading = page.loading

LEMMA SettleEffect ==
  ASSUME IInv, NEW k \in calls, Settle(k)
  PROVE  /\ UNCHANGED <<chat, working, sent, crossed>>
         /\ calls' = calls \ {k} /\ k.pc # "sent"
         /\ cut' = (cut \/ k.pc = "failed")
         /\ SettledAs(k)
<1>1. /\ IsCall(k) /\ IsPage(page) /\ UNCHANGED <<chat, working, sent, crossed>>
      /\ calls' = calls \ {k} /\ k.pc # "sent" /\ cut' = (cut \/ k.pc = "failed")
  BY DEF Settle, IInv, services
<1>2. CASE k.pc = "failed"
  <2>1. page' = [page EXCEPT !.loading = FALSE, !.error = TRUE]
    BY <1>2 DEF Settle
  <2>2. /\ Content(page, page') /\ Same(page, page')
        /\ page'.socket = page.socket /\ page'.loading = FALSE
    BY <1>1, <2>1 DEF IsPage, PageFields, Content, Same
  <2> QED BY <1>1, <1>2, <2>2 DEF SettledAs
<1>3. CASE k.pc # "failed" /\ k.op = "load" /\ k.copy = << >>
  <2>1. page' = [page EXCEPT !.loading = FALSE]
    BY <1>3 DEF Settle, Loaded
  <2>2. /\ Content(page, page') /\ Same(page, page')
        /\ page'.socket = page.socket /\ page'.loading = FALSE
    BY <1>1, <2>1 DEF IsPage, PageFields, Content, Same
  <2> QED BY <1>1, <1>3, <2>2 DEF SettledAs
<1>4. CASE k.pc # "failed" /\ k.op = "load" /\ k.copy # << >>
  <2> DEFINE turns == k.copy
             last == turns[Len(turns)]
             prev == SubSeq(turns, 1, Len(turns) - 1)
             n == Shown(prev)
             done == [i \in 1 .. Len(prev) |-> Completed(prev[i])]
             q == [page EXCEPT !.question = last.question, !.messages = last.messages,
                               !.answer = last.answer, !.offset = n, !.completed = done]
  <2>1. page' = [q EXCEPT !.loading = FALSE]
    BY <1>4 DEF Settle, Loaded
  <2> HIDE DEF n, done, prev
  <2>2. /\ page'.question = last.question /\ page'.messages = last.messages
        /\ page'.answer = last.answer /\ page'.offset = n /\ page'.completed = done
        /\ Same(page, page') /\ page'.socket = page.socket /\ page'.loading = FALSE
    BY <1>1, <2>1 DEF IsPage, PageFields, Same
  <2>3. Filled(page, page', k.copy)
    BY <2>2 DEF Filled, n, done, prev
  <2> HIDE DEF turns, last
  <2> QED BY <1>1, <1>4, <2>2, <2>3 DEF SettledAs
<1>5. CASE k.pc # "failed" /\ k.op # "load"
  <2> DEFINE r == IF k.op = "new" THEN [page EXCEPT !.conversation = k.conv] ELSE page
  <2>1. page' = [r EXCEPT !.active = k.conv, !.socket = k.conv,
                            !.polls = 0, !.deaf = FALSE]
    BY <1>5 DEF Settle, Started, Subscribed
  <2>2. /\ IsPage(r) /\ Content(page, r) /\ r.url = page.url /\ r.loading = page.loading
        /\ r.conversation = IF k.op = "new" THEN k.conv ELSE page.conversation
    BY <1>1 DEF IsPage, IsCall, PageFields, Content
  <2> HIDE DEF r
  <2>3. /\ Content(r, page') /\ page'.url = r.url /\ page'.conversation = r.conversation
        /\ page'.socket = k.conv /\ page'.loading = r.loading
    BY <2>1, <2>2 DEF IsPage, PageFields, Content
  <2>4. Content(page, page')
    BY <2>2, <2>3 DEF Content
  <2> QED BY <1>1, <1>5, <2>2, <2>3, <2>4 DEF SettledAs
<1> QED BY <1>2, <1>3, <1>4, <1>5

(* An update shows what the agents said beyond the offset, and the answer. *)
LEMMA PollFindsEffect ==
  ASSUME TypeInv, IInv, PollFinds
  PROVE  LET d == page.socket
             A == Agents(chat[d])
         IN  /\ UNCHANGED <<chat, working, calls, sent, crossed, cut>>
             /\ d \in Conv /\ d # None
             /\ page'.messages = SubSeq(A, page.offset + 1, Len(A))
             /\ page'.question = page.question /\ page'.completed = page.completed
             /\ page'.offset = page.offset /\ Same(page, page')
             /\ \/ /\ Replied(chat[d]) /\ page'.answer = chat[d][Len(chat[d])]
                   /\ page'.socket = None /\ page'.loading = FALSE
                \/ /\ ~Replied(chat[d]) /\ page'.answer = page.answer
                   /\ page'.socket = page.socket /\ page'.loading = page.loading
<1> DEFINE d == page.socket
           msgs == chat[d]
           all  == Agents(msgs)
           part == SubSeq(all, page.offset + 1, Len(all))
           seen == [page EXCEPT !.polls = @ + 1, !.messages = part]
           m == msgs[Len(msgs)]
<1>1. /\ d \in Conv /\ d # None /\ UNCHANGED <<chat, working, calls, sent, crossed, cut>>
      /\ IsPage(page)
  BY DEF PollFinds, Connected, services, TypeInv, PageTypeOK, Page, IInv
<1>2. page' = IF Replied(msgs) THEN [Ended(seen) EXCEPT !.answer = m] ELSE seen
  BY DEF PollFinds
<1> HIDE DEF msgs, all, part, m
<1>3. /\ IsPage(seen) /\ Same(page, seen) /\ seen.messages = part
      /\ seen.question = page.question /\ seen.offset = page.offset
      /\ seen.answer = page.answer /\ seen.completed = page.completed
      /\ seen.socket = d /\ seen.loading = page.loading
  BY <1>1 DEF IsPage, PageFields, Same
<1> HIDE DEF seen
<1>4. CASE Replied(msgs)
  <2>1. page' = [[[seen EXCEPT !.socket = None, !.polls = 0, !.deaf = FALSE]
                    EXCEPT !.active = None, !.loading = FALSE] EXCEPT !.answer = m]
    BY <1>2, <1>4 DEF Ended, Disconnected
  <2>2. /\ page'.messages = part /\ page'.question = page.question
        /\ page'.completed = page.completed /\ page'.offset = page.offset
        /\ Same(page, page') /\ page'.answer = m
        /\ page'.socket = None /\ page'.loading = FALSE
    BY <1>3, <2>1 DEF IsPage, PageFields, Same
  <2> QED BY <1>1, <1>4, <2>2 DEF msgs, all, part, m
<1>5. CASE ~Replied(msgs)
  <2>1. page' = seen
    BY <1>2, <1>5
  <2> QED BY <1>1, <1>3, <1>5, <2>1 DEF msgs, all, part
<1> QED BY <1>4, <1>5

(* The other events of the socket leave the content as it is, and a wait   *)
(* that they end is cut.                                                   *)
LEMMA SocketEffect ==
  ASSUME IInv, PollMisses \/ TimedOut \/ SocketLost \/ SocketSilent
  PROVE  /\ UNCHANGED <<chat, working, calls, sent, crossed>>
         /\ page.socket # None
         /\ Content(page, page') /\ Same(page, page')
         /\ \/ /\ UNCHANGED cut /\ page'.socket = page.socket
               /\ page'.loading = page.loading
            \/ cut' = TRUE /\ page'.socket \in {page.socket, None}
<1>1. /\ UNCHANGED <<chat, working, calls, sent, crossed>> /\ page.socket # None
      /\ IsPage(page)
  BY DEF PollMisses, TimedOut, SocketLost, SocketSilent, Connected, services, IInv
<1>2. CASE PollMisses
  <2>1. page' = [page EXCEPT !.polls = @ + 1] /\ UNCHANGED cut
    BY <1>2 DEF PollMisses
  <2>2. /\ Content(page, page') /\ Same(page, page')
        /\ page'.socket = page.socket /\ page'.loading = page.loading
    BY <1>1, <2>1 DEF IsPage, PageFields, Content, Same
  <2> QED BY <1>1, <2>1, <2>2
<1>3. CASE TimedOut \/ SocketLost
  <2>1. /\ cut' = TRUE
        /\ page' = [[[page EXCEPT !.socket = None, !.polls = 0, !.deaf = FALSE]
                       EXCEPT !.active = None, !.loading = FALSE] EXCEPT !.error = TRUE]
    BY <1>3 DEF TimedOut, SocketLost, GivenUp, Ended, Disconnected
  <2>2. Content(page, page') /\ Same(page, page') /\ page'.socket = None
    BY <1>1, <2>1 DEF IsPage, PageFields, Content, Same
  <2> QED BY <1>1, <2>1, <2>2
<1>4. CASE SocketSilent
  <2>1. page' = [page EXCEPT !.deaf = TRUE] /\ cut' = TRUE
    BY <1>4 DEF SocketSilent
  <2>2. Content(page, page') /\ Same(page, page') /\ page'.socket = page.socket
    BY <1>1, <2>1 DEF IsPage, PageFields, Content, Same
  <2> QED BY <1>1, <2>1, <2>2
<1> QED BY <1>2, <1>3, <1>4

(* The agents touch no more than the chats.                                *)
LEMMA AgentEffect ==
  ASSUME TypeInv, Agent
  PROVE  /\ UNCHANGED <<page, calls, sent, crossed, cut>>
         /\ \E q \in working : \E m \in Message :
              /\ q \in Question /\ q.conv \in Conv
              /\ chat' = [chat EXCEPT ![q.conv] = Append(chat[q.conv], m)]
              /\ \/ /\ m = Msg("thinking", q) /\ UNCHANGED working
                    /\ \A i \in 1 .. Len(chat[q.conv]) : chat[q.conv][i] # m
                 \/ m = Msg("reply", q) /\ working' = working \ {q}
<1>1. PICK q \in working : AgentThinks(q) \/ AgentReplies(q)
  BY DEF Agent
<1>2. q \in Question /\ q.conv \in Conv
  BY DEF TypeInv, PageTypeOK, Question
<1>3. Msg("thinking", q) \in Message /\ Msg("reply", q) \in Message
  BY <1>2 DEF Msg, Message
<1> QED BY <1>1, <1>2, <1>3 DEF AgentThinks, AgentReplies
----------------------------------------------------------------------------
(* The page shows one conversation.  What belongs to conversation c:       *)
MessagesOf(c) == {m \in Message : m.of.conv = c}
TurnsOf(c) == {t \in Turn : /\ t.messages \in Seq(MessagesOf(c))
                            /\ t.answer \in MessagesOf(c) \cup {None}}

PageOf(p, c) == /\ p.messages \in Seq(MessagesOf(c))
                /\ p.answer \in MessagesOf(c) \cup {None}
                /\ p.completed \in Seq(TurnsOf(c))

(* A page that shows its addressee's conversation, is subscribed to it,    *)
(* and waits for requests that concern it; a POST to a conversation still  *)
(* to be named finds nothing shown.                                        *)
Shows(p, ks) ==
  /\ AddresseeOf(p) # None => PageOf(p, AddresseeOf(p))
  /\ p.socket # None /\ AddresseeOf(p) # None => p.socket = AddresseeOf(p)
  /\ \A k \in ks : IF k.op = "new" THEN Empty(p) ELSE AddresseeOf(p) = k.conv

(* What is stored and fetched is of its own conversation; and as long as   *)
(* the user walked away from no request, so is what the page shows.        *)
ShownInv ==
  /\ \A c \in Conv : chat[c] \in Seq(MessagesOf(c))
  /\ \A k \in calls : k.copy \in Seq(TurnsOf(k.conv))
  /\ ~crossed => Shows(page, calls)

(* An empty page shows whatever conversation it is for.                    *)
LEMMA EmptyIsOf ==
  ASSUME NEW p, Empty(p), NEW c
  PROVE  PageOf(p, c)
BY DEF Empty, PageOf

(* A longer alphabet has longer words.                                     *)
LEMMA SeqGrows ==
  ASSUME NEW M, NEW N, M \subseteq N, NEW s \in Seq(M)
  PROVE  s \in Seq(N)
OBVIOUS

(* Messages picked from a conversation are of that conversation.           *)
LEMMA PickedOf ==
  ASSUME NEW M, NEW msgs \in Seq(M)
  PROVE  Agents(msgs) \in Seq(M) /\ Thinking(msgs) \in Seq(M)
<1>1. \A S : S \subseteq 1 .. Len(msgs) => Picked(msgs, S) \in Seq(M)
  BY PickedAt
<1> QED BY <1>1 DEF Agents, Thinking

(* So are the turns splitTurns makes of its messages.                      *)
LEMMA SplitOf ==
  ASSUME NEW c, NEW msgs \in Seq(MessagesOf(c))
  PROVE  Split(msgs) \in Seq(TurnsOf(c))
<1>1. msgs \in Seq(Message)
  BY SeqGrows DEF MessagesOf
<1>2. ASSUME NEW e \in RepliesOf(msgs)
      PROVE  TurnTo(msgs, e) \in TurnsOf(c)
  <2> DEFINE t == TurnTo(msgs, e)
             b == Before(msgs, e)
  <2>1. /\ t \in Turn /\ t.answer = msgs[e] /\ Len(t.messages) = e - b
        /\ \A i \in 1 .. e - b : t.messages[i] = msgs[b + i] /\ b + i \in 1 .. Len(msgs)
    BY <1>1, TurnToType
  <2>2. e \in 1 .. Len(msgs)
    BY DEF RepliesOf
  <2> HIDE DEF t, b
  <2>3. t.messages \in Seq(Message)
    BY <2>1 DEF Turn
  <2>4. \A i \in 1 .. Len(msgs) : msgs[i] \in MessagesOf(c)
    OBVIOUS
  <2>5. t.messages \in Seq(MessagesOf(c)) /\ t.answer \in MessagesOf(c)
    <3>1. \A i \in 1 .. Len(t.messages) : t.messages[i] \in MessagesOf(c)
      BY <2>1, <2>4
    <3> HIDE DEF MessagesOf
    <3> QED BY <2>1, <2>2, <2>3, <2>4, <3>1
  <2> QED BY <2>1, <2>5 DEF TurnsOf, t
<1>3. /\ Split(msgs) \in Seq(Turn)
      /\ \A n \in 1 .. Len(Split(msgs)) : Split(msgs)[n] \in TurnsOf(c)
  BY <1>1, <1>2, SplitAt
<1> QED BY <1>3

(* A page whose content is kept, and that speaks to the same conversation, *)
(* shows what it showed.                                                   *)
LEMMA KeptShows ==
  ASSUME NEW p, NEW q, NEW ks, NEW js, Shows(p, ks), Content(p, q),
         AddresseeOf(q) = AddresseeOf(p), q.socket \in {p.socket, None}, js \subseteq ks
  PROVE  Shows(q, js)
BY DEF Shows, Content, PageOf, Empty

(* A turn of a conversation remains one when only its log is kept.         *)
LEMMA CompletedOf ==
  ASSUME NEW c, NEW t \in TurnsOf(c)
  PROVE  Completed(t) \in TurnsOf(c)
<1>1. /\ t \in Turn /\ t.messages \in Seq(MessagesOf(c))
      /\ t.answer \in MessagesOf(c) \cup {None} /\ t.messages \in Seq(Message)
  BY DEF TurnsOf, Turn
<1>2. Thinking(t.messages) \in Seq(MessagesOf(c)) /\ Thinking(t.messages) \in Seq(Message)
  BY <1>1, PickedOf
<1> QED BY <1>1, <1>2 DEF Completed, TurnsOf, Turn

(* The callback of getChat fills the page with the chat it was asked for.  *)
LEMMA FilledOf ==
  ASSUME NEW p, NEW q, NEW c, NEW turns \in Seq(TurnsOf(c)), turns # << >>,
         Filled(p, q, turns)
  PROVE  PageOf(q, c)
<1> DEFINE last == turns[Len(turns)]
           prev == SubSeq(turns, 1, Len(turns) - 1)
           done == [i \in 1 .. Len(prev) |-> Completed(prev[i])]
<1>1. last \in TurnsOf(c) /\ prev \in Seq(TurnsOf(c))
  OBVIOUS
<1>2. q.messages = last.messages /\ q.answer = last.answer /\ q.completed = done
  BY DEF Filled
<1> HIDE DEF last, prev
<1>3. done \in Seq(TurnsOf(c))
  <2>1. \A i \in 1 .. Len(prev) : Completed(prev[i]) \in TurnsOf(c)
    BY <1>1, CompletedOf
  <2> QED BY <1>1, <2>1
<1>4. last.messages \in Seq(MessagesOf(c)) /\ last.answer \in MessagesOf(c) \cup {None}
  BY <1>1 DEF TurnsOf
<1> HIDE DEF done
<1> QED BY <1>2, <1>3, <1>4 DEF PageOf

(* A request has nothing fetched yet.                                      *)
LEMMA RequestOf ==
  ASSUME ShownInv, NEW op, NEW c, NEW n, calls' \subseteq calls \cup {Request(op, c, n)}
  PROVE  \A k \in calls' : k.copy \in Seq(TurnsOf(k.conv))
<1>1. Request(op, c, n).copy = << >> /\ << >> \in Seq(TurnsOf(Request(op, c, n).conv))
  BY DEF Request
<1> QED BY <1>1 DEF ShownInv

(* Navigating, without a request in flight: to a chat that is loaded, to a *)
(* fresh page, or back to the bare address.                                *)
LEMMA NavigateShows ==
  ASSUME TypeInv, IInv, ShownInv, NEW s \in BOOLEAN, NEW u \in Conv \cup {None},
         Navigate(s, u)
  PROVE  ShownInv'
<1>1. /\ UNCHANGED chat /\ crossed' = (crossed \/ calls # {}) /\ NavigatedTo(u)
      /\ crossed \in BOOLEAN
  BY NavigateEffect DEF IInv
<1>2. \A k \in calls' : k.copy \in Seq(TurnsOf(k.conv))
  BY <1>1, RequestOf DEF NavigatedTo
<1>3. ASSUME ~crossed' PROVE Shows(page', calls')
  <2>1. ~crossed /\ calls = {} /\ Shows(page, calls)
    BY <1>1, <1>3 DEF ShownInv
  <2>2. CASE /\ u \in Conv /\ calls' = calls \cup {Request("load", u, acts)}
             /\ Reset(page') /\ AddresseeOf(page') = u
    <3>1. \A k \in calls' : k.op = "load" /\ k.conv = u
      BY <2>1, <2>2 DEF Request
    <3> QED BY <2>2, <3>1, EmptyIsOf DEF Shows, Reset
  <2>3. CASE UNCHANGED calls /\ Reset(page')
    BY <2>1, <2>3, EmptyIsOf DEF Shows, Reset
  <2>4. CASE /\ UNCHANGED calls /\ Content(page, page') /\ page'.url = None
             /\ page'.conversation = page.conversation /\ page'.socket = page.socket
    BY <2>1, <2>4 DEF Shows, Content, AddresseeOf, PageOf
  <2> QED BY <1>1, <2>2, <2>3, <2>4 DEF NavigatedTo
<1> QED BY <1>1, <1>2, <1>3 DEF ShownInv

(* A first message clears the page.                                        *)
LEMMA SearchShows ==
  ASSUME TypeInv, IInv, ShownInv, NEW c \in Conv, Search(c)
  PROVE  ShownInv'
<1>1. /\ UNCHANGED <<chat, crossed>> /\ ~page.loading
      /\ calls' = calls \cup {Request("new", c, 1)} /\ Reset(page')
  BY SearchEffect
<1>2. \A k \in calls' : k.copy \in Seq(TurnsOf(k.conv))
  BY <1>1, RequestOf
<1>3. ~crossed' => \A k \in calls' : k.op = "new"
  BY <1>1, NothingInFlight DEF Request
<1>4. ~crossed' => Shows(page', calls')
  BY <1>1, <1>3, EmptyIsOf DEF Shows, Reset
<1> QED BY <1>1, <1>2, <1>4 DEF ShownInv

(* A further one goes to the addressee, and the turn that is over with it. *)
LEMMA ContinueShows ==
  ASSUME TypeInv, IInv, ShownInv, Continue
  PROVE  ShownInv'
<1> DEFINE c == AddresseeOf(page)
           done == IF page.question = None THEN page.completed
                   ELSE Append(page.completed, Over)
<1>1. /\ UNCHANGED <<chat, crossed>> /\ ~page.loading /\ c \in Conv /\ c # None
      /\ calls' = calls \cup {Request("continue", c, sent[c] + 1)}
      /\ page'.messages = << >> /\ page'.answer = None /\ page'.completed = done
      /\ Same(page, page') /\ page'.socket = None
  BY ContinueEffect, PageAssumption
<1>2. AddresseeOf(page') = c
  BY <1>1 DEF Same, AddresseeOf
<1>3. \A k \in calls' : k.copy \in Seq(TurnsOf(k.conv))
  BY <1>1, RequestOf
<1>4. ASSUME ~crossed' PROVE Shows(page', calls')
  <2>1. PageOf(page, c) /\ calls = {}
    BY <1>1, <1>4, NothingInFlight DEF ShownInv, Shows
  <2>2. /\ page.question \in Question \cup {None}
        /\ page.messages \in Seq(Message) /\ page.answer \in Message \cup {None}
    BY DEF TypeInv, PageTypeOK, Page
  <2>3. /\ Thinking(page.messages) \in Seq(Message)
        /\ Thinking(page.messages) \in Seq(MessagesOf(c))
    BY <2>1, <2>2, PickedOf DEF PageOf
  <2>4. Over \in TurnsOf(c)
    BY <2>1, <2>2, <2>3 DEF TurnsOf, Turn, PageOf, Over
  <2>5. done \in Seq(TurnsOf(c))
    BY <2>1, <2>4 DEF PageOf
  <2> HIDE DEF done, c
  <2>6. PageOf(page', c)
    BY <1>1, <2>5 DEF PageOf
  <2>7. \A k \in calls' : k.op = "continue" /\ k.conv = c
    BY <1>1, <2>1 DEF Request
  <2> QED BY <1>1, <1>2, <2>6, <2>7 DEF Shows
<1> QED BY <1>1, <1>3, <1>4 DEF ShownInv

(* A call at another stage is a call of its conversation, and what it      *)
(* fetches or stores is of that conversation.                              *)
LEMMA ServeShows ==
  ASSUME TypeInv, IInv, ShownInv, NEW k \in calls, Serve(k) \/ CallFails(k)
  PROVE  ShownInv'
<1>t. /\ k \in Call /\ k.conv \in Conv /\ chat \in [Conv -> Seq(Message)]
  BY DEF TypeInv, PageTypeOK, Call
<1>1. PICK j : /\ Staged(k, j) /\ UNCHANGED <<page, crossed>>
               /\ j.copy \in {k.copy, << >>, Split(chat[k.conv])}
               /\ \/ UNCHANGED chat
                  \/ LET q == [conv |-> k.conv, turn |-> k.n] IN
                     /\ k.op # "load"
                     /\ chat' = [chat EXCEPT ![k.conv] = Append(@, Msg("ask", q))]
  BY ServeEffect, CallFailsEffect
<1>2. j.copy \in Seq(TurnsOf(k.conv))
  <2>1. /\ k.copy \in Seq(TurnsOf(k.conv)) /\ << >> \in Seq(TurnsOf(k.conv))
        /\ Split(chat[k.conv]) \in Seq(TurnsOf(k.conv))
    BY <1>t, SplitOf DEF ShownInv
  <2> QED BY <1>1, <2>1
<1>3. \A c \in Conv : chat'[c] \in Seq(MessagesOf(c))
  <2>1. CASE UNCHANGED chat
    BY <2>1 DEF ShownInv
  <2> DEFINE m == Msg("ask", [conv |-> k.conv, turn |-> k.n])
  <2>2. CASE /\ k.op # "load"
             /\ chat' = [chat EXCEPT ![k.conv] = Append(chat[k.conv], m)]
    <3>1. m \in MessagesOf(k.conv)
      BY <1>t, <2>2 DEF Call, Msg, Message, Question, MessagesOf
    <3> HIDE DEF m
    <3>2. Append(chat[k.conv], m) \in Seq(MessagesOf(k.conv))
      BY <1>t, <3>1 DEF ShownInv
    <3> QED BY <1>t, <2>2, <3>2 DEF ShownInv
  <2> QED BY <1>1, <2>1, <2>2
<1>4. \A i \in calls' : i.copy \in Seq(TurnsOf(i.conv))
  BY <1>1, <1>2 DEF ShownInv, Staged
<1>5. ~crossed => Shows(page', calls')
  BY <1>1 DEF ShownInv, Shows, Staged
<1> QED BY <1>1, <1>3, <1>4, <1>5 DEF ShownInv

(* A callback concerns the conversation the page is for.                   *)
LEMMA SettleShows ==
  ASSUME TypeInv, IInv, ShownInv, NEW k \in calls, Settle(k)
  PROVE  ShownInv'
<1>1. /\ k.conv \in Conv /\ k.conv # None /\ k.copy \in Seq(TurnsOf(k.conv))
      /\ calls' = calls \ {k} /\ UNCHANGED <<chat, crossed>> /\ SettledAs(k)
  BY SettleEffect, PageAssumption DEF IInv, IsCall, ShownInv
<1>2. ASSUME ~crossed' PROVE Shows(page', calls')
  <2>1. /\ calls' = {} /\ page.socket = None /\ Shows(page, calls)
        /\ IF k.op = "new" THEN Empty(page) ELSE AddresseeOf(page) = k.conv
    BY <1>1, <1>2 DEF IInv, OneRequest, ShownInv, Shows
  <2>2. CASE /\ Content(page, page') /\ Same(page, page') /\ page'.socket = page.socket
    <3>1. AddresseeOf(page') = AddresseeOf(page)
      BY <2>2 DEF Same, AddresseeOf
    <3> QED BY <2>1, <2>2, <3>1, KeptShows
  <2>3. CASE /\ k.op = "load" /\ k.copy # << >> /\ Filled(page, page', k.copy)
             /\ Same(page, page') /\ page'.socket = page.socket
    <3>1. AddresseeOf(page') = k.conv
      BY <2>1, <2>3 DEF Same, AddresseeOf
    <3>2. PageOf(page', k.conv)
      BY <1>1, <2>3, FilledOf
    <3> QED BY <2>1, <2>3, <3>1, <3>2 DEF Shows
  <2>4. CASE /\ k.op # "load" /\ Content(page, page') /\ page'.url = page.url
             /\ page'.conversation = IF k.op = "new" THEN k.conv ELSE page.conversation
             /\ page'.socket = k.conv
    <3>1. AddresseeOf(page') = k.conv
      BY <1>1, <2>1, <2>4 DEF AddresseeOf
    <3>2. PageOf(page, k.conv)
      BY <1>1, <2>1, EmptyIsOf DEF Shows
    <3>3. PageOf(page', k.conv)
      BY <2>4, <3>2 DEF PageOf, Content
    <3> QED BY <2>1, <2>4, <3>1, <3>3 DEF Shows
  <2> QED BY <1>1, <2>2, <2>3, <2>4 DEF SettledAs
<1> QED BY <1>1, <1>2 DEF ShownInv

(* An update is of the conversation the socket has subscribed to.          *)
LEMMA PollFindsShows ==
  ASSUME TypeInv, IInv, ShownInv, PollFinds
  PROVE  ShownInv'
<1> DEFINE d == page.socket
           msgs == chat[d]
           all  == Agents(msgs)
           part == SubSeq(all, page.offset + 1, Len(all))
<1>1. /\ d \in Conv /\ d # None /\ UNCHANGED <<chat, calls, crossed>>
      /\ page'.messages = part /\ page'.completed = page.completed
      /\ Same(page, page')
      /\ page'.answer = page.answer
           \/ (Replied(msgs) /\ page'.answer = msgs[Len(msgs)])
      /\ page'.socket \in {page.socket, None}
  BY PollFindsEffect
<1>2. page.offset \in Nat
  BY DEF TypeInv, PageTypeOK, Page
<1>3. msgs \in Seq(MessagesOf(d))
  BY <1>1 DEF ShownInv
<1> HIDE DEF msgs
<1>4. part \in Seq(MessagesOf(d))
  <2>1. all \in Seq(MessagesOf(d))
    BY <1>3, PickedOf
  <2> HIDE DEF all
  <2> QED BY <1>2, <2>1
<1>5. Replied(msgs) => msgs[Len(msgs)] \in MessagesOf(d)
  BY <1>3 DEF Replied
<1> HIDE DEF part, d
<1>6. ASSUME ~crossed' PROVE Shows(page', calls')
  <2>1. calls' = {} /\ Shows(page, calls)
    BY <1>1, <1>6, NothingInFlight DEF ShownInv, d
  <2>2. AddresseeOf(page') = AddresseeOf(page)
    BY <1>1 DEF Same, AddresseeOf
  <2>3. ASSUME AddresseeOf(page) # None
        PROVE  PageOf(page', AddresseeOf(page)) /\ d = AddresseeOf(page)
    <3>1. d = AddresseeOf(page) /\ PageOf(page, d)
      BY <1>1, <2>1, <2>3 DEF Shows, d
    <3> QED BY <1>1, <1>4, <1>5, <3>1 DEF PageOf
  <2> QED BY <1>1, <2>1, <2>2, <2>3 DEF Shows, d
<1> QED BY <1>1, <1>6 DEF ShownInv

(* The other events of the socket change nothing that is shown.            *)
LEMMA SocketShows ==
  ASSUME TypeInv, IInv, ShownInv, PollMisses \/ TimedOut \/ SocketLost \/ SocketSilent
  PROVE  ShownInv'
<1>1. /\ UNCHANGED <<chat, calls, crossed>> /\ Content(page, page') /\ Same(page, page')
      /\ page'.socket \in {page.socket, None}
  BY SocketEffect
<1>2. AddresseeOf(page') = AddresseeOf(page)
  BY <1>1 DEF Same, AddresseeOf
<1>3. ~crossed => Shows(page', calls)
  BY <1>1, <1>2, KeptShows DEF ShownInv
<1> QED BY <1>1, <1>3 DEF ShownInv

(* An agent speaks in the conversation of its question.                    *)
LEMMA AgentShows ==
  ASSUME TypeInv, ShownInv, Agent
  PROVE  ShownInv'
<1>1. /\ UNCHANGED <<page, calls, crossed>>
      /\ \E q \in working : \E m \in Message :
           /\ q.conv \in Conv /\ m \in {Msg("thinking", q), Msg("reply", q)}
           /\ chat' = [chat EXCEPT ![q.conv] = Append(chat[q.conv], m)]
  BY AgentEffect
<1>2. PICK q \in working, m \in Message :
        /\ q.conv \in Conv /\ m \in {Msg("thinking", q), Msg("reply", q)}
        /\ chat' = [chat EXCEPT ![q.conv] = Append(chat[q.conv], m)]
  BY <1>1
<1>3. m \in MessagesOf(q.conv)
  BY <1>2 DEF Msg, MessagesOf
<1>4. Append(chat[q.conv], m) \in Seq(MessagesOf(q.conv)) /\ chat \in [Conv -> Seq(Message)]
  BY <1>2, <1>3 DEF ShownInv, TypeInv, PageTypeOK
<1> QED BY <1>1, <1>2, <1>4 DEF ShownInv

(* Every step keeps the three invariants together.                         *)
LEMMA NextShows ==
  TypeInv /\ IInv /\ ShownInv /\ [Next]_vars => ShownInv'
<1> SUFFICES ASSUME TypeInv, IInv, ShownInv, [Next]_vars PROVE ShownInv'
  OBVIOUS
<1>1. CASE UNCHANGED vars
  BY <1>1 DEF vars, ShownInv
<1> QED
  BY <1>1, NavigateShows, SearchShows, ContinueShows, ServeShows, SettleShows,
     PollFindsShows, SocketShows, AgentShows
     DEF Next, User, Network, Socket, Failure

(* A page that shows nothing shows nobody else's.                          *)
LEMMA InitShown == Init => ShownInv
<1> SUFFICES ASSUME Init PROVE ShownInv
  OBVIOUS
<1>1. Empty(page) /\ page.socket = None
  BY DEF Init, Blank, Empty
<1>2. Shows(page, calls)
  BY <1>1, EmptyIsOf DEF Init, Shows
<1> QED BY <1>2 DEF Init, ShownInv

(* The turns on the screen are the completed ones and the current one.     *)
Current == [question |-> page.question, messages |-> Thinking(page.messages),
            answer |-> IF page.loading THEN None ELSE page.answer]

LEMMA RenderedIs ==
  ASSUME page \in Page
  PROVE  /\ Current \in Turn /\ Rendered \in Seq(Turn)
         /\ Rendered = IF page.question = None THEN page.completed
                       ELSE Append(page.completed, Current)
<1>1. /\ page.question \in Question \cup {None} /\ page.completed \in Seq(Turn)
      /\ page.messages \in Seq(Message) /\ page.answer \in Message \cup {None}
  BY DEF Page
<1>2. Thinking(page.messages) \in Seq(Message)
  BY <1>1, PickedKinds
<1>3. Current \in Turn
  BY <1>1, <1>2 DEF Current, Turn
<1>4. Rendered = page.completed \o IF page.question = None THEN << >> ELSE <<Current>>
  BY DEF Rendered, Current
<1> DEFINE done == page.completed
<1>5. done \o << >> = done /\ done \o <<Current>> = Append(done, Current)
  <2> HIDE DEF done
  <2> QED BY <1>1, <1>3 DEF done
<1>6. Rendered = IF page.question = None THEN done ELSE Append(done, Current)
  BY <1>4, <1>5
<1> HIDE DEF done
<1>7. Append(done, Current) \in Seq(Turn)
  BY <1>1, <1>3 DEF done
<1> QED BY <1>1, <1>3, <1>6, <1>7 DEF done

(* As long as the user walks away from no request, every message and every *)
(* answer on the page was said in the conversation the next message will   *)
(* go to: handleContinue never adds to a chat other than the one shown.    *)
THEOREM AddresseeAlwaysShown == Spec => []AddresseeIsShown
<1>1. TypeInv /\ ShownInv => AddresseeIsShown
  <2> SUFFICES ASSUME TypeInv, ShownInv, ~crossed, Addressee # None,
                      NEW t \in Range(Rendered),
                      NEW m \in Range(t.messages) \cup ({t.answer} \ {None})
               PROVE  m.of.conv = Addressee
    BY DEF AddresseeIsShown
  <2> DEFINE c == Addressee
  <2>1. PageOf(page, c) /\ page \in Page
    BY DEF ShownInv, Shows, Addressee, AddresseeOf, TypeInv, PageTypeOK
  <2> HIDE DEF c
  <2>2. page.messages \in Seq(Message) /\ Current \in Turn
    BY <2>1, RenderedIs DEF Page
  <2>3. Thinking(page.messages) \in Seq(MessagesOf(c))
    BY <2>1, PickedOf DEF PageOf
  <2>4. Current \in TurnsOf(c)
    BY <2>1, <2>2, <2>3 DEF TurnsOf, PageOf, Current
  <2>5. Rendered \in Seq(TurnsOf(c))
    BY <2>1, <2>4, RenderedIs DEF PageOf
  <2>6. t \in TurnsOf(c)
    BY <2>5 DEF Range
  <2>7. t.messages \in Seq(MessagesOf(c)) /\ t.answer \in MessagesOf(c) \cup {None}
    BY <2>6 DEF TurnsOf
  <2>8. \A x \in Range(t.messages) : x \in MessagesOf(c)
    BY <2>7 DEF Range
  <2>9. m \in MessagesOf(c)
    BY <2>7, <2>8
  <2> QED BY <2>9 DEF MessagesOf, c
<1> QED
  BY <1>1, TypeInvariant, InitIInv, NextIInv, InitShown, NextShows, PTL DEF Spec
----------------------------------------------------------------------------
(* Induction, for a set in place of a predicate.                           *)
LEMMA UpTo ==
  ASSUME NEW m \in Nat, NEW T, 0 \in T,
         \A n \in Nat : n < m /\ n \in T => n + 1 \in T
  PROVE  \A n \in 0 .. m : n \in T
<1> DEFINE U == {n \in 0 .. m : n \notin T}
<1>1. SUFFICES ASSUME U # {} PROVE FALSE
  OBVIOUS
<1>2. U \subseteq Nat
  OBVIOUS
<1>3. PICK u \in U : \A v \in U : u <= v
  BY <1>1, <1>2, LeastElement
<1>4. u \in 0 .. m /\ u \notin T /\ u # 0
  OBVIOUS
<1>5. u - 1 \in Nat /\ u - 1 < m /\ u - 1 \in 0 .. m /\ (u - 1) + 1 = u /\ ~(u <= u - 1)
  BY <1>4
<1>6. u - 1 \in T
  BY <1>3, <1>5
<1> QED BY <1>4, <1>5, <1>6

(* Different ranks, different indexes.                                     *)
LEMMA NthApart ==
  ASSUME NEW m \in Nat, NEW S, S \subseteq 1 .. m,
         NEW n \in 1 .. Cardinality(S), NEW l \in 1 .. Cardinality(S),
         Nth(S, n) = Nth(S, l)
  PROVE  n = l
BY NthRank

(* Indexes of some sequence.                                               *)
IndexSet(S) == \E m \in Nat : S \subseteq 1 .. m

(* A run of indexes of the set counts one by one.                          *)
LEMMA RankRun ==
  ASSUME NEW S, IndexSet(S)
  PROVE  \A b, d \in Nat : (\A k \in 1 .. d : b + k \in S) =>
           \A k \in 0 .. d : Rank(S, b + k) = Rank(S, b) + k
<1> PICK m \in Nat : S \subseteq 1 .. m
  BY DEF IndexSet
<1>s. ASSUME NEW j \in Nat, j # 0, j \in S
      PROVE  Rank(S, j) = Rank(S, j - 1) + 1
  BY ZenonT(60), <1>s, RankStep
<1> TAKE b, d \in Nat
<1>0. Rank(S, b) \in Nat
  BY RankType
<1> HAVE \A k \in 1 .. d : b + k \in S
<1> DEFINE T == {k \in Nat : Rank(S, b + k) = Rank(S, b) + k}
<1>1. 0 \in T
  BY <1>0
<1>2. ASSUME NEW k \in Nat, k < d, k \in T PROVE k + 1 \in T
  <2> DEFINE j == b + (k + 1)
  <2>1. k + 1 \in Nat /\ j \in S /\ j \in Nat /\ j # 0 /\ j - 1 = b + k
    BY <1>2
  <2> HIDE DEF j
  <2>2. Rank(S, j) = Rank(S, j - 1) + 1
    BY <1>s, <2>1
  <2>3. Rank(S, b + k) = Rank(S, b) + k
    BY <1>2
  <2>4. Rank(S, j) = Rank(S, b) + (k + 1)
    BY <1>0, <2>1, <2>2, <2>3
  <2> QED BY <2>1, <2>4 DEF j
<1> HIDE DEF T
<1>3. \A k \in 0 .. d : k \in T
  BY <1>1, <1>2, UpTo
<1> QED BY <1>3 DEF T

(* What is said later changes nothing that was picked before.              *)
LEMMA PickedAppend ==
  ASSUME NEW M, NEW msgs \in Seq(M), NEW m \in M, NEW S, S \subseteq 1 .. Len(msgs)
  PROVE  /\ Picked(Append(msgs, m), S) = Picked(msgs, S)
         /\ Picked(Append(msgs, m), S \cup {Len(msgs) + 1}) = Append(Picked(msgs, S), m)
<1> DEFINE n == Len(msgs)
           t == Append(msgs, m)
           U == S \cup {n + 1}
           c == Cardinality(S)
<1>1. /\ n \in Nat /\ t \in Seq(M) /\ Len(t) = n + 1 /\ t[n + 1] = m
      /\ \A i \in 1 .. n : t[i] = msgs[i]
  OBVIOUS
<1>2. /\ S \subseteq 1 .. n + 1 /\ U \subseteq 1 .. n + 1 /\ n + 1 \in Nat
      /\ n + 1 \notin S /\ n + 1 \in U /\ S \subseteq U
  <2>1. n + 1 \in 1 .. n + 1 /\ n + 1 \notin 1 .. n /\ \A i \in 1 .. n : i \in 1 .. n + 1
    BY <1>1
  <2>2. S \subseteq 1 .. n
    OBVIOUS
  <2> HIDE DEF n
  <2> QED BY <1>1, <2>1, <2>2
<1>3. IsFiniteSet(S) /\ c \in Nat
  BY <1>1, RankType
<1>4. Cardinality(U) = c + 1
  BY <1>2, <1>3, FS_AddElement
<1>5. ASSUME NEW k \in 1 .. c
      PROVE  /\ Nth(S, k) \in 1 .. n
             /\ Nth(U, k) = Nth(S, k)
  <2> DEFINE i == Nth(S, k)
  <2>1. i \in S /\ Rank(S, i) = k
    BY <1>1, NthRank
  <2> HIDE DEF i
  <2>2. i \in 1 .. n /\ i \in U
    BY <2>1
  <2>3. U \cap (1 .. i) = S \cap (1 .. i)
    BY <1>1, <2>2
  <2>4. Rank(U, i) = k
    BY <2>1, <2>3 DEF Rank
  <2>5. Nth(U, Rank(U, i)) = i
    BY <1>2, <2>2, NthOfRank
  <2> QED BY <2>2, <2>4, <2>5 DEF i
<1>6. Nth(U, c + 1) = n + 1
  <2> HIDE DEF U, n, c
  <2>1. Rank(U, n + 1) = c + 1
    <3> DEFINE k == n + 1
    <3>1. k \in Nat /\ U \subseteq 1 .. k
      BY <1>2
    <3> HIDE DEF k
    <3>2. Rank(U, k) = Cardinality(U)
      BY <3>1, RankType
    <3> QED BY <1>4, <3>2 DEF k
  <2> QED BY <1>2, <2>1, NthOfRank
<1> HIDE DEF U, c, n
<1>7. Picked(t, S) = Picked(msgs, S)
  <2>1. \A k \in 1 .. c : t[Nth(S, k)] = msgs[Nth(S, k)]
    BY <1>1, <1>5
  <2> QED BY <2>1 DEF Picked, c
<1>8. Picked(t, U) = Append(Picked(msgs, S), m)
  <2> DEFINE p == Picked(msgs, S)
  <2>1. p = [k \in 1 .. c |-> msgs[Nth(S, k)]] /\ p \in Seq(M) /\ Len(p) = c
    <3>1. Picked(msgs, S) \in Seq(M) /\ Len(Picked(msgs, S)) = Cardinality(S)
      BY PickedAt
    <3> QED BY <3>1 DEF Picked, c
  <2>2. Picked(t, U) = [k \in 1 .. c + 1 |-> t[Nth(U, k)]]
    BY <1>4 DEF Picked
  <2> HIDE DEF p
  <2>3. \A k \in 1 .. c : t[Nth(U, k)] = p[k]
    BY <1>1, <1>5, <2>1
  <2>4. t[Nth(U, c + 1)] = m
    BY <1>1, <1>6
  <2>5. Append(p, m) = [k \in 1 .. c + 1 |-> IF k \in 1 .. c THEN p[k] ELSE m]
    BY <1>3, <2>1
  <2>6. \A k \in 1 .. c + 1 : k \in 1 .. c \/ k = c + 1
    BY <1>3
  <2>7. c + 1 \notin 1 .. c
    BY <1>3
  <2> HIDE DEF t
  <2>8. \A k \in 1 .. c + 1 : t[Nth(U, k)] = IF k \in 1 .. c THEN p[k] ELSE m
    BY <2>3, <2>4, <2>6, <2>7
  <2> QED BY <2>2, <2>5, <2>8 DEF p
<1> QED BY <1>7, <1>8 DEF U, n

(* The agents' messages of a chat that grew.                               *)
LEMMA AgentsAppend ==
  ASSUME NEW msgs \in Seq(Message), NEW m \in Message
  PROVE  Agents(Append(msgs, m)) =
           IF IsAgents(m) THEN Append(Agents(msgs), m) ELSE Agents(msgs)
<1> DEFINE n == Len(msgs)
           t == Append(msgs, m)
           S == {i \in 1 .. n : IsAgents(msgs[i])}
           U == {i \in 1 .. Len(t) : IsAgents(t[i])}
<1>1. /\ n \in Nat /\ Len(t) = n + 1 /\ t[n + 1] = m
      /\ \A i \in 1 .. n : t[i] = msgs[i]
  OBVIOUS
<1>2. \A i \in 1 .. n + 1 : i \in 1 .. n \/ i = n + 1
  BY <1>1
<1>3. n + 1 \in 1 .. n + 1 /\ \A i \in 1 .. n : i \in 1 .. n + 1
  BY <1>1
<1>4. U = IF IsAgents(m) THEN S \cup {n + 1} ELSE S
  <2> HIDE DEF t, n
  <2> QED BY <1>1, <1>2, <1>3
<1>5. /\ Picked(t, S) = Picked(msgs, S)
      /\ Picked(t, S \cup {n + 1}) = Append(Picked(msgs, S), m)
  BY PickedAppend
<1> HIDE DEF S
<1> QED BY <1>4, <1>5 DEF Agents, S

(* Where the agents' messages stand in the chat.                           *)
LEMMA AgentsAt ==
  ASSUME NEW msgs \in Seq(Message)
  PROVE  LET A == Agents(msgs)
             S == {i \in 1 .. Len(msgs) : IsAgents(msgs[i])}
         IN  /\ A \in Seq(Message) /\ S \subseteq 1 .. Len(msgs)
             /\ Len(A) = Cardinality(S)
             /\ \A n \in 1 .. Len(A) : Nth(S, n) \in S /\ A[n] = msgs[Nth(S, n)]
             /\ \A n, l \in 1 .. Len(A) : Nth(S, n) = Nth(S, l) => n = l
             /\ \A i \in S : Rank(S, i) \in 1 .. Len(A) /\ A[Rank(S, i)] = msgs[i]
<1> DEFINE A == Agents(msgs)
           S == {i \in 1 .. Len(msgs) : IsAgents(msgs[i])}
<1>1. S \subseteq 1 .. Len(msgs) /\ Len(msgs) \in Nat
  OBVIOUS
<1>2. A = Picked(msgs, S)
  BY DEF Agents
<1> HIDE DEF A, S
<1>3. /\ A \in Seq(Message) /\ Len(A) = Cardinality(S)
      /\ \A n \in 1 .. Cardinality(S) : A[n] = msgs[Nth(S, n)] /\ Nth(S, n) \in S
  BY ZenonT(60), <1>1, <1>2, PickedAt
<1>4. \A n, l \in 1 .. Cardinality(S) : Nth(S, n) = Nth(S, l) => n = l
  BY <1>1, NthApart
<1>5. \A i \in S : Rank(S, i) \in 1 .. Cardinality(S) /\ Nth(S, Rank(S, i)) = i
  BY <1>1, NthOfRank
<1> QED BY <1>1, <1>3, <1>4, <1>5 DEF A, S

(* A list in which no thought is told twice.                               *)
ThoughtsOnce(A) ==
  \A n, l \in 1 .. Len(A) : A[n] = A[l] /\ A[n].kind = "thinking" => n = l

(* The thinking log takes thoughts only, and none twice from such a list.  *)
LEMMA ThinkingAt ==
  ASSUME NEW msgs \in Seq(Message), NEW L, L = Thinking(msgs)
  PROVE  /\ L \in Seq(Message)
         /\ \A k \in 1 .. Len(L) : /\ L[k].kind = "thinking"
                                   /\ \E x \in 1 .. Len(msgs) : L[k] = msgs[x]
         /\ ThoughtsOnce(msgs) => \A k, l \in 1 .. Len(L) : L[k] = L[l] => k = l
<1> DEFINE S == {i \in 1 .. Len(msgs) : IsThinking(msgs[i])}
<1>1. S \subseteq 1 .. Len(msgs) /\ Len(msgs) \in Nat /\ \A i \in S : msgs[i].kind = "thinking"
  BY DEF IsThinking
<1>2. L = Picked(msgs, S)
  BY DEF Thinking
<1> HIDE DEF S
<1>p. /\ Picked(msgs, S) \in Seq(Message) /\ Len(Picked(msgs, S)) = Cardinality(S)
      /\ \A n \in 1 .. Cardinality(S) :
           Picked(msgs, S)[n] = msgs[Nth(S, n)] /\ Nth(S, n) \in S
  BY ZenonT(60), <1>1, PickedAt
<1>3. /\ L \in Seq(Message) /\ Len(L) = Cardinality(S)
      /\ \A n \in 1 .. Cardinality(S) : L[n] = msgs[Nth(S, n)] /\ Nth(S, n) \in S
  BY <1>p, <1>2
<1>4. \A k, l \in 1 .. Len(L) : Nth(S, k) = Nth(S, l) => k = l
  BY <1>1, <1>3, NthApart
<1>5. \A k \in 1 .. Len(L) : /\ L[k].kind = "thinking" /\ L[k] = msgs[Nth(S, k)]
                             /\ Nth(S, k) \in 1 .. Len(msgs)
  BY <1>1, <1>3
<1>6. ASSUME ThoughtsOnce(msgs), NEW k \in 1 .. Len(L), NEW l \in 1 .. Len(L), L[k] = L[l]
      PROVE  k = l
  <2>1. Nth(S, k) = Nth(S, l)
    BY <1>5, <1>6 DEF ThoughtsOnce
  <2> QED BY <1>4, <2>1
<1> QED BY <1>3, <1>5, <1>6
----------------------------------------------------------------------------
(* How many messages the first n turns show: the offset behind them.       *)
Upto(turns, n) == Shown(SubSeq(turns, 1, n))

(* No turn, no message; ...                                                *)
LEMMA ShownEmpty == Shown(<< >>) = 0
<1>1. UNION {{i} \X (1 .. Len((<< >>)[i].messages)) : i \in 1 .. Len(<< >>)} = {}
  <2>1. Len(<< >>) = 0 /\ 1 .. 0 = {}
    OBVIOUS
  <2> QED BY <2>1
<1> QED BY <1>1, FS_EmptySet DEF Shown

(* ... a turn more shows its messages more.                                *)
LEMMA ShownStep ==
  ASSUME NEW turns \in Seq(Turn), turns # << >>
  PROVE  LET n == Len(turns) IN
         Shown(turns) = Shown(SubSeq(turns, 1, n - 1)) + Len(turns[n].messages)
<1> DEFINE n == Len(turns)
           prev == SubSeq(turns, 1, n - 1)
           L == Len(turns[n].messages)
           U(ts) == UNION {{i} \X (1 .. Len(ts[i].messages)) : i \in 1 .. Len(ts)}
           P == {n} \X (1 .. L)
<1>1. /\ n \in Nat /\ n >= 1 /\ prev \in Seq(Turn) /\ Len(prev) = n - 1
      /\ \A i \in 1 .. n - 1 : prev[i] = turns[i]
  <2>1. n \in Nat /\ n >= 1
    OBVIOUS
  <2>2. n - 1 \in Nat /\ n - 1 <= Len(turns)
    BY <2>1
  <2>3. \A i \in 1 .. n - 1 : i \in 1 .. Len(turns) /\ turns[i] \in Turn
    BY <2>1
  <2> HIDE DEF n
  <2>4. prev \in Seq(Turn) /\ Len(prev) = n - 1
    BY <2>1, <2>2, <2>3
  <2>5. \A i \in 1 .. n - 1 : prev[i] = turns[i]
    BY <2>1, <2>2, <2>3
  <2> QED BY <2>1, <2>4, <2>5
<1>2. L \in Nat
  <2>1. turns[n] \in Turn
    BY <1>1
  <2> QED BY <2>1 DEF Turn
<1>3. \A i \in 1 .. n : i \in 1 .. n - 1 \/ i = n
  BY <1>1
<1>4. n \in 1 .. n /\ n \notin 1 .. n - 1 /\ \A i \in 1 .. n - 1 : i \in 1 .. n
  BY <1>1
<1> HIDE DEF prev
<1>5. U(turns) = U(prev) \cup P
  <2>1. \A x : x \in U(turns) <=>
               \E i \in 1 .. n : x \in {i} \X (1 .. Len(turns[i].messages))
    OBVIOUS
  <2>2. \A x : x \in U(prev) <=>
               \E i \in 1 .. n - 1 : x \in {i} \X (1 .. Len(turns[i].messages))
    BY <1>1
  <2> HIDE DEF n, U
  <2>3. \A x : x \in U(turns) <=> x \in U(prev) \/ x \in P
    BY <1>3, <1>4, <2>1, <2>2 DEF P
  <2> QED BY <2>3
<1>6. U(prev) \cap P = {}
  <2>1. \A x \in U(prev) : x[1] \in 1 .. n - 1
    BY <1>1
  <2>2. \A x \in P : x[1] = n
    OBVIOUS
  <2> HIDE DEF U, P, n
  <2> QED BY <1>4, <2>1, <2>2
<1>7. IsFiniteSet(P) /\ Cardinality(P) = L
  <2>1. IsFiniteSet({n}) /\ Cardinality({n}) = 1
    BY FS_Singleton
  <2> HIDE DEF n, L
  <2>2. IsFiniteSet(1 .. L) /\ Cardinality(1 .. L) = L
    <3>1. 1 \in Int /\ L \in Int /\ L - 1 + 1 = L /\ (1 > L => L = 0)
      BY <1>2
    <3> QED BY <3>1, FS_Interval
  <2>3. IsFiniteSet(P) /\ Cardinality(P) = 1 * L
    BY ZenonT(60), <2>1, <2>2, FS_Product
  <2> QED BY <1>2, <2>3
<1>8. IsFiniteSet(U(prev)) /\ Cardinality(U(prev)) \in Nat
  BY <1>1, ShownType DEF Shown
<1> HIDE DEF U, P, L, n
<1>9. Cardinality(U(prev) \cup P) =
        Cardinality(U(prev)) + Cardinality(P) - Cardinality(U(prev) \cap P)
  BY <1>7, <1>8, FS_Union
<1>10. Cardinality(U(prev) \cap P) = 0
  BY <1>6, FS_EmptySet
<1>11. Cardinality(U(turns)) = Cardinality(U(prev)) + L
  BY <1>2, <1>5, <1>7, <1>8, <1>9, <1>10
<1> QED BY <1>11 DEF Shown, U, n, prev, L

(* The offsets of the turns of a copy.                                     *)
LEMMA UptoStep ==
  ASSUME NEW turns \in Seq(Turn)
  PROVE  /\ Upto(turns, 0) = 0 /\ Upto(turns, Len(turns)) = Shown(turns)
         /\ \A n \in 0 .. Len(turns) : Upto(turns, n) \in Nat
         /\ \A n \in 1 .. Len(turns) :
              /\ Len(turns[n].messages) \in Nat
              /\ Upto(turns, n) = Upto(turns, n - 1) + Len(turns[n].messages)
<1>1. SubSeq(turns, 1, 0) = << >> /\ SubSeq(turns, 1, Len(turns)) = turns
  OBVIOUS
<1>2. ASSUME NEW n \in 0 .. Len(turns) PROVE Upto(turns, n) \in Nat
  <2>1. SubSeq(turns, 1, n) \in Seq(Turn)
    OBVIOUS
  <2> QED BY <2>1, ShownType DEF Upto
<1>3. ASSUME NEW n \in 1 .. Len(turns)
      PROVE  /\ Len(turns[n].messages) \in Nat
             /\ Upto(turns, n) = Upto(turns, n - 1) + Len(turns[n].messages)
  <2> DEFINE ts == SubSeq(turns, 1, n)
  <2>1. /\ ts \in Seq(Turn) /\ Len(ts) = n /\ ts[n] = turns[n]
        /\ ts # << >> /\ SubSeq(ts, 1, n - 1) = SubSeq(turns, 1, n - 1)
    <3>1. ts \in Seq(Turn) /\ Len(ts) = n /\ ts[n] = turns[n] /\ ts # << >>
      OBVIOUS
    <3>2. \A i \in 1 .. n - 1 : ts[i] = turns[i]
      OBVIOUS
    <3>3. /\ SubSeq(ts, 1, n - 1) = [i \in 1 .. n - 1 |-> ts[i]]
          /\ SubSeq(turns, 1, n - 1) = [i \in 1 .. n - 1 |-> turns[i]]
      <4>1. n - 1 \in Nat /\ n \in Nat /\ \A i \in 1 .. n - 1 : (1 + i) - 1 = i
        OBVIOUS
      <4> HIDE DEF ts
      <4> QED BY <3>1, <4>1
    <3> QED BY <3>1, <3>2, <3>3
  <2> HIDE DEF ts
  <2>2. Shown(ts) = Shown(SubSeq(ts, 1, n - 1)) + Len(ts[n].messages)
    BY <2>1, ShownStep
  <2>3. turns[n] \in Turn
    OBVIOUS
  <2>4. Len(turns[n].messages) \in Nat
    BY <2>3 DEF Turn
  <2> QED BY <2>1, <2>2, <2>4 DEF Upto, ts
<1> QED BY <1>1, <1>2, <1>3, ShownEmpty DEF Upto

(* Later turns have larger offsets.                                        *)
LEMMA UptoGrows ==
  ASSUME NEW turns \in Seq(Turn), NEW j \in 0 .. Len(turns), NEW i \in 0 .. j
  PROVE  Upto(turns, i) <= Upto(turns, j)
<1> DEFINE N == Len(turns)
           T == {n \in 0 .. N : \A k \in 0 .. n : Upto(turns, k) <= Upto(turns, n)}
<1>0. N \in Nat
  OBVIOUS
<1>1. 0 \in T
  BY <1>0, UptoStep
<1>2. ASSUME NEW n \in Nat, n < N, n \in T PROVE n + 1 \in T
  <2>1. /\ n + 1 \in 1 .. N /\ (n + 1) - 1 = n /\ n + 1 \in 0 .. N /\ n \in 0 .. N
        /\ \A k \in 0 .. n + 1 : k \in 0 .. n \/ k = n + 1
        /\ \A k \in 0 .. n + 1 : k \in 0 .. N
    BY <1>0, <1>2
  <2>2. /\ Upto(turns, n + 1) = Upto(turns, n) + Len(turns[n + 1].messages)
        /\ Len(turns[n + 1].messages) \in Nat
    BY <2>1, UptoStep
  <2>3. \A k \in 0 .. n + 1 : Upto(turns, k) \in Nat
    BY <2>1, UptoStep
  <2>4. \A k \in 0 .. n : Upto(turns, k) <= Upto(turns, n)
    BY <1>2
  <2>5. Upto(turns, n) \in Nat
    BY <2>1, UptoStep
  <2>6. \A k \in 0 .. n + 1 : Upto(turns, k) <= Upto(turns, n + 1)
    <3> DEFINE a == Upto(turns, n)
               b == Upto(turns, n + 1)
    <3>1. a \in Nat /\ b \in Nat /\ a <= b
      BY <2>2, <2>5
    <3>2. \A k \in 0 .. n : Upto(turns, k) <= a
      BY <2>4
    <3>3. ASSUME NEW k \in 0 .. n + 1 PROVE Upto(turns, k) <= b
      <4> DEFINE u == Upto(turns, k)
      <4>1. u \in Nat /\ (k \in 0 .. n \/ k = n + 1)
        BY <2>1, <2>3
      <4>2. CASE k = n + 1
        BY <4>2, <3>1
      <4>3. CASE k \in 0 .. n
        <5>1. u <= a
          BY <4>3, <3>2
        <5> HIDE DEF a, b, u
        <5>2. u <= b
          BY <5>1, <4>1, <3>1
        <5> QED BY <5>2 DEF u
      <4> QED BY <4>1, <4>2, <4>3
    <3> QED BY <3>3
  <2> QED BY <2>1, <2>6
<1> HIDE DEF T, N
<1>3. \A n \in 0 .. N : n \in T
  BY <1>0, <1>1, <1>2, UpTo
<1> QED BY <1>3 DEF T, N
----------------------------------------------------------------------------
(* The order of the messages of one chat: questions follow replies, no     *)
(* thought is told twice, and what an agent says follows its question with *)
(* nothing but thoughts about the same in between.                         *)
Alternates(msgs) ==
  \A i \in 2 .. Len(msgs) : msgs[i].kind = "ask" => msgs[i - 1].kind = "reply"
OnceEach(msgs) ==
  \A i, j \in 1 .. Len(msgs) : msgs[i] = msgs[j] /\ msgs[i].kind = "thinking" => i = j
InTurn(msgs) ==
  \A i \in 1 .. Len(msgs) : msgs[i].kind # "ask" =>
    \E b \in 1 .. i - 1 : /\ msgs[b] = Msg("ask", msgs[i].of)
                          /\ \A j \in b + 1 .. i - 1 : msgs[j] = Msg("thinking", msgs[i].of)

(* The turns of a copy lie one behind the other in the agents' messages A. *)
CopyLog(turns, A) ==
  \A n \in 1 .. Len(turns) :
    /\ Upto(turns, n) <= Len(A)
    /\ \A k \in 1 .. Len(turns[n].messages) :
         turns[n].messages[k] = A[Upto(turns, n - 1) + k]

(* A turn that shows the messages and the answer of its own question.      *)
OwnTurn(t) == /\ \A i \in 1 .. Len(t.messages) : t.messages[i].of = t.question
              /\ t.answer = Msg("reply", t.question)
OwnTurns(turns) == \A n \in 1 .. Len(turns) : OwnTurn(turns[n])

(* Between two replies the agents say nothing before the question: as many *)
(* of their messages stand before the turn as up to the reply before it.   *)
LEMMA TurnBegins ==
  ASSUME NEW msgs \in Seq(Message), Alternates(msgs),
         NEW n \in 1 .. Cardinality(RepliesOf(msgs))
  PROVE  LET R == RepliesOf(msgs)
             S == {i \in 1 .. Len(msgs) : IsAgents(msgs[i])}
             e == Nth(R, n)
             b == Before(msgs, e)
             p == IF n = 1 THEN 0 ELSE Nth(R, n - 1)
         IN  /\ \A k \in 1 .. e - b : b + k \in S
             /\ Rank(S, b) = Rank(S, p)
             /\ e \in 1 .. Len(msgs) /\ b \in Nat /\ b < e
<1> DEFINE R == RepliesOf(msgs)
           S == {i \in 1 .. Len(msgs) : IsAgents(msgs[i])}
           e == Nth(R, n)
           b == Before(msgs, e)
           p == IF n = 1 THEN 0 ELSE Nth(R, n - 1)
           N == Len(msgs)
<1>1. /\ N \in Nat /\ R \subseteq 1 .. N /\ S \subseteq 1 .. N
      /\ \A i \in 1 .. N : i \in R <=> msgs[i].kind = "reply"
      /\ \A i \in 1 .. N : i \in S <=> msgs[i].kind # "ask"
      /\ \A i \in 1 .. N : msgs[i].kind \in {"ask", "thinking", "reply"}
  <2>1. \A m \in Message : m.kind \in {"ask", "thinking", "reply"}
    BY DEF Message
  <2> QED BY <2>1 DEF RepliesOf, IsAgents
<1>g. \A k, l \in 1 .. Cardinality(R) : k < l => Nth(R, k) < Nth(R, l)
  <2> HIDE DEF R, N
  <2> QED BY <1>1, NthGrows
<1>2. Cardinality(R) \in Nat /\ n \in Nat /\ n >= 1 /\ n <= Cardinality(R)
  <2> HIDE DEF R, N
  <2>1. Cardinality(R) \in Nat
    BY <1>1, RankType
  <2> QED BY <2>1 DEF R
<1> HIDE DEF R, S
<1>3. e \in R /\ Rank(R, e) = n /\ e \in 1 .. N
  <2>1. n \in 1 .. Cardinality(R)
    BY DEF R
  <2>2. e \in R /\ Rank(R, e) = n
    BY <1>1, <2>1, NthRank
  <2> QED BY <1>1, <2>2
<1> HIDE DEF e
<1>4. /\ b \in Nat /\ b < e
      /\ b > 0 => b \in 1 .. N /\ msgs[b].kind # "thinking"
      /\ \A i \in 1 .. e - 1 : i > b => msgs[i].kind = "thinking"
  BY <1>3, BeforeAt
<1> HIDE DEF b
<1>5. p \in 0 .. N /\ Rank(R, p) = n - 1 /\ p < e /\ (p > 0 => p \in R)
  <2>1. CASE n = 1
    <3>1. Rank(R, 0) = 0
      BY <1>1, RankType
    <3> QED BY <1>1, <1>3, <2>1, <3>1
  <2>2. CASE n # 1
    <3>1. n - 1 \in 1 .. Cardinality(R) /\ n \in 1 .. Cardinality(R) /\ n - 1 < n
      BY <1>2, <2>2
    <3>2. Nth(R, n - 1) \in R /\ Rank(R, Nth(R, n - 1)) = n - 1
      BY <1>1, <3>1, NthRank
    <3>3. Nth(R, n - 1) < e
      <4> DEFINE l == n - 1
      <4>1. l \in 1 .. Cardinality(R) /\ n \in 1 .. Cardinality(R) /\ l < n
        BY <3>1
      <4> HIDE DEF l
      <4>2. Nth(R, l) < Nth(R, n)
        BY <1>g, <4>1
      <4> QED BY <4>2 DEF l, e
    <3>4. p = Nth(R, n - 1)
      BY <2>2
    <3> HIDE DEF p
    <3>5. p \in R /\ Rank(R, p) = n - 1 /\ p < e
      BY <3>2, <3>3, <3>4
    <3>6. p \in 0 .. N
      BY <1>1, <3>5
    <3> QED BY <3>5, <3>6
  <2> QED BY <2>1, <2>2
<1> HIDE DEF p
<1>6. ASSUME NEW i \in 1 .. N, p < i, i < e PROVE msgs[i].kind # "reply"
  <2>1. SUFFICES ASSUME i \in R PROVE FALSE
    BY <1>1
  <2>2. i \in Nat /\ p \in Nat /\ e \in Nat
    BY <1>3, <1>5
  <2>3. Rank(R, p) < Rank(R, i)
    BY <1>1, <1>6, <2>1, <2>2, RankGrows
  <2>4. Rank(R, i) < Rank(R, e)
    BY <1>1, <1>3, <1>6, <2>2, RankGrows
  <2>5. Rank(R, i) \in Nat
    BY <1>1, <2>2, RankType
  <2> QED BY <1>2, <1>3, <1>5, <2>3, <2>4, <2>5
<1>7. p <= b
  <2>1. SUFFICES ASSUME p > b PROVE FALSE
    BY <1>4, <1>5
  <2>2. p \in 1 .. N /\ p \in 1 .. e - 1 /\ p \in R
    BY <1>1, <1>3, <1>4, <1>5, <2>1
  <2>3. msgs[p].kind = "thinking" /\ msgs[p].kind = "reply"
    BY <1>1, <1>4, <2>1, <2>2
  <2> QED BY <2>3
<1>8. Rank(S, b) = Rank(S, p)
  <2>1. CASE b = p
    BY <2>1
  <2>2. CASE b # p
    <3>1. b > p /\ b \in 1 .. N /\ b > 0
      BY <1>4, <1>5, <1>7, <2>2
    <3>2. msgs[b].kind = "ask"
      BY <1>1, <1>4, <1>6, <3>1
    <3>3. b - 1 = p
      <4>1. CASE b = 1
        BY <1>5, <3>1, <4>1
      <4>2. CASE b # 1
        <5>1. b \in 2 .. N /\ b - 1 \in 1 .. N /\ b - 1 < e
          BY <1>3, <1>4, <3>1, <4>2
        <5>2. msgs[b - 1].kind = "reply"
          BY <3>2, <5>1 DEF Alternates
        <5>3. ~(p < b - 1)
          BY <1>6, <5>1, <5>2
        <5> QED BY <1>5, <3>1, <5>1, <5>3
      <4> QED BY <4>1, <4>2
    <3>4. b \notin S /\ b \in Nat /\ b # 0
      BY <1>1, <3>1, <3>2
    <3>5. Rank(S, b) = Rank(S, b - 1)
      BY <1>1, <3>4, RankStep
    <3> QED BY <3>3, <3>5
  <2> QED BY <2>1, <2>2
<1>9. \A k \in 1 .. e - b : b + k \in S
  <2> SUFFICES ASSUME NEW k \in 1 .. e - b PROVE b + k \in S
    OBVIOUS
  <2>1. b + k \in 1 .. N /\ (b + k = e \/ (b + k \in 1 .. e - 1 /\ b + k > b))
    BY <1>3, <1>4
  <2>2. msgs[b + k].kind # "ask"
    <3>1. CASE b + k = e
      BY <1>1, <1>3, <3>1
    <3>2. CASE b + k \in 1 .. e - 1 /\ b + k > b
      BY <1>4, <3>2
    <3> QED BY <2>1, <3>1, <3>2
  <2> QED BY <1>1, <2>1, <2>2
<1> QED BY <1>3, <1>4, <1>8, <1>9 DEF R, S, e, b, p

(* The turns splitTurns finds show the agents' messages one by one, as far *)
(* as the last reply.                                                      *)
LEMMA SplitLog ==
  ASSUME NEW msgs \in Seq(Message), Alternates(msgs)
  PROVE  /\ CopyLog(Split(msgs), Agents(msgs))
         /\ Replied(msgs) => /\ Split(msgs) # << >>
                             /\ Shown(Split(msgs)) = Len(Agents(msgs))
<1> DEFINE R == RepliesOf(msgs)
           S == {i \in 1 .. Len(msgs) : IsAgents(msgs[i])}
           A == Agents(msgs)
           turns == Split(msgs)
           N == Len(turns)
           E(n) == IF n = 0 THEN 0 ELSE Nth(R, n)
           B(n) == Before(msgs, Nth(R, n))
<1>0. /\ Len(msgs) \in Nat /\ S \subseteq 1 .. Len(msgs) /\ R \subseteq 1 .. Len(msgs)
      /\ \A i \in R : msgs[i].kind = "reply"
      /\ \A i \in 1 .. Len(msgs) : msgs[i].kind = "reply" => i \in R
  BY DEF RepliesOf
<1>r. \A x, y \in Nat : (\A k \in 1 .. y : x + k \in S) =>
        \A k \in 0 .. y : Rank(S, x + k) = Rank(S, x) + k
  <2> DEFINE m == Len(msgs)
  <2>1. m \in Nat /\ S \subseteq 1 .. m
    BY <1>0
  <2>2. \E k \in Nat : S \subseteq 1 .. k
    BY <2>1
  <2> HIDE DEF S, turns, R, A, m
  <2>3. IndexSet(S)
    BY <2>2 DEF IndexSet
  <2> QED BY <2>3, RankRun
<1>1. /\ turns \in Seq(Turn) /\ N = Cardinality(R) /\ N \in Nat
      /\ \A n \in 1 .. N : /\ Nth(R, n) \in R
                          /\ turns[n] = TurnTo(msgs, Nth(R, n))
  BY SplitAt
<1>2. /\ Len(A) = Cardinality(S) /\ Len(A) \in Nat
      /\ \A i \in S : Rank(S, i) \in 1 .. Len(A) /\ A[Rank(S, i)] = msgs[i]
  BY AgentsAt
<1>3. ASSUME NEW n \in 1 .. N
      PROVE  LET e == Nth(R, n)
                 b == B(n)
             IN  /\ e \in 1 .. Len(msgs) /\ b \in Nat /\ b < e
                 /\ Len(turns[n].messages) = e - b
                 /\ \A k \in 1 .. e - b : turns[n].messages[k] = msgs[b + k]
                 /\ \A k \in 1 .. e - b : b + k \in S
                 /\ Rank(S, b) = Rank(S, E(n - 1))
                 /\ \A k \in 0 .. e - b : Rank(S, b + k) = Rank(S, b) + k
  <2> DEFINE e == Nth(R, n)
             b == B(n)
  <2>0. n \in 1 .. Cardinality(RepliesOf(msgs))
    BY <1>1
  <2>1. /\ \A k \in 1 .. e - b : b + k \in S
        /\ Rank(S, b) = Rank(S, IF n = 1 THEN 0 ELSE Nth(R, n - 1))
        /\ e \in 1 .. Len(msgs) /\ b \in Nat /\ b < e
    BY <2>0, TurnBegins
  <2>2. (IF n = 1 THEN 0 ELSE Nth(R, n - 1)) = E(n - 1)
    <3>1. n - 1 = 0 <=> n = 1
      OBVIOUS
    <3> QED BY <3>1
  <2>3. /\ Len(turns[n].messages) = e - b
        /\ \A k \in 1 .. e - b : turns[n].messages[k] = msgs[b + k]
    <3>1. Nth(R, n) \in RepliesOf(msgs) /\ turns[n] = TurnTo(msgs, Nth(R, n))
      BY <1>1
    <3> HIDE DEF turns, R
    <3> QED BY <3>1, TurnToType
  <2>4. \A k \in 0 .. e - b : Rank(S, b + k) = Rank(S, b) + k
    <3> HIDE DEF e, b, S
    <3> DEFINE d == e - b
    <3>1. b \in Nat /\ d \in Nat /\ \A k \in 1 .. d : b + k \in S
      BY <2>1
    <3> HIDE DEF d
    <3>3. \A k \in 0 .. d : Rank(S, b + k) = Rank(S, b) + k
      BY <1>r, <3>1
    <3> QED BY <3>3 DEF d
  <2> HIDE DEF S, turns
  <2> QED BY <2>1, <2>2, <2>3, <2>4
<1> HIDE DEF turns, A, S, R, B
<1>4. \A n \in 0 .. N : Upto(turns, n) = Rank(S, E(n))
  <2> DEFINE T == {n \in 0 .. N : Upto(turns, n) = Rank(S, E(n))}
  <2>1. 0 \in T
    <3>1. Rank(S, 0) = 0
      BY <1>0, RankType
    <3> QED BY <1>1, <3>1, UptoStep
  <2>2. ASSUME NEW n \in Nat, n < N, n \in T PROVE n + 1 \in T
    <3> DEFINE l == n + 1
    <3>1. l \in 1 .. N /\ l \in 0 .. N /\ l - 1 = n /\ l # 0
      BY <1>1, <2>2
    <3>2. Upto(turns, n) = Rank(S, E(n))
      BY <2>2
    <3> HIDE DEF l, T
    <3>3. Upto(turns, l) = Upto(turns, l - 1) + Len(turns[l].messages)
      BY <1>1, <3>1, UptoStep
    <3> DEFINE e == Nth(R, l)
               b == B(l)
    <3>4. /\ Len(turns[l].messages) = e - b /\ Rank(S, b) = Rank(S, E(l - 1))
          /\ e - b \in 0 .. e - b /\ b + (e - b) = e
          /\ \A k \in 0 .. e - b : Rank(S, b + k) = Rank(S, b) + k
      <4>1. /\ Len(turns[l].messages) = e - b /\ Rank(S, b) = Rank(S, E(l - 1))
            /\ \A k \in 0 .. e - b : Rank(S, b + k) = Rank(S, b) + k
            /\ e \in 1 .. Len(msgs) /\ b \in Nat /\ b < e
        BY <1>3, <3>1
      <4>2. e - b \in 0 .. e - b /\ b + (e - b) = e
        BY <4>1
      <4> QED BY <4>1, <4>2
    <3> HIDE DEF e, b
    <3>5. Rank(S, e) = Rank(S, b) + (e - b)
      BY <3>4
    <3>6. E(l) = e
      BY <3>1 DEF e
    <3> QED BY <3>1, <3>2, <3>3, <3>4, <3>5, <3>6 DEF T, l
  <2> HIDE DEF T
  <2>3. \A n \in 0 .. N : n \in T
    BY <1>1, <2>1, <2>2, UpTo
  <2> QED BY <2>3 DEF T
<1>5. CopyLog(turns, A)
  <2> SUFFICES ASSUME NEW n \in 1 .. N
               PROVE  /\ Upto(turns, n) <= Len(A)
                      /\ \A k \in 1 .. Len(turns[n].messages) :
                           turns[n].messages[k] = A[Upto(turns, n - 1) + k]
    BY DEF CopyLog
  <2> DEFINE e == Nth(R, n)
             b == B(n)
  <2>1. n \in 0 .. N /\ n - 1 \in 0 .. N /\ n # 0
    BY <1>1
  <2>2. /\ e \in 1 .. Len(msgs) /\ b \in Nat /\ b < e
        /\ Len(turns[n].messages) = e - b
        /\ \A k \in 1 .. e - b : turns[n].messages[k] = msgs[b + k]
        /\ \A k \in 1 .. e - b : b + k \in S
        /\ Rank(S, b) = Rank(S, E(n - 1))
        /\ \A k \in 0 .. e - b : Rank(S, b + k) = Rank(S, b) + k
    BY <1>3
  <2>3. Upto(turns, n) = Rank(S, e) /\ Upto(turns, n - 1) = Rank(S, b)
    BY <1>4, <2>1, <2>2
  <2> HIDE DEF e, b
  <2>4. Rank(S, e) <= Len(A)
    <3>1. e \in Nat
      BY <2>2
    <3> QED BY <1>0, <1>2, <3>1, RankType
  <2>5. ASSUME NEW k \in 1 .. e - b
        PROVE  turns[n].messages[k] = A[Rank(S, b) + k]
    <3>1. k \in 0 .. e - b
      OBVIOUS
    <3>2. b + k \in S /\ Rank(S, b + k) = Rank(S, b) + k
      BY <2>2, <3>1
    <3>3. A[Rank(S, b + k)] = msgs[b + k]
      BY <1>2, <3>2
    <3> QED BY <2>2, <3>2, <3>3
  <2> QED BY <2>2, <2>3, <2>4, <2>5
<1>6. ASSUME Replied(msgs)
      PROVE  turns # << >> /\ Shown(turns) = Len(A)
  <2> DEFINE l == Len(msgs)
  <2>1. l \in R /\ l \in 1 .. Len(msgs)
    <3>1. l \in 1 .. Len(msgs)
      BY <1>6, <1>0 DEF Replied
    <3> QED BY <1>0, <1>6, <3>1 DEF Replied
  <2>2. Rank(R, l) \in 1 .. Cardinality(R) /\ Nth(R, Rank(R, l)) = l
    BY <1>0, <2>1, NthOfRank
  <2>3. Rank(R, l) = Cardinality(R) /\ Rank(S, l) = Cardinality(S)
    BY <1>0, RankType
  <2>4. N \in 1 .. N /\ N # 0 /\ E(N) = l
    BY <1>1, <2>2, <2>3
  <2>5. Upto(turns, N) = Len(A)
    BY <1>2, <1>4, <2>3, <2>4
  <2>6. Upto(turns, N) = Shown(turns)
    BY <1>1, UptoStep
  <2>7. turns # << >>
    BY <2>4
  <2> QED BY <2>5, <2>6, <2>7
<1> QED BY <1>5, <1>6 DEF turns, A

(* ... and each shows what was said to its question.                       *)
LEMMA SplitOwn ==
  ASSUME NEW msgs \in Seq(Message), InTurn(msgs)
  PROVE  OwnTurns(Split(msgs))
<1> SUFFICES ASSUME NEW n \in 1 .. Len(Split(msgs))
             PROVE  OwnTurn(Split(msgs)[n])
  BY DEF OwnTurns
<1> DEFINE e == Nth(RepliesOf(msgs), n)
           b == Before(msgs, e)
           t == TurnTo(msgs, e)
           q == msgs[e].of
<1>1. e \in RepliesOf(msgs) /\ Split(msgs)[n] = t
  BY SplitAt
<1> HIDE DEF e
<1>2. e \in 1 .. Len(msgs) /\ msgs[e].kind = "reply" /\ msgs[e] \in Message
  BY <1>1 DEF RepliesOf
<1>3. /\ b \in Nat /\ b < e
      /\ b > 0 => b \in 1 .. Len(msgs) /\ msgs[b].kind # "thinking"
      /\ \A i \in 1 .. e - 1 : i > b => msgs[i].kind = "thinking"
  BY <1>2, BeforeAt
<1>4. /\ t.answer = msgs[e] /\ Len(t.messages) = e - b
      /\ \A i \in 1 .. e - b : t.messages[i] = msgs[b + i]
  BY <1>1, TurnToType
<1>5. PICK a \in 1 .. e - 1 :
        /\ msgs[a] = Msg("ask", q)
        /\ \A j \in a + 1 .. e - 1 : msgs[j] = Msg("thinking", q)
  BY <1>2 DEF InTurn
<1>6. t.question = IF b > 0 /\ msgs[b].kind = "ask" THEN msgs[b].of ELSE None
  BY DEF TurnTo
<1> HIDE DEF b, t, q
<1>7. b = a
  <2>1. ~(a > b)
    BY <1>3, <1>5 DEF Msg
  <2>2. ~(b > a)
    <3>1. SUFFICES ASSUME b > a PROVE FALSE
      OBVIOUS
    <3>2. b > 0 /\ b \in a + 1 .. e - 1
      BY <1>2, <1>3, <3>1
    <3>3. msgs[b].kind = "thinking"
      BY <1>5, <3>2 DEF Msg
    <3> QED BY <1>3, <3>2, <3>3
  <2> QED BY <1>3, <2>1, <2>2
<1>8. t.question = q
  BY <1>5, <1>6, <1>7 DEF Msg
<1>9. t.answer = Msg("reply", q)
  BY <1>2, <1>4 DEF Message, Msg, q
<1>10. \A i \in 1 .. Len(t.messages) : t.messages[i].of = q
  <2> SUFFICES ASSUME NEW i \in 1 .. e - b PROVE msgs[b + i].of = q
    BY <1>4
  <2>1. CASE b + i = e
    BY <2>1 DEF q
  <2>2. CASE b + i # e
    <3>1. b + i \in a + 1 .. e - 1
      <4>1. e \in Nat /\ i \in Nat /\ b + i <= e /\ i >= 1
        BY <1>2, <1>3
      <4> QED BY <1>3, <1>7, <2>2, <4>1
    <3> QED BY <1>5, <3>1 DEF Msg
  <2> QED BY <2>1, <2>2
<1> QED BY <1>1, <1>8, <1>9, <1>10 DEF OwnTurn
----------------------------------------------------------------------------
(* The log the page displays.  A longer list of messages:                  *)
Extends(A, B) == Len(A) <= Len(B) /\ \A n \in 1 .. Len(A) : B[n] = A[n]

(* Turns whose logs hold thoughts out of the first m of A, each of them in *)
(* one place only.                                                         *)
Apart(turns) ==
  \A i, j \in 1 .. Len(turns) :
    \A k \in 1 .. Len(turns[i].messages), l \in 1 .. Len(turns[j].messages) :
      turns[i].messages[k] = turns[j].messages[l] => i = j /\ k = l
LogOf(turns, m, A) ==
  /\ \A i \in 1 .. Len(turns) : \A k \in 1 .. Len(turns[i].messages) :
       /\ turns[i].messages[k].kind = "thinking"
       /\ \E n \in 1 .. m : turns[i].messages[k] = A[n]
  /\ Apart(turns)

(* A page that shows the agents' messages A from its offset on, and before *)
(* them thoughts of those up to its offset; and one that shows none yet.   *)
Log(p, A) ==
  /\ p.offset + Len(p.messages) <= Len(A)
  /\ \A n \in 1 .. Len(p.messages) : p.messages[n] = A[p.offset + n]
  /\ LogOf(p.completed, p.offset, A)
Fresh(p) == p.offset = 0 /\ p.messages = << >> /\ p.completed = << >>

(* What is logged stays logged when the agents go on.                      *)
LEMMA FreshLog ==
  ASSUME NEW p, Fresh(p), NEW A \in Seq(Message)
  PROVE  Log(p, A)
<1>1. Len(A) \in Nat /\ Len(<< >>) = 0 /\ 1 .. 0 = {}
  OBVIOUS
<1> QED BY <1>1 DEF Fresh, Log, LogOf, Apart

LEMMA LogExtends ==
  ASSUME NEW p \in Page, NEW A \in Seq(Message), NEW B \in Seq(Message),
         Extends(A, B), Log(p, A)
  PROVE  Log(p, B)
<1>1. p.offset \in Nat /\ Len(p.messages) \in Nat /\ Len(A) \in Nat /\ Len(B) \in Nat
      /\ p.offset + Len(p.messages) <= Len(A) /\ Len(A) <= Len(B)
  BY DEF Page, Log, Extends
<1>2. \A n \in 1 .. Len(p.messages) : p.offset + n \in 1 .. Len(A)
  BY <1>1
<1>3. \A n \in 1 .. p.offset : n \in 1 .. Len(A)
  BY <1>1
<1>4. p.offset + Len(p.messages) <= Len(B)
  BY <1>1
<1>5. \A n \in 1 .. Len(p.messages) : p.messages[n] = B[p.offset + n]
  BY <1>2 DEF Log, Extends
<1>6. LogOf(p.completed, p.offset, B)
  BY <1>3 DEF Log, LogOf, Extends
<1> QED BY <1>4, <1>5, <1>6 DEF Log

LEMMA CopyExtends ==
  ASSUME NEW turns \in Seq(Turn), NEW A \in Seq(Message), NEW B \in Seq(Message),
         Extends(A, B), CopyLog(turns, A)
  PROVE  CopyLog(turns, B)
<1> SUFFICES ASSUME NEW n \in 1 .. Len(turns)
             PROVE  /\ Upto(turns, n) <= Len(B)
                    /\ \A k \in 1 .. Len(turns[n].messages) :
                         turns[n].messages[k] = B[Upto(turns, n - 1) + k]
  BY DEF CopyLog
<1>1. /\ Upto(turns, n) <= Len(A)
      /\ \A k \in 1 .. Len(turns[n].messages) :
           turns[n].messages[k] = A[Upto(turns, n - 1) + k]
  BY DEF CopyLog
<1>2. n \in 0 .. Len(turns) /\ n - 1 \in 0 .. Len(turns)
  OBVIOUS
<1>3. /\ Upto(turns, n) \in Nat /\ Upto(turns, n - 1) \in Nat
      /\ Len(turns[n].messages) \in Nat
      /\ Upto(turns, n) = Upto(turns, n - 1) + Len(turns[n].messages)
  BY <1>2, UptoStep
<1>4. Len(A) \in Nat /\ Len(B) \in Nat /\ Len(A) <= Len(B)
  BY DEF Extends
<1> DEFINE u == Upto(turns, n - 1)
           L == Len(turns[n].messages)
<1> HIDE DEF u, L
<1>5. \A k \in 1 .. L : u + k \in 1 .. Len(A)
  BY <1>1, <1>3, <1>4 DEF u, L
<1>6. Upto(turns, n) <= Len(B)
  BY <1>1, <1>3, <1>4
<1>7. \A k \in 1 .. L : turns[n].messages[k] = B[u + k]
  <2>1. \A k \in 1 .. L : turns[n].messages[k] = A[u + k]
    BY <1>1 DEF u, L
  <2> QED BY <1>5, <2>1 DEF Extends
<1> QED BY <1>6, <1>7 DEF u, L

(* A turn that is over is filed with what it showed.                       *)
LEMMA OverLog ==
  ASSUME NEW p \in Page, NEW A \in Seq(Message), ThoughtsOnce(A), Log(p, A),
         NEW t, t.messages = Thinking(p.messages)
  PROVE  LogOf(Append(p.completed, t), p.offset + Len(p.messages), A)
<1> DEFINE o == p.offset
           msgs == p.messages
           L == t.messages
           done == p.completed
           c == Len(done)
           all == Append(done, t)
<1>1. /\ o \in Nat /\ msgs \in Seq(Message) /\ Len(msgs) \in Nat /\ Len(A) \in Nat
      /\ done \in Seq(Turn) /\ c \in Nat
      /\ o + Len(msgs) <= Len(A)
      /\ \A n \in 1 .. Len(msgs) : msgs[n] = A[o + n]
      /\ LogOf(done, o, A)
  <2>1. o \in Nat /\ msgs \in Seq(Message) /\ done \in Seq(Turn)
    BY DEF Page
  <2>2. Len(msgs) \in Nat /\ Len(A) \in Nat /\ c \in Nat
    BY <2>1
  <2> QED BY <2>1, <2>2 DEF Log
<1>0. L = Thinking(msgs)
  OBVIOUS
<1> HIDE DEF L, msgs
<1>w. \A x \in 1 .. Len(msgs) :
        /\ o + x \in 1 .. o + Len(msgs) /\ o + x \in 1 .. Len(A) /\ o + x > o
        /\ msgs[x] = A[o + x]
  <2> HIDE DEF o
  <2> QED BY <1>1
<1>2. /\ \A k \in 1 .. Len(L) : /\ L[k].kind = "thinking"
                                /\ \E x \in 1 .. Len(msgs) : L[k] = msgs[x]
      /\ \A k, l \in 1 .. Len(L) : L[k] = L[l] => k = l
  <2>1. ThoughtsOnce(msgs)
    <3> SUFFICES ASSUME NEW x \in 1 .. Len(msgs), NEW y \in 1 .. Len(msgs),
                        msgs[x] = msgs[y], msgs[x].kind = "thinking"
                 PROVE  x = y
      BY DEF ThoughtsOnce
    <3> HIDE DEF o
    <3>1. o + x = o + y
      BY <1>w DEF ThoughtsOnce
    <3> QED BY <1>1, <3>1
  <2> QED BY <1>0, <1>1, <2>1, ThinkingAt
<1>3. /\ Len(all) = c + 1 /\ all[c + 1] = t
      /\ \A i \in 1 .. c : all[i] = done[i]
      /\ \A i \in 1 .. c + 1 : i \in 1 .. c \/ i = c + 1
  <2>1. all = [i \in 1 .. c + 1 |-> IF i \in 1 .. c THEN done[i] ELSE t]
    BY <1>1
  <2>2. /\ c + 1 \in 1 .. c + 1 /\ c + 1 \notin 1 .. c /\ c + 1 \in Nat
        /\ \A i \in 1 .. c : i \in 1 .. c + 1
        /\ \A i \in 1 .. c + 1 : i \in 1 .. c \/ i = c + 1
    BY <1>1
  <2> HIDE DEF all, c, done
  <2> QED BY <2>1, <2>2
<1> HIDE DEF all, c, done, o
<1>4. \A k \in 1 .. Len(L) :
        /\ L[k].kind = "thinking"
        /\ \E y \in 1 .. Len(A) : /\ L[k] = A[y] /\ y > o /\ y \in 1 .. o + Len(msgs)
  BY <1>2, <1>w
<1>5. ASSUME NEW i \in 1 .. c, NEW k \in 1 .. Len(done[i].messages)
      PROVE  /\ done[i].messages[k].kind = "thinking"
             /\ \E n \in 1 .. o : done[i].messages[k] = A[n]
  BY <1>1 DEF LogOf, c
<1>6. \A n \in 1 .. o : n \in 1 .. o + Len(msgs) /\ n \in 1 .. Len(A) /\ ~(n > o)
  BY <1>1
<1>7. ASSUME NEW i \in 1 .. c + 1, NEW k \in 1 .. Len(all[i].messages)
      PROVE  /\ all[i].messages[k].kind = "thinking"
             /\ \E n \in 1 .. o + Len(msgs) : all[i].messages[k] = A[n]
  <2>1. CASE i \in 1 .. c
    BY <1>3, <1>5, <1>6, <2>1
  <2>2. CASE i = c + 1
    BY <1>3, <1>4, <2>2 DEF L
  <2> QED BY <1>3, <2>1, <2>2
<1>8. ASSUME NEW i \in 1 .. c, NEW k \in 1 .. Len(done[i].messages),
             NEW l \in 1 .. Len(L)
      PROVE  done[i].messages[k] # L[l]
  <2>1. PICK n \in 1 .. o : done[i].messages[k] = A[n]
    BY <1>5
  <2>2. PICK y \in 1 .. Len(A) : L[l] = A[y] /\ y > o /\ A[y].kind = "thinking"
    BY <1>4
  <2>3. n # y /\ n \in 1 .. Len(A)
    BY <1>6, <2>2
  <2> QED BY <2>1, <2>2, <2>3 DEF ThoughtsOnce
<1>10. ASSUME NEW i \in 1 .. c + 1, NEW j \in 1 .. c + 1,
              NEW k \in 1 .. Len(all[i].messages), NEW l \in 1 .. Len(all[j].messages),
              all[i].messages[k] = all[j].messages[l]
       PROVE  i = j /\ k = l
  <2>1. CASE i \in 1 .. c /\ j \in 1 .. c
    <3>1. Apart(done)
      BY <1>1 DEF LogOf
    <3>2. done[i].messages[k] = done[j].messages[l] /\ k \in 1 .. Len(done[i].messages)
          /\ l \in 1 .. Len(done[j].messages)
      BY <1>3, <1>10, <2>1
    <3> QED BY SMTT(30), <2>1, <3>1, <3>2 DEF Apart, c
  <2>2. CASE i = c + 1 /\ j \in 1 .. c
    BY <1>3, <1>8, <1>10, <2>2 DEF L
  <2>3. CASE i \in 1 .. c /\ j = c + 1
    BY <1>3, <1>8, <1>10, <2>3 DEF L
  <2>4. CASE i = c + 1 /\ j = c + 1
    BY <1>2, <1>3, <1>10, <2>4 DEF L
  <2> QED BY <1>3, <2>1, <2>2, <2>3, <2>4
<1>11. Apart(all)
  BY <1>3, <1>10 DEF Apart
<1>12. LogOf(all, o + Len(msgs), A)
  BY <1>3, <1>7, <1>11 DEF LogOf
<1> QED BY <1>12 DEF all, done, o, msgs

(* A chat that getChat returned is shown turn by turn.                     *)
LEMMA LoadedLog ==
  ASSUME NEW p, NEW q, NEW A \in Seq(Message), ThoughtsOnce(A),
         NEW turns \in Seq(Turn), turns # << >>, CopyLog(turns, A), Filled(p, q, turns)
  PROVE  Log(q, A)
<1> DEFINE N == Len(turns)
           prev == SubSeq(turns, 1, N - 1)
           U(n) == Upto(turns, n)
           done == q.completed
<1>1. /\ N \in Nat /\ N >= 1 /\ Len(prev) = N - 1 /\ N - 1 \in Nat
      /\ \A i \in 1 .. N - 1 : prev[i] = turns[i] /\ i \in 1 .. N
  <2>1. N \in Nat /\ N >= 1
    OBVIOUS
  <2>2. N - 1 \in Nat /\ N - 1 <= N /\ \A i \in 1 .. N - 1 : i \in 1 .. N
    BY <2>1
  <2> DEFINE l == N - 1
  <2>3. l \in Nat /\ l <= Len(turns)
    BY <2>2
  <2> HIDE DEF l
  <2>4. /\ Len(SubSeq(turns, 1, l)) = l
        /\ \A i \in 1 .. l : SubSeq(turns, 1, l)[i] = turns[i]
    BY <2>3
  <2> QED BY <2>1, <2>2, <2>4 DEF l
<1>2. /\ q.messages = turns[N].messages /\ q.offset = U(N - 1)
      /\ done = [i \in 1 .. Len(prev) |-> Completed(prev[i])]
  BY DEF Filled, Upto
<1>3. /\ \A n \in 0 .. N : U(n) \in Nat
      /\ \A n \in 1 .. N : /\ Len(turns[n].messages) \in Nat
                           /\ U(n) = U(n - 1) + Len(turns[n].messages)
  BY UptoStep
<1>4. \A n \in 1 .. N : /\ U(n) <= Len(A)
                        /\ \A k \in 1 .. Len(turns[n].messages) :
                             turns[n].messages[k] = A[U(n - 1) + k]
  BY DEF CopyLog
<1>5. \A i, j \in 0 .. N : i <= j => U(i) <= U(j)
  <2> TAKE i, j \in 0 .. N
  <2> HAVE i <= j
  <2>1. i \in 0 .. j
    OBVIOUS
  <2> QED BY <2>1, UptoGrows
<1> HIDE DEF U, prev
<1>6. /\ q.offset + Len(q.messages) <= Len(A)
      /\ \A n \in 1 .. Len(q.messages) : q.messages[n] = A[q.offset + n]
  <2>1. N \in 1 .. N
    BY <1>1
  <2> HIDE DEF N
  <2> QED BY <1>2, <1>3, <1>4, <2>1
<1>7. Len(done) = N - 1 /\ Len(A) \in Nat
      /\ \A i \in 1 .. N - 1 : done[i].messages = Thinking(turns[i].messages)
  <2>1. \A i \in 1 .. N - 1 : turns[i] \in Turn /\ done[i] = Completed(turns[i])
    BY <1>1, <1>2
  <2>2. \A t \in Turn : Completed(t).messages = Thinking(t.messages)
    BY DEF Completed, Turn
  <2> QED BY <1>1, <1>2, <2>1, <2>2
<1>8. ASSUME NEW i \in 1 .. N - 1
      PROVE  /\ \A k \in 1 .. Len(done[i].messages) :
                  /\ done[i].messages[k].kind = "thinking"
                  /\ \E x \in 1 .. Len(A) : /\ done[i].messages[k] = A[x]
                                            /\ x > U(i - 1) /\ x <= U(i)
             /\ \A k, l \in 1 .. Len(done[i].messages) :
                  done[i].messages[k] = done[i].messages[l] => k = l
  <2> DEFINE msgs == turns[i].messages
             L == done[i].messages
             u == U(i - 1)
  <2>1. /\ msgs \in Seq(Message) /\ L = Thinking(msgs) /\ i \in 1 .. N
        /\ i - 1 \in 0 .. N /\ i \in 0 .. N
    <3>1. turns[i] \in Turn
      BY <1>1
    <3>2. msgs \in Seq(Message) /\ L = Thinking(msgs)
      BY <1>7, <3>1 DEF Turn
    <3>3. i \in 1 .. N /\ i - 1 \in 0 .. N /\ i \in 0 .. N
      BY <1>1
    <3> QED BY <3>2, <3>3
  <2>2. /\ u \in Nat /\ U(i) \in Nat /\ Len(msgs) \in Nat /\ U(i) = u + Len(msgs)
        /\ U(i) <= Len(A) /\ \A k \in 1 .. Len(msgs) : msgs[k] = A[u + k]
    BY <1>3, <1>4, <2>1
  <2> HIDE DEF L, msgs, u
  <2>3. \A x \in 1 .. Len(msgs) :
          /\ u + x \in 1 .. Len(A) /\ u + x > u /\ u + x <= U(i) /\ msgs[x] = A[u + x]
    BY <1>7, <2>2
  <2>4. ThoughtsOnce(msgs)
    <3> SUFFICES ASSUME NEW x \in 1 .. Len(msgs), NEW y \in 1 .. Len(msgs),
                        msgs[x] = msgs[y], msgs[x].kind = "thinking"
                 PROVE  x = y
      BY DEF ThoughtsOnce
    <3>1. u + x = u + y
      BY <2>3 DEF ThoughtsOnce
    <3> QED BY <2>2, <3>1
  <2>5. /\ \A k \in 1 .. Len(L) : /\ L[k].kind = "thinking"
                                  /\ \E x \in 1 .. Len(msgs) : L[k] = msgs[x]
        /\ \A k, l \in 1 .. Len(L) : L[k] = L[l] => k = l
    BY SMTT(30), <2>1, <2>4, ThinkingAt
  <2>6. \A k \in 1 .. Len(L) :
          \E y \in 1 .. Len(A) : L[k] = A[y] /\ y > u /\ y <= U(i)
    <3> SUFFICES ASSUME NEW k \in 1 .. Len(L)
                 PROVE  \E y \in 1 .. Len(A) : L[k] = A[y] /\ y > u /\ y <= U(i)
      OBVIOUS
    <3>1. PICK x \in 1 .. Len(msgs) : L[k] = msgs[x]
      BY <2>5
    <3> DEFINE y == u + x
    <3>2. y \in 1 .. Len(A) /\ L[k] = A[y] /\ y > u /\ y <= U(i)
      BY <2>3, <3>1
    <3> HIDE DEF y
    <3> QED BY <3>2
  <2> QED BY <2>5, <2>6 DEF L, u
<1> HIDE DEF done
<1>9. LogOf(done, U(N - 1), A)
  <2>1. ASSUME NEW i \in 1 .. N - 1, NEW k \in 1 .. Len(done[i].messages)
        PROVE  /\ done[i].messages[k].kind = "thinking"
               /\ \E n \in 1 .. U(N - 1) : done[i].messages[k] = A[n]
    <3>1. PICK x \in 1 .. Len(A) : done[i].messages[k] = A[x] /\ x <= U(i)
      BY <1>8
    <3>2. i \in 0 .. N /\ N - 1 \in 0 .. N /\ i <= N - 1
      BY <1>1
    <3>3. U(i) <= U(N - 1) /\ U(i) \in Nat /\ U(N - 1) \in Nat
      BY <1>3, <1>5, <3>2
    <3>4. x \in 1 .. U(N - 1)
      BY <1>7, <3>1, <3>3
    <3> QED BY <1>8, <3>1, <3>4
  <2>2. ASSUME NEW i \in 1 .. N - 1, NEW j \in 1 .. N - 1, i < j,
               NEW k \in 1 .. Len(done[i].messages), NEW l \in 1 .. Len(done[j].messages)
        PROVE  done[i].messages[k] # done[j].messages[l]
    <3>1. PICK x \in 1 .. Len(A) : done[i].messages[k] = A[x] /\ x <= U(i)
      BY <1>8
    <3>2. PICK y \in 1 .. Len(A) : done[j].messages[l] = A[y] /\ y > U(j - 1)
      BY <1>8
    <3>3. i \in 0 .. N /\ j - 1 \in 0 .. N /\ i <= j - 1
      BY <1>1, <2>2
    <3>4. U(i) <= U(j - 1) /\ U(i) \in Nat /\ U(j - 1) \in Nat
      BY <1>3, <1>5, <3>3
    <3>5. x # y
      BY <1>7, <3>1, <3>2, <3>4
    <3>6. done[i].messages[k].kind = "thinking"
      BY <1>8
    <3> QED BY <3>1, <3>2, <3>5, <3>6 DEF ThoughtsOnce
  <2>3. ASSUME NEW i \in 1 .. N - 1, NEW j \in 1 .. N - 1,
               NEW k \in 1 .. Len(done[i].messages), NEW l \in 1 .. Len(done[j].messages),
               done[i].messages[k] = done[j].messages[l]
        PROVE  i = j /\ k = l
    <3>1. ~(i < j) /\ ~(j < i)
      BY <2>2, <2>3
    <3>2. i = j
      BY <1>1, <3>1
    <3> QED BY <1>8, <2>3, <3>2
  <2>4. Apart(done)
    BY <1>7, <2>3 DEF Apart
  <2> QED BY <1>7, <2>1, <2>4 DEF LogOf
<1> QED BY <1>2, <1>6, <1>9 DEF Log, done
----------------------------------------------------------------------------
(* A chat only grows, and no thought is added to it twice.                 *)
Grows(a, b) ==
  \/ b = a
  \/ \E m \in Message : /\ b = Append(a, m)
                        /\ m.kind = "thinking" => \A i \in 1 .. Len(a) : a[i] # m

LEMMA GrowsKeeps ==
  ASSUME NEW a \in Seq(Message), NEW b, Grows(a, b)
  PROVE  /\ b \in Seq(Message)
         /\ OnceEach(a) => OnceEach(b)
         /\ Alternates(b) => Alternates(a)
         /\ Extends(Agents(a), Agents(b))
<1>0. Agents(a) \in Seq(Message) /\ Len(Agents(a)) \in Nat
  <2>1. Agents(a) \in Seq(Message)
    BY PickedKinds
  <2> HIDE DEF Agents
  <2> QED BY <2>1
<1>1. CASE b = a
  BY <1>0, <1>1 DEF Extends
<1>2. CASE b # a
  <2>1. PICK m \in Message :
          b = Append(a, m) /\ (m.kind = "thinking" => \A i \in 1 .. Len(a) : a[i] # m)
    BY <1>2 DEF Grows
  <2> DEFINE n == Len(a)
  <2>2. /\ n \in Nat /\ b \in Seq(Message) /\ Len(b) = n + 1 /\ b[n + 1] = m
        /\ \A i \in 1 .. n : b[i] = a[i]
    BY <2>1
  <2>3. \A i \in 1 .. n + 1 : i \in 1 .. n \/ i = n + 1
    BY <2>2
  <2> HIDE DEF n
  <2>4. ASSUME OnceEach(a) PROVE OnceEach(b)
    <3> SUFFICES ASSUME NEW i \in 1 .. n + 1, NEW j \in 1 .. n + 1,
                        b[i] = b[j], b[i].kind = "thinking"
                 PROVE  i = j
      BY <2>2 DEF OnceEach
    <3>1. CASE i \in 1 .. n /\ j \in 1 .. n
      BY <2>2, <2>4, <3>1 DEF OnceEach, n
    <3>2. CASE i = n + 1 /\ j \in 1 .. n
      BY <2>1, <2>2, <3>2 DEF n
    <3>3. CASE i \in 1 .. n /\ j = n + 1
      BY <2>1, <2>2, <3>3 DEF n
    <3> QED BY <2>3, <3>1, <3>2, <3>3
  <2>5. ASSUME Alternates(b) PROVE Alternates(a)
    <3> SUFFICES ASSUME NEW i \in 2 .. n, a[i].kind = "ask"
                 PROVE  a[i - 1].kind = "reply"
      BY DEF Alternates, n
    <3>1. i \in 2 .. n + 1 /\ i \in 1 .. n /\ i - 1 \in 1 .. n
      BY <2>2
    <3>2. b[i] = a[i] /\ b[i - 1] = a[i - 1]
      BY <2>2, <3>1
    <3> QED BY <2>2, <2>5, <3>1, <3>2 DEF Alternates
  <2>6. Extends(Agents(a), Agents(b))
    <3>1. Agents(b) = Agents(a) \/ Agents(b) = Append(Agents(a), m)
      BY <2>1, AgentsAppend
    <3> DEFINE A == Agents(a)
    <3>2. A \in Seq(Message) /\ (Agents(b) = A \/ Agents(b) = Append(A, m))
      BY <1>0, <3>1
    <3> HIDE DEF A
    <3>3. Extends(A, A) /\ Extends(A, Append(A, m))
      BY <3>2 DEF Extends
    <3> QED BY <3>2, <3>3 DEF A
  <2> QED BY <2>2, <2>4, <2>5, <2>6
<1> QED BY <1>1, <1>2

(* So it is with every chat and every step.                                *)
LEMMA ChatsGrow ==
  ASSUME TypeInv, IInv, [Next]_vars, NEW c \in Conv
  PROVE  Grows(chat[c], chat'[c])
<1>1. ASSUME UNCHANGED chat PROVE Grows(chat[c], chat'[c])
  BY <1>1 DEF Grows
<1>2. ASSUME NEW d \in Conv, NEW m \in Message,
             chat' = [chat EXCEPT ![d] = Append(chat[d], m)],
             m.kind = "thinking" => \A i \in 1 .. Len(chat[d]) : chat[d][i] # m
      PROVE  Grows(chat[c], chat'[c])
  BY <1>2 DEF TypeInv, PageTypeOK, Grows
<1>3. CASE UNCHANGED vars
  BY <1>1, <1>3 DEF vars
<1>4. CASE User \/ Socket \/ SocketLost \/ SocketSilent
  <2>1. UNCHANGED chat
    BY <1>4 DEF User, Navigate, Search, Continue, Socket, PollFinds, PollMisses,
                TimedOut, SocketLost, SocketSilent, services
  <2> QED BY <1>1, <2>1
<1>5. ASSUME NEW k \in calls, Serve(k) \/ Settle(k) \/ CallFails(k)
      PROVE  Grows(chat[c], chat'[c])
  <2>1. CASE UNCHANGED chat
    BY <1>1, <2>1
  <2>2. CASE Serve(k) /\ k.op # "load"
    <3> DEFINE m == Msg("ask", [conv |-> k.conv, turn |-> k.n])
    <3>1. m \in Message /\ m.kind = "ask" /\ k.conv \in Conv
      BY <2>2 DEF TypeInv, PageTypeOK, Call, Msg, Message, Question
    <3>2. chat' = [chat EXCEPT ![k.conv] = Append(chat[k.conv], m)]
      BY <2>2 DEF Serve
    <3> QED BY <1>2, <3>1, <3>2
  <2> QED BY <1>5, <2>1, <2>2 DEF Serve, Settle, CallFails, services
<1>6. CASE Agent
  <2>1. PICK q \in working, m \in Message :
          /\ q.conv \in Conv
          /\ chat' = [chat EXCEPT ![q.conv] = Append(chat[q.conv], m)]
          /\ \/ \A i \in 1 .. Len(chat[q.conv]) : chat[q.conv][i] # m
             \/ m = Msg("reply", q)
    BY <1>6, AgentEffect
  <2>2. m.kind = "thinking" => \A i \in 1 .. Len(chat[q.conv]) : chat[q.conv][i] # m
    BY <2>1 DEF Msg
  <2> QED BY <1>2, <2>1, <2>2
<1> QED BY <1>3, <1>4, <1>5, <1>6 DEF Next, Network, Failure

(* What a call has fetched is nothing, what it had fetched before, or the  *)
(* turns of the chat as it is.                                             *)
LEMMA CopiesCome ==
  ASSUME TypeInv, IInv, [Next]_vars, NEW j \in calls'
  PROVE  \/ j.copy = << >>
         \/ \E k \in calls : k.conv = j.conv /\ k.copy = j.copy
         \/ j.copy = Split(chat[j.conv]) /\ UNCHANGED chat
<1>1. CASE calls' \subseteq calls
  BY <1>1
<1>2. CASE \E op, c, n : calls' = calls \cup {Request(op, c, n)}
  BY <1>2 DEF Request
<1>3. ASSUME NEW k \in calls, Serve(k) \/ CallFails(k)
      PROVE  \/ j.copy = << >>
             \/ \E i \in calls : i.conv = j.conv /\ i.copy = j.copy
             \/ j.copy = Split(chat[j.conv]) /\ UNCHANGED chat
  <2>1. PICK i : /\ Staged(k, i)
                 /\ \/ i.copy \in {k.copy, << >>}
                    \/ i.copy = Split(chat[k.conv]) /\ UNCHANGED chat
    BY <1>3, ServeEffect, CallFailsEffect
  <2> QED BY <2>1 DEF Staged
<1>4. CASE UNCHANGED vars \/ Socket \/ SocketLost \/ SocketSilent \/ Agent
  <2>1. UNCHANGED calls
    BY <1>4, AgentEffect DEF vars, Socket, PollFinds, PollMisses, TimedOut,
           SocketLost, SocketSilent
  <2> QED BY <1>1, <2>1
<1>5. ASSUME NEW k \in calls, Settle(k) PROVE calls' \subseteq calls
  BY <1>5 DEF Settle
<1>6. ASSUME NEW s \in BOOLEAN, NEW u \in Conv \cup {None}, Navigate(s, u)
      PROVE  \/ calls' \subseteq calls
             \/ \E op, c, n : calls' = calls \cup {Request(op, c, n)}
  BY <1>6, NavigateEffect DEF NavigatedTo
<1>7. ASSUME Continue \/ \E c \in Conv : Search(c)
      PROVE  \E op, c, n : calls' = calls \cup {Request(op, c, n)}
  <2>1. CASE Continue
    BY <2>1 DEF Continue
  <2>2. CASE \E c \in Conv : Search(c)
    BY <2>2 DEF Search
  <2> QED BY <1>7, <2>1, <2>2
<1> QED BY <1>1, <1>2, <1>3, <1>4, <1>5, <1>6, <1>7 DEF Next, User, Network, Failure

(* No thought is told twice in a chat; and what was fetched of a chat      *)
(* whose turns alternate is what the agents said in it, turn by turn.      *)
CopyInv ==
  /\ \A c \in Conv : OnceEach(chat[c])
  /\ \A k \in calls : Alternates(chat[k.conv]) => CopyLog(k.copy, Agents(chat[k.conv]))

LEMMA NextCopies == TypeInv /\ IInv /\ CopyInv /\ [Next]_vars => CopyInv'
<1> SUFFICES ASSUME TypeInv, IInv, CopyInv, [Next]_vars PROVE CopyInv'
  OBVIOUS
<1>1. TypeInv'
  BY NextType
<1>2. /\ \A c \in Conv : chat[c] \in Seq(Message) /\ chat'[c] \in Seq(Message)
      /\ \A j \in calls' : j.conv \in Conv
      /\ \A k \in calls : k.copy \in Seq(Turn)
  BY <1>1 DEF TypeInv, PageTypeOK, Call
<1>3. \A c \in Conv : Grows(chat[c], chat'[c])
  BY ChatsGrow
<1>4. \A c \in Conv : OnceEach(chat'[c])
  BY <1>2, <1>3, GrowsKeeps DEF CopyInv
<1>5. ASSUME NEW j \in calls', Alternates(chat'[j.conv])
      PROVE  CopyLog(j.copy, Agents(chat'[j.conv]))
  <2> DEFINE a == chat[j.conv]
             b == chat'[j.conv]
  <2>1. /\ a \in Seq(Message) /\ b \in Seq(Message) /\ Alternates(a)
        /\ Extends(Agents(a), Agents(b))
    BY <1>2, <1>3, <1>5, GrowsKeeps
  <2>2. Agents(a) \in Seq(Message) /\ Agents(b) \in Seq(Message)
    BY <2>1, PickedKinds
  <2>3. CASE j.copy = << >>
    BY <2>3 DEF CopyLog
  <2>4. CASE \E k \in calls : k.conv = j.conv /\ k.copy = j.copy
    <3>1. CopyLog(j.copy, Agents(a)) /\ j.copy \in Seq(Turn)
      BY <1>2, <2>1, <2>4 DEF CopyInv
    <3> HIDE DEF a, b
    <3>2. CopyLog(j.copy, Agents(b))
      BY <2>1, <2>2, <3>1, CopyExtends
    <3> QED BY <3>2 DEF b
  <2>5. CASE j.copy = Split(chat[j.conv]) /\ UNCHANGED chat
    BY <2>1, <2>5, SplitLog
  <2> QED BY <2>3, <2>4, <2>5, CopiesCome
<1> QED BY <1>4, <1>5 DEF CopyInv

(* Nor is one told twice in what the agents said.                          *)
LEMMA AgentsOnce ==
  ASSUME NEW msgs \in Seq(Message), OnceEach(msgs)
  PROVE  ThoughtsOnce(Agents(msgs))
<1> DEFINE A == Agents(msgs)
           S == {i \in 1 .. Len(msgs) : IsAgents(msgs[i])}
<1>1. /\ S \subseteq 1 .. Len(msgs)
      /\ \A n \in 1 .. Len(A) : Nth(S, n) \in S /\ A[n] = msgs[Nth(S, n)]
      /\ \A n, l \in 1 .. Len(A) : Nth(S, n) = Nth(S, l) => n = l
  BY AgentsAt
<1> HIDE DEF A, S
<1>2. ASSUME NEW n \in 1 .. Len(A), NEW l \in 1 .. Len(A), A[n] = A[l], A[n].kind = "thinking"
      PROVE  n = l
  <2>1. Nth(S, n) = Nth(S, l)
    BY <1>1, <1>2 DEF OnceEach
  <2> QED BY <1>1, <2>1
<1> QED BY <1>2 DEF ThoughtsOnce, A
(* Unless the user walked away from a request, and as long as the turns of *)
(* the chats alternate, the page has shown nothing or is the log of one    *)
(* conversation: the one its socket is for and that it speaks to, if any.  *)
(* Only the further message of a conversation finds something shown.       *)
IsLogOf(p, d) ==
  /\ Log(p, Agents(chat[d]))
  /\ p.socket \in {d, None} /\ AddresseeOf(p) \in {d, None}
PageLog ==
  ~crossed /\ TurnsAlternate =>
    /\ Fresh(page) \/ \E d \in Conv : IsLogOf(page, d)
    /\ \A k \in calls : k.op # "continue" => Fresh(page)

LEMMA AlternatesIs == TurnsAlternate <=> \A c \in Conv : Alternates(chat[c])
BY DEF TurnsAlternate, Alternates

(* What all the steps below may assume, of the state they start from.      *)
LogInv == TypeInv /\ IInv /\ ShownInv /\ CopyInv /\ PageLog

LEMMA LogFacts ==
  ASSUME LogInv, [Next]_vars, ~crossed', TurnsAlternate'
  PROVE  /\ ~crossed /\ TurnsAlternate
         /\ Fresh(page) \/ \E d \in Conv : IsLogOf(page, d)
         /\ \A k \in calls : k.op # "continue" => Fresh(page)
         /\ \A c \in Conv : /\ Alternates(chat[c])
                            /\ Agents(chat[c]) \in Seq(Message)
                            /\ ThoughtsOnce(Agents(chat[c]))
                            /\ Agents(chat'[c]) \in Seq(Message)
                            /\ Extends(Agents(chat[c]), Agents(chat'[c]))
<1>1. \A c \in Conv : chat[c] \in Seq(Message) /\ Grows(chat[c], chat'[c])
  BY ChatsGrow DEF LogInv, TypeInv, PageTypeOK
<1>2. \A c \in Conv : Alternates(chat'[c])
  BY DEF TurnsAlternate, Alternates
<1>3. \A c \in Conv : chat'[c] \in Seq(Message) /\ Alternates(chat[c])
                      /\ Extends(Agents(chat[c]), Agents(chat'[c]))
  BY <1>1, <1>2, GrowsKeeps
<1>4. \A c \in Conv : /\ Agents(chat[c]) \in Seq(Message)
                      /\ Agents(chat'[c]) \in Seq(Message)
                      /\ ThoughtsOnce(Agents(chat[c]))
  BY <1>1, <1>3, PickedKinds, AgentsOnce DEF LogInv, CopyInv
<1>5. ~crossed
  <2>1. crossed' \in {crossed, crossed \/ calls # {}}
    BY DEF Next, User, Network, Socket, Failure, Agent, vars, Navigate, Search,
           Continue, Serve, Settle, CallFails, PollFinds, PollMisses, TimedOut,
           SocketLost, SocketSilent, AgentThinks, AgentReplies
  <2>2. crossed \in BOOLEAN
    BY DEF LogInv, IInv
  <2> QED BY <2>1, <2>2
<1> QED BY <1>3, <1>4, <1>5, AlternatesIs DEF LogInv, PageLog

(* The log of a page depends on its content alone.                         *)
LEMMA ContentLog ==
  ASSUME NEW p, NEW q, Content(p, q)
  PROVE  /\ Fresh(p) => Fresh(q)
         /\ \A A : Log(p, A) => Log(q, A)
BY DEF Content, Fresh, Log

LEMMA NavigateLog ==
  ASSUME LogInv, [Next]_vars, NEW s \in BOOLEAN, NEW u \in Conv \cup {None}, Navigate(s, u)
  PROVE  PageLog'
<1> SUFFICES ASSUME ~crossed', TurnsAlternate'
             PROVE  /\ (Fresh(page) \/ \E d \in Conv : IsLogOf(page, d))'
                    /\ \A k \in calls' : k.op # "continue" => Fresh(page')
  BY DEF PageLog
<1>1. UNCHANGED chat /\ calls = {} /\ NavigatedTo(u)
  BY NavigateEffect DEF LogInv, IInv
<1>2. CASE Reset(page')
  BY <1>2 DEF Reset, Empty, Fresh
<1>3. CASE /\ UNCHANGED calls /\ Content(page, page') /\ page'.url = None
           /\ page'.conversation = page.conversation /\ page'.socket = page.socket
  <2>1. ASSUME NEW d \in Conv, IsLogOf(page, d) PROVE IsLogOf(page, d)'
    <3>1. AddresseeOf(page') \in {AddresseeOf(page), None}
      BY <1>3 DEF AddresseeOf
    <3>2. Log(page', Agents(chat[d]))
      BY <1>3, <2>1, ContentLog DEF IsLogOf
    <3> QED BY <1>1, <1>3, <2>1, <3>1, <3>2 DEF IsLogOf
  <2>2. Fresh(page) => Fresh(page')
    BY <1>3, ContentLog
  <2> QED BY <1>1, <1>3, <2>1, <2>2, LogFacts
<1> QED BY <1>1, <1>2, <1>3 DEF NavigatedTo

(* A turn that is over goes into the log of the conversation it was of.    *)
LEMMA ContinueLog ==
  ASSUME LogInv, [Next]_vars, Continue
  PROVE  PageLog'
<1> SUFFICES ASSUME ~crossed', TurnsAlternate'
             PROVE  /\ (Fresh(page) \/ \E d \in Conv : IsLogOf(page, d))'
                    /\ \A k \in calls' : k.op # "continue" => Fresh(page')
  BY DEF PageLog
<1> DEFINE c == AddresseeOf(page)
           A == Agents(chat[c])
<1>1. /\ UNCHANGED chat /\ ~page.loading /\ c \in Conv /\ c # None
      /\ calls' = calls \cup {Request("continue", c, sent[c] + 1)}
      /\ page'.messages = << >>
      /\ page'.offset = page.offset + Len(page.messages)
      /\ page'.completed = IF page.question = None THEN page.completed
                           ELSE Append(page.completed, Over)
      /\ Same(page, page') /\ page'.socket = None
  BY ContinueEffect, PageAssumption DEF LogInv
<1>2. \A k \in calls' : k.op = "continue"
  <2>1. calls = {}
    BY <1>1, LogFacts, NothingInFlight DEF LogInv
  <2> QED BY <1>1, <2>1 DEF Request
<1>3. A \in Seq(Message) /\ ThoughtsOnce(A) /\ Log(page, A)
  <2>1. A \in Seq(Message) /\ ThoughtsOnce(A)
    BY <1>1, LogFacts
  <2>2. Fresh(page) \/ \E d \in Conv : IsLogOf(page, d)
    BY LogFacts
  <2>3. ASSUME NEW d \in Conv, IsLogOf(page, d) PROVE Log(page, A)
    BY <1>1, <2>3 DEF IsLogOf
  <2> HIDE DEF A
  <2> QED BY <2>1, <2>2, <2>3, FreshLog
<1> HIDE DEF A, c
<1>4. /\ page \in Page /\ page.offset \in Nat /\ Len(page.messages) \in Nat /\ Len(A) \in Nat
      /\ page.offset + Len(page.messages) <= Len(A)
  BY <1>3 DEF LogInv, TypeInv, PageTypeOK, Page, Log
<1>5. LogOf(page'.completed, page'.offset, A)
  <2>1. CASE page.question = None
    <3>1. \A n \in 1 .. page.offset : n \in 1 .. page.offset + Len(page.messages)
      BY <1>4
    <3>2. LogOf(page.completed, page.offset, A)
      BY <1>3 DEF Log
    <3> QED BY <1>1, <2>1, <3>1, <3>2 DEF LogOf
  <2>2. CASE page.question # None
    <3>1. Over.messages = Thinking(page.messages)
      BY DEF Over
    <3> QED BY <1>1, <1>3, <1>4, <2>2, <3>1, OverLog
  <2> QED BY <2>1, <2>2
<1>6. Log(page', A)
  <2>1. Len(page'.messages) = 0 /\ 1 .. 0 = {}
    BY <1>1
  <2>2. page'.offset + 0 <= Len(A)
    BY <1>1, <1>4
  <2> QED BY <1>5, <2>1, <2>2 DEF Log
<1>7. ASSUME NEW d \in Conv, d = c PROVE IsLogOf(page, d)'
  <2>1. AddresseeOf(page') = c
    BY <1>1 DEF Same, AddresseeOf, c
  <2> QED BY <1>1, <1>6, <1>7, <2>1 DEF IsLogOf, A
<1> QED BY <1>1, <1>2, <1>7

(* The page waits while a call goes its way and while the agents speak.    *)
LEMMA WaitLog ==
  ASSUME LogInv, [Next]_vars, UNCHANGED page,
         \A j \in calls' : \E k \in calls : k.op = j.op
  PROVE  PageLog'
<1> SUFFICES ASSUME ~crossed', TurnsAlternate'
             PROVE  /\ (Fresh(page) \/ \E d \in Conv : IsLogOf(page, d))'
                    /\ \A k \in calls' : k.op # "continue" => Fresh(page')
  BY DEF PageLog
<1>1. ASSUME NEW d \in Conv, IsLogOf(page, d) PROVE IsLogOf(page, d)'
  <2> DEFINE A == Agents(chat[d])
             B == Agents(chat'[d])
  <2>1. page \in Page
    BY DEF LogInv, TypeInv, PageTypeOK
  <2>2. A \in Seq(Message) /\ B \in Seq(Message) /\ Extends(A, B) /\ Log(page, A)
    BY <1>1, LogFacts DEF IsLogOf
  <2> HIDE DEF A, B
  <2>3. Log(page, B)
    BY <2>1, <2>2, LogExtends
  <2> QED BY <1>1, <2>3 DEF IsLogOf, B
<1> QED BY <1>1, LogFacts

(* A callback fills an empty page or subscribes it to its conversation.    *)
LEMMA SettleLog ==
  ASSUME LogInv, [Next]_vars, NEW k \in calls, Settle(k)
  PROVE  PageLog'
<1> SUFFICES ASSUME ~crossed', TurnsAlternate'
             PROVE  /\ (Fresh(page) \/ \E d \in Conv : IsLogOf(page, d))'
                    /\ \A j \in calls' : j.op # "continue" => Fresh(page')
  BY DEF PageLog
<1>1. /\ UNCHANGED chat /\ calls' = calls \ {k} /\ SettledAs(k)
      /\ ~crossed /\ k.conv \in Conv /\ k.copy \in Seq(Turn)
  BY SettleEffect, LogFacts DEF LogInv, IInv, TypeInv, PageTypeOK, Call
<1>2. /\ calls' = {} /\ page.socket = None
      /\ k.op # "new" => AddresseeOf(page) = k.conv
      /\ k.op # "continue" => Fresh(page)
  <2>1. calls = {k} /\ page.socket = None
    BY <1>1 DEF LogInv, IInv, OneRequest
  <2>2. k.op # "new" => AddresseeOf(page) = k.conv
    BY <1>1 DEF LogInv, ShownInv, Shows
  <2>3. k.op # "continue" => Fresh(page)
    BY LogFacts
  <2> QED BY <1>1, <2>1, <2>2, <2>3
<1> DEFINE c == k.conv
           A == Agents(chat[c])
<1>3. A \in Seq(Message) /\ ThoughtsOnce(A) /\ CopyLog(k.copy, A)
  BY <1>1, LogFacts DEF LogInv, CopyInv
<1> HIDE DEF A
<1>4. CASE Content(page, page') /\ Same(page, page') /\ page'.socket = page.socket
  <2>1. AddresseeOf(page') = AddresseeOf(page)
    BY <1>4 DEF Same, AddresseeOf
  <2>2. \A d \in Conv : IsLogOf(page, d) => IsLogOf(page, d)'
    BY <1>1, <1>4, <2>1, ContentLog DEF IsLogOf
  <2>3. Fresh(page) => Fresh(page')
    BY <1>4, ContentLog
  <2> QED BY <1>2, <2>2, <2>3, LogFacts
<1>5. CASE /\ k.op = "load" /\ k.copy # << >> /\ Filled(page, page', k.copy)
           /\ Same(page, page') /\ page'.socket = page.socket
  <2>1. Log(page', A)
    BY <1>1, <1>3, <1>5, LoadedLog
  <2>2. AddresseeOf(page') = c
    BY <1>2, <1>5 DEF Same, AddresseeOf
  <2>3. IsLogOf(page, c)'
    BY <1>1, <1>2, <1>5, <2>1, <2>2 DEF IsLogOf, A
  <2> QED BY <1>1, <1>2, <2>3
<1>6. CASE /\ k.op # "load" /\ Content(page, page') /\ page'.url = page.url
           /\ page'.conversation = IF k.op = "new" THEN k.conv ELSE page.conversation
           /\ page'.socket = k.conv
  <2>1. CASE k.op = "new"
    BY <1>2, <1>6, <2>1, ContentLog
  <2>2. CASE k.op # "new"
    <3>1. AddresseeOf(page') = c /\ AddresseeOf(page) = c /\ c # None
      BY <1>1, <1>2, <1>6, <2>2, PageAssumption DEF AddresseeOf
    <3>2. Log(page, A) \/ Fresh(page)
      BY <3>1, LogFacts DEF IsLogOf, A
    <3>3. Log(page', A) \/ Fresh(page')
      BY <1>6, <3>2, ContentLog
    <3>4. Log(page', A)
      BY <1>3, <3>3, FreshLog
    <3>5. IsLogOf(page, c)'
      BY <1>1, <1>6, <3>1, <3>4 DEF IsLogOf, A
    <3> QED BY <1>1, <1>2, <3>5
  <2> QED BY <2>1, <2>2
<1> QED BY <1>1, <1>4, <1>5, <1>6 DEF SettledAs

(* An update shows all that is behind the offset.                          *)
LEMMA PollFindsLog ==
  ASSUME LogInv, [Next]_vars, PollFinds
  PROVE  PageLog'
<1> SUFFICES ASSUME ~crossed', TurnsAlternate'
             PROVE  /\ (Fresh(page) \/ \E d \in Conv : IsLogOf(page, d))'
                    /\ \A j \in calls' : j.op # "continue" => Fresh(page')
  BY DEF PageLog
<1> DEFINE c == page.socket
           A == Agents(chat[c])
           o == page.offset
<1>1. /\ UNCHANGED <<chat, calls>> /\ c \in Conv /\ c # None
      /\ page'.messages = SubSeq(A, o + 1, Len(A))
      /\ page'.completed = page.completed /\ page'.offset = o
      /\ Same(page, page') /\ page'.socket \in {c, None}
  BY PollFindsEffect DEF LogInv
<1>2. calls = {} /\ ~crossed
  BY <1>1, LogFacts, NothingInFlight DEF LogInv
<1>3. AddresseeOf(page) \in {c, None} /\ AddresseeOf(page') = AddresseeOf(page)
  BY <1>1, <1>2 DEF LogInv, ShownInv, Shows, Same, AddresseeOf
<1>4. A \in Seq(Message) /\ Log(page, A)
  <2>1. A \in Seq(Message)
    BY <1>1, LogFacts
  <2>2. ASSUME NEW d \in Conv, IsLogOf(page, d) PROVE Log(page, A)
    BY <1>1, <2>2 DEF IsLogOf
  <2> HIDE DEF A
  <2> QED BY <2>1, <2>2, FreshLog, LogFacts
<1>5. page.offset \in Nat /\ Len(page.messages) \in Nat /\ Len(A) \in Nat
  BY <1>4 DEF LogInv, TypeInv, PageTypeOK, Page
<1> HIDE DEF A, c, o
<1>6. o \in Nat /\ o <= Len(A)
  BY <1>4, <1>5 DEF Log, o
<1>7. Log(page', A)
  <2>1. /\ Len(page'.messages) = Len(A) - o
        /\ \A n \in 1 .. Len(A) - o : page'.messages[n] = A[o + n]
    BY <1>1, <1>4, <1>5, <1>6
  <2>2. o + (Len(A) - o) <= Len(A)
    BY <1>5, <1>6
  <2>3. LogOf(page'.completed, o, A)
    BY <1>1, <1>4 DEF Log, o
  <2> QED BY <1>1, <2>1, <2>2, <2>3 DEF Log
<1>8. ASSUME NEW d \in Conv, d = c PROVE IsLogOf(page, d)'
  BY <1>1, <1>3, <1>7, <1>8 DEF IsLogOf, A
<1> QED BY <1>1, <1>2, <1>8

(* The other events of the socket leave the log as it is.                  *)
LEMMA SocketLog ==
  ASSUME LogInv, [Next]_vars, PollMisses \/ TimedOut \/ SocketLost \/ SocketSilent
  PROVE  PageLog'
<1> SUFFICES ASSUME ~crossed', TurnsAlternate'
             PROVE  /\ (Fresh(page) \/ \E d \in Conv : IsLogOf(page, d))'
                    /\ \A j \in calls' : j.op # "continue" => Fresh(page')
  BY DEF PageLog
<1>1. /\ UNCHANGED <<chat, calls>> /\ Content(page, page') /\ Same(page, page')
      /\ page'.socket \in {page.socket, None}
  BY SocketEffect DEF LogInv
<1>2. AddresseeOf(page') = AddresseeOf(page)
  BY <1>1 DEF Same, AddresseeOf
<1>3. \A d \in Conv : IsLogOf(page, d) => IsLogOf(page, d)'
  BY <1>1, <1>2, ContentLog DEF IsLogOf
<1>4. Fresh(page) => Fresh(page')
  BY <1>1, ContentLog
<1> QED BY <1>1, <1>3, <1>4, LogFacts

(* Every step keeps the log.                                               *)
LEMMA NextLog == LogInv /\ [Next]_vars => PageLog'
<1> SUFFICES ASSUME LogInv, [Next]_vars PROVE PageLog'
  OBVIOUS
<1>1. CASE UNCHANGED vars
  BY <1>1, WaitLog DEF vars
<1>2. ASSUME NEW c \in Conv, Search(c) PROVE PageLog'
  <2>1. Reset(page')
    BY <1>2, SearchEffect DEF LogInv
  <2> QED BY <2>1 DEF PageLog, Reset, Empty, Fresh
<1>3. ASSUME NEW k \in calls, Serve(k) \/ CallFails(k) PROVE PageLog'
  <2>1. UNCHANGED page /\ \E j : Staged(k, j)
    BY <1>3, ServeEffect, CallFailsEffect DEF LogInv
  <2>2. \A j \in calls' : \E i \in calls : i.op = j.op
    BY <2>1 DEF Staged
  <2> QED BY <2>1, <2>2, WaitLog
<1>4. CASE Agent
  BY <1>4, AgentEffect, WaitLog DEF LogInv
<1> QED
  BY <1>1, <1>2, <1>3, <1>4, NavigateLog, ContinueLog, SettleLog, PollFindsLog, SocketLog
     DEF Next, User, Network, Socket, Failure

LEMMA LogInvariant == Spec => []LogInv
<1>1. Init => LogInv
  <2> SUFFICES ASSUME Init PROVE LogInv
    OBVIOUS
  <2>1. TypeInv /\ IInv /\ ShownInv
    BY InitType, InitIInv, InitShown
  <2>2. CopyInv
    BY DEF Init, CopyInv, OnceEach
  <2>3. Fresh(page) /\ calls = {}
    BY DEF Init, Blank, Fresh
  <2> QED BY <2>1, <2>2, <2>3 DEF LogInv, PageLog
<1>2. LogInv /\ [Next]_vars => LogInv'
  BY NextType, NextIInv, NextShows, NextCopies, NextLog DEF LogInv
<1> QED BY <1>1, <1>2, PTL DEF Spec

(* As long as the turns of the chats alternate, and unless the user walked *)
(* away from a request, no entry of the thinking logs on the page is there *)
(* twice: the offset counts what earlier turns have shown, however they    *)
(* came (handleContinue, the gateway's updates, splitTurns).               *)
THEOREM NothingEverShownTwice == Spec => []NothingShownTwice
<1>1. LogInv => NothingShownTwice
  <2> SUFFICES ASSUME LogInv, ~crossed, TurnsAlternate,
                      NEW i \in 1 .. Len(Rendered), NEW j \in 1 .. Len(Rendered),
                      NEW k \in DOMAIN Rendered[i].messages,
                      NEW l \in DOMAIN Rendered[j].messages,
                      Rendered[i].messages[k] = Rendered[j].messages[l]
               PROVE  i = j /\ k = l
    BY DEF NothingShownTwice
  <2>1. PICK A \in Seq(Message) : ThoughtsOnce(A) /\ Log(page, A)
    <3>1. \A c \in Conv : Agents(chat[c]) \in Seq(Message) /\ ThoughtsOnce(Agents(chat[c]))
      BY PickedKinds, AgentsOnce DEF LogInv, CopyInv, TypeInv, PageTypeOK
    <3>2. << >> \in Seq(Message) /\ ThoughtsOnce(<< >>)
      BY DEF ThoughtsOnce
    <3>3. CASE Fresh(page)
      BY <3>2, <3>3, FreshLog
    <3>4. CASE \E d \in Conv : IsLogOf(page, d)
      BY <3>1, <3>4 DEF IsLogOf
    <3> QED BY <3>3, <3>4 DEF LogInv, PageLog
  <2>2. page \in Page /\ Current.messages = Thinking(page.messages)
    BY DEF LogInv, TypeInv, PageTypeOK, Current
  <2>3. Apart(page.completed)
    BY <2>1 DEF Log, LogOf
  <2>4. Apart(Append(page.completed, Current))
    BY <2>1, <2>2, OverLog DEF LogOf
  <2>5. Apart(Rendered) /\ Rendered \in Seq(Turn)
    BY <2>2, <2>3, <2>4, RenderedIs
  <2>6. Rendered[i] \in Turn /\ Rendered[j] \in Turn
    BY <2>5
  <2>7. k \in 1 .. Len(Rendered[i].messages) /\ l \in 1 .. Len(Rendered[j].messages)
    BY <2>6 DEF Turn
  <2> QED BY <2>5, <2>7 DEF Apart
<1> QED BY <1>1, LogInvariant, PTL
----------------------------------------------------------------------------
(* Who speaks.  A chat whose last turn has no reply yet:                   *)
LastOf(msgs) == msgs[Len(msgs)]
Open(msgs) == msgs # << >> /\ LastOf(msgs).kind # "reply"

(* Where the turns alternate, what an agent says is told in the turn of    *)
(* its question, and an agent at work answers the question asked last.     *)
SpeakInv ==
  \A c \in Conv : Alternates(chat[c]) =>
    /\ InTurn(chat[c])
    /\ \A q \in working : q.conv = c => Open(chat[c]) /\ LastOf(chat[c]).of = q

(* One message more.                                                       *)
LEMMA SpokenLast ==
  ASSUME NEW msgs \in Seq(Message), NEW m \in Message
  PROVE  LET t == Append(msgs, m)
             n == Len(msgs)
         IN  /\ n \in Nat /\ t \in Seq(Message) /\ Len(t) = n + 1 /\ t[n + 1] = m
             /\ \A i \in 1 .. n : t[i] = msgs[i]
             /\ t # << >> /\ LastOf(t) = m
BY DEF LastOf

(* The first word to a question that no other awaits an answer for.        *)
LEMMA AskInTurn ==
  ASSUME NEW msgs \in Seq(Message), InTurn(msgs), NEW m \in Message, m.kind = "ask"
  PROVE  InTurn(Append(msgs, m))
<1> DEFINE t == Append(msgs, m)
           n == Len(msgs)
<1>1. /\ n \in Nat /\ Len(t) = n + 1 /\ t[n + 1] = m
      /\ \A i \in 1 .. n : t[i] = msgs[i]
  BY SpokenLast
<1> HIDE DEF t, n
<1> SUFFICES ASSUME NEW i \in 1 .. n + 1, t[i].kind # "ask"
             PROVE  \E b \in 1 .. i - 1 :
                      /\ t[b] = Msg("ask", t[i].of)
                      /\ \A j \in b + 1 .. i - 1 : t[j] = Msg("thinking", t[i].of)
  BY <1>1 DEF InTurn, t
<1>2. i \in 1 .. n
  BY <1>1
<1>3. PICK b \in 1 .. i - 1 :
        /\ msgs[b] = Msg("ask", msgs[i].of)
        /\ \A j \in b + 1 .. i - 1 : msgs[j] = Msg("thinking", msgs[i].of)
  BY <1>1, <1>2 DEF InTurn, n
<1>4. b \in 1 .. n /\ \A j \in b + 1 .. i - 1 : j \in 1 .. n
  BY <1>1, <1>2
<1> QED BY <1>1, <1>2, <1>3, <1>4

(* A further word in a turn that has no reply yet.                         *)
LEMMA AnswerInTurn ==
  ASSUME NEW msgs \in Seq(Message), InTurn(msgs), Open(msgs),
         NEW m \in Message, LastOf(msgs).of = m.of
  PROVE  InTurn(Append(msgs, m))
<1> DEFINE t == Append(msgs, m)
           n == Len(msgs)
           q == m.of
<1>1. /\ n \in Nat /\ Len(t) = n + 1 /\ t[n + 1] = m
      /\ \A i \in 1 .. n : t[i] = msgs[i]
  BY SpokenLast
<1>2. /\ n >= 1 /\ n \in 1 .. n /\ msgs[n] \in Message
      /\ msgs[n].of = q /\ msgs[n].kind \in {"ask", "thinking"}
  <2>1. n >= 1
    BY DEF Open
  <2>2. msgs[n] \in Message
    BY <1>1, <2>1
  <2> QED BY <1>1, <2>1, <2>2 DEF Open, LastOf, Message
<1>m. msgs[n] = Msg(msgs[n].kind, q)
  BY <1>2 DEF Message, Msg
<1> HIDE DEF t, n, q
<1> SUFFICES ASSUME NEW i \in 1 .. n + 1, t[i].kind # "ask"
             PROVE  \E b \in 1 .. i - 1 :
                      /\ t[b] = Msg("ask", t[i].of)
                      /\ \A j \in b + 1 .. i - 1 : t[j] = Msg("thinking", t[i].of)
  BY <1>1 DEF InTurn, t
<1>3. CASE i \in 1 .. n
  <2>1. PICK b \in 1 .. i - 1 :
          /\ msgs[b] = Msg("ask", msgs[i].of)
          /\ \A j \in b + 1 .. i - 1 : msgs[j] = Msg("thinking", msgs[i].of)
    BY <1>1, <1>3 DEF InTurn, n
  <2>2. b \in 1 .. n /\ \A j \in b + 1 .. i - 1 : j \in 1 .. n
    BY <1>1, <1>3
  <2> QED BY <1>1, <1>3, <2>1, <2>2
<1>4. CASE i = n + 1
  <2>0. i - 1 = n /\ t[i].of = q
    BY <1>1, <1>4 DEF q
  <2>1. CASE msgs[n].kind = "ask"
    <3>1. t[n] = Msg("ask", q) /\ n + 1 .. n = {}
      BY <1>1, <1>2, <1>m, <2>1
    <3> QED BY <1>2, <2>0, <3>1
  <2>2. CASE msgs[n].kind = "thinking"
    <3>1. PICK b \in 1 .. n - 1 :
            /\ msgs[b] = Msg("ask", q)
            /\ \A j \in b + 1 .. n - 1 : msgs[j] = Msg("thinking", q)
      BY <1>2, <2>2 DEF InTurn, n
    <3>2. b \in 1 .. n /\ \A j \in b + 1 .. n : j \in 1 .. n /\ (j \in b + 1 .. n - 1 \/ j = n)
      BY <1>1
    <3>3. \A j \in b + 1 .. n : t[j] = Msg("thinking", q)
      BY <1>1, <1>m, <2>2, <3>1, <3>2
    <3> QED BY <1>1, <2>0, <3>1, <3>2, <3>3
  <2> QED BY <1>2, <2>1, <2>2
<1> QED BY <1>1, <1>3, <1>4

(* A step adds a question of its own to a chat, or a word or the reply to  *)
(* a question being worked on.                                             *)
LEMMA StepsSpeak ==
  ASSUME TypeInv, IInv, [Next]_vars
  PROVE  \/ UNCHANGED <<chat, working>>
         \/ \E k \in calls : LET q == [conv |-> k.conv, turn |-> k.n] IN
              /\ q \in Question /\ Serve(k) /\ k.op # "load" /\ k.pc = "sent"
              /\ chat' = [chat EXCEPT ![q.conv] = Append(chat[q.conv], Msg("ask", q))]
              /\ working' = working \cup {q}
         \/ Agent
<1>1. CASE UNCHANGED vars \/ User \/ Socket \/ SocketLost \/ SocketSilent
  BY <1>1 DEF vars, User, Navigate, Search, Continue, Socket, PollFinds, PollMisses,
              TimedOut, SocketLost, SocketSilent, services
<1>2. ASSUME NEW k \in calls, Settle(k) \/ CallFails(k)
      PROVE  UNCHANGED <<chat, working>>
  BY <1>2 DEF Settle, CallFails, services
<1>3. ASSUME NEW k \in calls, Serve(k), k.op = "load"
      PROVE  UNCHANGED <<chat, working>>
  BY <1>3 DEF Serve, services
<1>4. ASSUME NEW k \in calls, Serve(k), k.op # "load"
      PROVE  LET q == [conv |-> k.conv, turn |-> k.n] IN
             /\ q \in Question /\ Serve(k) /\ k.op # "load" /\ k.pc = "sent"
             /\ chat' = [chat EXCEPT ![q.conv] = Append(chat[q.conv], Msg("ask", q))]
             /\ working' = working \cup {q}
  <2>1. [conv |-> k.conv, turn |-> k.n] \in Question
    BY <1>4 DEF TypeInv, PageTypeOK, Call, Question
  <2> QED BY <1>4, <2>1 DEF Serve
<1> QED BY <1>1, <1>2, <1>3, <1>4 DEF Next, Network, Failure

(* Every step keeps the turns in order.                                    *)
LEMMA NextSpeak == TypeInv /\ IInv /\ SpeakInv /\ [Next]_vars => SpeakInv'
<1> SUFFICES ASSUME TypeInv, IInv, SpeakInv, [Next]_vars PROVE SpeakInv'
  OBVIOUS
<1>t. chat \in [Conv -> Seq(Message)] /\ working \subseteq Question
  BY DEF TypeInv, PageTypeOK
<1>1. CASE UNCHANGED <<chat, working>>
  BY <1>1 DEF SpeakInv
<1>2. ASSUME NEW q \in Question, NEW m \in Message, m.of = q,
             chat' = [chat EXCEPT ![q.conv] = Append(chat[q.conv], m)],
             \/ m.kind = "ask" /\ working' = working \cup {q}
             \/ m.kind = "thinking" /\ q \in working /\ working' = working
             \/ m.kind = "reply" /\ q \in working /\ working' = working \ {q}
      PROVE  SpeakInv'
  <2> SUFFICES ASSUME NEW c \in Conv, Alternates(chat'[c])
               PROVE  /\ InTurn(chat'[c])
                      /\ \A p \in working' : p.conv = c =>
                           Open(chat'[c]) /\ LastOf(chat'[c]).of = p
    BY DEF SpeakInv
  <2> DEFINE a == chat[c]
             b == Append(a, m)
  <2>0. a \in Seq(Message) /\ q.conv \in Conv
    BY <1>t DEF Question
  <2>1. CASE c # q.conv
    <3>1. chat'[c] = chat[c] /\ \A p \in working' : p.conv = c => p \in working
      BY <1>2, <1>t, <2>1
    <3> QED BY <2>1, <3>1 DEF SpeakInv
  <2>2. CASE c = q.conv
    <3>1. chat'[c] = b
      BY <1>2, <1>t, <2>2
    <3>2. /\ b # << >> /\ LastOf(b) = m
          /\ \A i \in 1 .. Len(a) : b[i] = a[i]
          /\ Len(b) = Len(a) + 1 /\ Len(a) \in Nat /\ b[Len(a) + 1] = m
      BY <2>0, SpokenLast
    <3>4. Alternates(a)
      <4> SUFFICES ASSUME NEW i \in 2 .. Len(a), a[i].kind = "ask"
                   PROVE  a[i - 1].kind = "reply"
        BY DEF Alternates
      <4>1. i \in 2 .. Len(b) /\ i \in 1 .. Len(a) /\ i - 1 \in 1 .. Len(a)
        BY <3>2
      <4>2. b[i] = a[i] /\ b[i - 1] = a[i - 1]
        BY <3>2, <4>1
      <4> QED BY <3>1, <4>1, <4>2 DEF Alternates
    <3>5. /\ InTurn(a)
          /\ \A p \in working : p.conv = c => Open(a) /\ LastOf(a).of = p
      BY <3>4 DEF SpeakInv
    <3> HIDE DEF b
    <3>6. CASE m.kind = "ask"
      <4>1. InTurn(b)
        BY <2>0, <3>5, <3>6, AskInTurn DEF b
      <4>2. ~Open(a)
        <5>1. SUFFICES ASSUME Open(a) PROVE FALSE
          OBVIOUS
        <5> DEFINE n == Len(a)
        <5>2. n \in Nat /\ n >= 1 /\ n + 1 \in 2 .. Len(b) /\ (n + 1) - 1 = n /\ n \in 1 .. n
          BY <2>0, <3>2, <5>1 DEF Open
        <5>3. b[n].kind = "reply"
          BY <3>1, <3>2, <3>6, <5>2 DEF Alternates
        <5> QED BY <3>2, <5>1, <5>2, <5>3 DEF Open, LastOf
      <4>3. \A p \in working' : p.conv = c => p = q
        BY <1>2, <3>5, <3>6, <4>2
      <4> QED BY <1>2, <3>1, <3>2, <3>6, <4>1, <4>3 DEF Open
    <3>7. CASE m.kind # "ask"
      <4>1. q \in working /\ Open(a) /\ LastOf(a).of = q
        BY <1>2, <2>2, <3>5, <3>7
      <4>2. InTurn(b)
        BY <1>2, <2>0, <3>5, <4>1, AnswerInTurn DEF b
      <4>3. \A p \in working' : p.conv = c => p = q /\ m.kind = "thinking"
        BY <1>2, <3>5, <3>7, <4>1
      <4> QED BY <1>2, <3>1, <3>2, <4>2, <4>3 DEF Open
    <3> QED BY <3>6, <3>7
  <2> QED BY <2>1, <2>2
<1>3. \A q \in Question : \A k \in {"ask", "thinking", "reply"} :
        Msg(k, q) \in Message /\ Msg(k, q).kind = k /\ Msg(k, q).of = q
  BY DEF Msg, Message
<1>4. ASSUME NEW q \in Question,
             chat' = [chat EXCEPT ![q.conv] = Append(chat[q.conv], Msg("ask", q))],
             working' = working \cup {q}
      PROVE  SpeakInv'
  BY <1>2, <1>3, <1>4
<1>5. CASE Agent
  <2>1. PICK q \in working, m \in Message :
          /\ q \in Question
          /\ chat' = [chat EXCEPT ![q.conv] = Append(chat[q.conv], m)]
          /\ \/ m = Msg("thinking", q) /\ UNCHANGED working
             \/ m = Msg("reply", q) /\ working' = working \ {q}
    BY <1>5, AgentEffect
  <2> QED BY ZenonT(60), <1>2, <1>3, <2>1
<1> QED BY <1>1, <1>4, <1>5, StepsSpeak
----------------------------------------------------------------------------
(* Whose turns the page shows.  A chat whose last turn is the page's, with *)
(* nothing of another turn behind the offset:                              *)
OnTurn(p, msgs) ==
  /\ msgs # << >> /\ LastOf(msgs).of = p.question
  /\ p.offset <= Len(Agents(msgs))
  /\ \A n \in 1 .. Len(Agents(msgs)) : n > p.offset => Agents(msgs)[n].of = p.question

(* The turns of the chats alternate, and one without a reply is being      *)
(* waited for.                                                             *)
Ordered(p, ks, ch) ==
  \A c \in Conv :
    /\ Alternates(ch[c])
    /\ Open(ch[c]) => \/ p.socket = c
                      \/ \E k \in ks : k.op # "load" /\ k.pc # "sent" /\ k.conv = c

(* Each turn on the page is shown with what was said to its question.      *)
OwnPage(p) ==
  /\ OwnTurns(p.completed)
  /\ \A i \in 1 .. Len(p.messages) : p.messages[i].of = p.question
  /\ p.question # None /\ ~p.loading => p.answer = Msg("reply", p.question)

(* A page at rest has shown all there is of the chat it speaks to; ...     *)
Counted(p, ch) ==
  ~p.loading /\ (p.question # None \/ p.completed # << >>) /\ AddresseeOf(p) # None =>
    p.offset + Len(p.messages) = Len(Agents(ch[AddresseeOf(p)]))

(* ... one that listens hears of its own turn; and the requests are for a  *)
(* chat with all its replies, or for the turn the page is on.              *)
Heard(p, ch) == p.socket # None => OnTurn(p, ch[p.socket])
Fetched(k, ch) ==
  /\ ch[k.conv] # << >>
  /\ k.pc = "answered" => k.copy # << >> /\ Shown(k.copy) = Len(Agents(ch[k.conv]))
Posted(k, p, ch) ==
  /\ p.question = [conv |-> k.conv, turn |-> k.n]
  /\ k.pc = "sent" => p.offset = Len(Agents(ch[k.conv]))
  /\ k.pc = "answered" => OnTurn(p, ch[k.conv])
Pending(p, ks, ch) ==
  \A k \in ks : IF k.op = "load" THEN Fetched(k, ch) ELSE Posted(k, p, ch)

InStep(p, ks, ch) ==
  Ordered(p, ks, ch) /\ OwnPage(p) /\ Counted(p, ch) /\ Heard(p, ch) /\ Pending(p, ks, ch)
PageTurn == ~crossed /\ ~cut => InStep(page, calls, chat)

(* What getChat returns of a chat whose turns alternate shows each turn's  *)
(* own; and a conversation nothing was sent to is empty.                   *)
OwnCopies == \A k \in calls : Alternates(chat[k.conv]) => OwnTurns(k.copy)
Unsent ==
  /\ \A c \in Conv : sent[c] = 0 => chat[c] = << >>
  /\ \A k \in calls : k.op # "load" => sent[k.conv] # 0

TurnInv == /\ TypeInv /\ IInv /\ ShownInv /\ SpeakInv
           /\ OwnCopies /\ Unsent /\ PageTurn

(* Nobody has said anything in an empty chat.                              *)
LEMMA NoAgents == Agents(<< >>) = << >>
<1> DEFINE S == {i \in 1 .. Len(<< >>) : IsAgents((<< >>)[i])}
<1>1. S = {}
  <2>1. Len(<< >>) = 0 /\ 1 .. 0 = {}
    OBVIOUS
  <2> QED BY <2>1
<1> HIDE DEF S
<1>2. Agents(<< >>) = Picked(<< >>, S)
  BY DEF Agents, S
<1>3. << >> \in Seq(Message) /\ S \subseteq 1 .. Len(<< >>)
  BY <1>1
<1>4. Picked(<< >>, S) \in Seq(Message) /\ Len(Picked(<< >>, S)) = Cardinality(S)
  BY <1>3, PickedAt
<1>5. Len(Agents(<< >>)) = 0 /\ Agents(<< >>) \in Seq(Message)
  BY <1>1, <1>2, <1>4, FS_EmptySet
<1> QED BY <1>5

(* A turn remains the page's while its agent speaks, ...                   *)
LEMMA TurnGoesOn ==
  ASSUME NEW p, p.offset \in Nat, NEW msgs \in Seq(Message), OnTurn(p, msgs),
         NEW m \in Message, m.of = p.question
  PROVE  OnTurn(p, Append(msgs, m))
<1> DEFINE A == Agents(msgs)
           t == Append(msgs, m)
           B == Agents(t)
<1>1. A \in Seq(Message) /\ B = IF IsAgents(m) THEN Append(A, m) ELSE A
  BY AgentsAppend, PickedKinds
<1>2. t # << >> /\ LastOf(t) = m
  BY SpokenLast
<1>3. p.offset <= Len(A) /\ \A n \in 1 .. Len(A) : n > p.offset => A[n].of = p.question
  BY DEF OnTurn
<1> HIDE DEF A, B, t
<1>4. p.offset <= Len(B) /\ \A n \in 1 .. Len(B) : n > p.offset => B[n].of = p.question
  <2>1. CASE B = A
    BY <1>3, <2>1
  <2>2. CASE B = Append(A, m)
    <3>1. /\ Len(A) \in Nat /\ Len(B) = Len(A) + 1 /\ B[Len(A) + 1] = m
          /\ \A n \in 1 .. Len(A) : B[n] = A[n]
      BY <1>1, <2>2
    <3>2. \A n \in 1 .. Len(A) + 1 : n \in 1 .. Len(A) \/ n = Len(A) + 1
      BY <3>1
    <3>3. p.offset <= Len(A) + 1
      BY <1>3, <3>1
    <3> QED BY <1>3, <3>1, <3>2, <3>3
  <2> QED BY <1>1, <2>1, <2>2
<1> QED BY <1>2, <1>4 DEF OnTurn, B, t

(* ... and is the page's when its question is stored.                      *)
LEMMA TurnBegun ==
  ASSUME NEW p, NEW msgs \in Seq(Message), p.question \in Question,
         p.offset = Len(Agents(msgs))
  PROVE  OnTurn(p, Append(msgs, Msg("ask", p.question)))
<1> DEFINE m == Msg("ask", p.question)
           t == Append(msgs, m)
<1>1. m \in Message /\ m.of = p.question /\ ~IsAgents(m)
  BY DEF Msg, Message, IsAgents
<1> HIDE DEF m
<1>2. t # << >> /\ LastOf(t) = m /\ Agents(t) = Agents(msgs)
  BY <1>1, SpokenLast, AgentsAppend
<1>3. Agents(msgs) \in Seq(Message)
  BY PickedKinds
<1> DEFINE o == Len(Agents(msgs))
<1>4. o \in Nat /\ o <= o /\ \A n \in 1 .. o : ~(n > o)
  BY <1>3
<1> QED BY <1>1, <1>2, <1>4 DEF OnTurn, m

(* What the steps below may assume, of the state they start from.          *)
LEMMA TurnFacts ==
  ASSUME TurnInv, [Next]_vars, ~crossed', ~cut'
  PROVE  /\ ~crossed /\ ~cut /\ InStep(page, calls, chat)
         /\ page \in Page /\ \A c \in Conv : chat[c] \in Seq(Message)
         /\ chat \in [Conv -> Seq(Message)] /\ sent \in [Conv -> 0 .. MaxTurns]
         /\ \A k \in calls : /\ calls = {k} /\ page.loading /\ page.socket = None
                             /\ k \in Call /\ k.conv \in Conv
         /\ page.socket # None \/ ~page.loading => calls = {}
         /\ page.socket # None => page.loading
         /\ page.socket = None /\ calls = {} => \A c \in Conv : ~Open(chat[c])
<1>1. crossed \in BOOLEAN /\ cut \in BOOLEAN
  BY DEF TurnInv, TypeInv, PageTypeOK
<1>2. ~crossed
  <2>1. crossed' \in {crossed, crossed \/ calls # {}}
    BY DEF Next, User, Network, Socket, Failure, Agent, vars, Navigate, Search,
           Continue, Serve, Settle, CallFails, PollFinds, PollMisses, TimedOut,
           SocketLost, SocketSilent, AgentThinks, AgentReplies
  <2> QED BY <1>1, <2>1
<1>3. ~cut
  <2>1. \/ cut' = cut \/ cut' = TRUE
        \/ cut' = (cut \/ page'.socket # page.socket)
        \/ \E k \in calls : cut' = (cut \/ k.pc = "failed")
    BY DEF Next, User, Network, Socket, Failure, Agent, vars, Navigate, Search,
           Continue, Serve, Settle, CallFails, PollFinds, PollMisses, TimedOut,
           SocketLost, SocketSilent, AgentThinks, AgentReplies
  <2> QED BY <1>1, <2>1
<1>4. InStep(page, calls, chat)
  BY <1>2, <1>3 DEF TurnInv, PageTurn
<1>5. page \in Page /\ chat \in [Conv -> Seq(Message)] /\ sent \in [Conv -> 0 .. MaxTurns]
  BY DEF TurnInv, TypeInv, PageTypeOK
<1>6. \A k \in calls : /\ calls = {k} /\ page.loading /\ page.socket = None
                       /\ k \in Call /\ k.conv \in Conv
  BY <1>2 DEF TurnInv, TypeInv, PageTypeOK, IInv, OneRequest, IsCall
<1>7. page.socket # None => page.loading
  BY <1>2 DEF TurnInv, IInv, SocketIsAwaited
<1>8. page.socket = None /\ calls = {} => \A c \in Conv : ~Open(chat[c])
  BY <1>4, PageAssumption DEF InStep, Ordered
<1> QED BY <1>2, <1>3, <1>4, <1>5, <1>6, <1>7, <1>8

(* A page that starts afresh and listens to nothing.                       *)
LEMMA AfreshInStep ==
  ASSUME NEW p, NEW ks, NEW ch, Reset(p), p.loading \/ p.question = None,
         \A c \in Conv : Alternates(ch[c]) /\ ~Open(ch[c]), Pending(p, ks, ch)
  PROVE  InStep(p, ks, ch)
<1>1. p.messages = << >> /\ p.completed = << >> /\ p.socket = None
  BY DEF Reset, Empty
<1>2. Len(<< >>) = 0 /\ 1 .. 0 = {}
  OBVIOUS
<1> QED BY <1>1, <1>2 DEF InStep, Ordered, OwnPage, OwnTurns, Counted, Heard

(* Following a link with nothing under way.                                *)
LEMMA NavigateTurn ==
  ASSUME TurnInv, [Next]_vars, NEW s \in BOOLEAN, NEW u \in Conv \cup {None}, Navigate(s, u)
  PROVE  PageTurn'
<1> SUFFICES ASSUME ~crossed', ~cut' PROVE InStep(page', calls', chat')
  BY DEF PageTurn
<1>1. /\ UNCHANGED chat /\ NavigatedTo(u) /\ crossed' = (crossed \/ calls # {})
      /\ cut' = (cut \/ page'.socket # page.socket)
  BY NavigateEffect DEF TurnInv
<1>2. InStep(page, calls, chat) /\ calls = {} /\ page'.socket = page.socket
  BY <1>1, TurnFacts
<1>3. ASSUME Reset(page'), page'.loading \/ page'.question = None, Pending(page', calls', chat)
      PROVE  InStep(page', calls', chat')
  <2>1. \A c \in Conv : Alternates(chat[c]) /\ ~Open(chat[c])
    BY <1>2, <1>3, TurnFacts DEF Reset, InStep, Ordered
  <2> QED BY <1>1, <1>3, <2>1, AfreshInStep
<1>4. CASE /\ u \in Conv /\ chat[u] # << >> /\ calls' = calls \cup {Request("load", u, acts)}
           /\ Reset(page') /\ page'.loading = TRUE
  <2>1. Pending(page', calls', chat)
    BY <1>2, <1>4 DEF Pending, Fetched, Request
  <2> QED BY <1>3, <1>4, <2>1
<1>5. CASE UNCHANGED calls /\ Reset(page') /\ page'.question = None
  BY <1>2, <1>3, <1>5 DEF Pending
<1>6. CASE /\ UNCHANGED calls /\ Content(page, page') /\ page'.url = None
           /\ page'.conversation = page.conversation
           /\ page'.socket = page.socket /\ page'.loading = page.loading
  <2>1. AddresseeOf(page') \in {AddresseeOf(page), None}
    BY <1>6 DEF AddresseeOf
  <2>2. Ordered(page', calls', chat) /\ Pending(page', calls', chat)
    BY <1>2, <1>6 DEF InStep, Ordered, Pending
  <2>3. OwnPage(page')
    BY <1>2, <1>6 DEF InStep, OwnPage, Content
  <2>4. Counted(page', chat)
    BY <1>2, <1>6, <2>1 DEF InStep, Counted, Content
  <2>5. Heard(page', chat)
    BY <1>2, <1>6 DEF InStep, Heard, OnTurn, Content
  <2> QED BY <1>1, <2>2, <2>3, <2>4, <2>5 DEF InStep
<1> QED BY <1>1, <1>4, <1>5, <1>6 DEF NavigatedTo

(* A first message, in a conversation where nothing was said.              *)
LEMMA SearchTurn ==
  ASSUME TurnInv, [Next]_vars, NEW c \in Conv, Search(c)
  PROVE  PageTurn'
<1> SUFFICES ASSUME ~crossed', ~cut' PROVE InStep(page', calls', chat')
  BY DEF PageTurn
<1> DEFINE k == Request("new", c, 1)
<1>1. /\ UNCHANGED chat /\ ~page.loading /\ sent[c] = 0 /\ calls' = calls \cup {k}
      /\ Reset(page') /\ page'.loading = TRUE
      /\ page'.question = [conv |-> c, turn |-> 1]
  BY SearchEffect DEF TurnInv
<1>2. /\ InStep(page, calls, chat) /\ calls = {} /\ page.socket = None
      /\ \A d \in Conv : ~Open(chat[d])
  BY <1>1, TurnFacts
<1>3. chat[c] = << >> /\ Len(Agents(<< >>)) = 0
  BY <1>1, NoAgents DEF TurnInv, Unsent
<1>4. k.op = "new" /\ k.conv = c /\ k.n = 1 /\ k.pc = "sent"
  BY DEF Request
<1> HIDE DEF k
<1>5. Pending(page', calls', chat)
  BY <1>1, <1>2, <1>3, <1>4 DEF Pending, Posted, Reset
<1>6. \A d \in Conv : Alternates(chat[d]) /\ ~Open(chat[d])
  BY <1>2 DEF InStep, Ordered
<1> QED BY <1>1, <1>5, <1>6, AfreshInStep

(* A further one: the turn that is over shows its own, and there is        *)
(* nothing in the chat that the page has not counted.                      *)
LEMMA ContinueTurn ==
  ASSUME TurnInv, [Next]_vars, Continue
  PROVE  PageTurn'
<1> SUFFICES ASSUME ~crossed', ~cut' PROVE InStep(page', calls', chat')
  BY DEF PageTurn
<1> DEFINE c == AddresseeOf(page)
           k == Request("continue", c, sent[c] + 1)
<1>1. /\ UNCHANGED chat /\ ~page.loading /\ c \in Conv /\ HasConversation
      /\ calls' = calls \cup {k}
      /\ page'.question = [conv |-> c, turn |-> sent[c] + 1]
      /\ page'.messages = << >> /\ page'.offset = page.offset + Len(page.messages)
      /\ page'.completed = IF page.question = None THEN page.completed
                           ELSE Append(page.completed, Over)
      /\ page'.loading = TRUE /\ page'.socket = None
  BY ContinueEffect DEF TurnInv
<1>2. /\ InStep(page, calls, chat) /\ calls = {} /\ page.socket = None
      /\ page \in Page /\ \A d \in Conv : ~Open(chat[d])
  BY <1>1, TurnFacts
<1>3. page.offset + Len(page.messages) = Len(Agents(chat[c]))
  BY <1>1, <1>2, PageAssumption DEF InStep, Counted, HasConversation
<1>4. k.op = "continue" /\ k.conv = c /\ k.n = sent[c] + 1 /\ k.pc = "sent"
  BY DEF Request
<1> HIDE DEF k, c
<1>5. Pending(page', calls', chat)
  BY <1>1, <1>2, <1>3, <1>4 DEF Pending, Posted
<1>6. Ordered(page', calls', chat)
  BY <1>2 DEF InStep, Ordered
<1>7. OwnTurns(page'.completed)
  <2>1. OwnTurns(page.completed) /\ page.completed \in Seq(Turn)
    BY <1>2 DEF InStep, OwnPage, Page
  <2>2. ASSUME page.question # None PROVE OwnTurns(Append(page.completed, Over))
    <3>1. page.messages \in Seq(Message)
      BY <1>2 DEF Page
    <3>2. \A i \in 1 .. Len(Over.messages) :
            \E x \in 1 .. Len(page.messages) : Over.messages[i] = page.messages[x]
      BY <3>1, PickedKinds DEF Over
    <3>3. Over.question = page.question /\ Over.answer = page.answer
      BY DEF Over
    <3>4. OwnTurn(Over)
      BY <1>1, <1>2, <2>2, <3>2, <3>3 DEF InStep, OwnPage, OwnTurn
    <3> DEFINE done == page.completed
               more == Append(done, Over)
    <3>5. /\ Len(done) \in Nat /\ Len(more) = Len(done) + 1 /\ more[Len(done) + 1] = Over
          /\ \A i \in 1 .. Len(done) : more[i] = done[i]
      BY <2>1
    <3> HIDE DEF done, more
    <3>6. \A i \in 1 .. Len(done) + 1 : i \in 1 .. Len(done) \/ i = Len(done) + 1
      BY <3>5
    <3>7. OwnTurns(more)
      BY <2>1, <3>4, <3>5, <3>6 DEF OwnTurns, done
    <3> QED BY <3>7 DEF more, done
  <2> QED BY <1>1, <2>1, <2>2
<1>8. OwnPage(page')
  <2>1. Len(<< >>) = 0 /\ 1 .. 0 = {}
    OBVIOUS
  <2> QED BY <1>1, <1>7, <2>1 DEF OwnPage
<1>9. Counted(page', chat) /\ Heard(page', chat)
  BY <1>1 DEF Counted, Heard
<1> QED BY <1>1, <1>5, <1>6, <1>8, <1>9 DEF InStep

(* A question is stored where no turn is open; a chat is fetched when it   *)
(* has its replies; and a call that fails leaves the page as it is.        *)
LEMMA CallTurn ==
  ASSUME TurnInv, [Next]_vars, NEW k \in calls, Serve(k) \/ CallFails(k)
  PROVE  PageTurn'
<1> SUFFICES ASSUME ~crossed', ~cut' PROVE InStep(page', calls', chat')
  BY DEF PageTurn
<1> DEFINE c == k.conv
           q == [conv |-> c, turn |-> k.n]
           msgs == chat[c]
<1>1. /\ InStep(page, calls, chat) /\ calls = {k} /\ page.loading /\ page.socket = None
      /\ c \in Conv /\ msgs \in Seq(Message) /\ k \in Call
      /\ chat \in [Conv -> Seq(Message)]
  BY TurnFacts
<1>2. /\ \A d \in Conv : Alternates(chat[d]) /\ (Open(chat[d]) => k.op # "load" /\ k.pc # "sent" /\ c = d)
      /\ IF k.op = "load" THEN Fetched(k, chat) ELSE Posted(k, page, chat)
      /\ OwnPage(page)
  BY <1>1, PageAssumption DEF InStep, Ordered, Pending
<1>3. ASSUME NEW j, UNCHANGED page, Staged(k, j),
             \A d \in Conv : Alternates(chat'[d])
                             /\ (Open(chat'[d]) => j.op # "load" /\ j.pc # "sent" /\ c = d),
             IF j.op = "load" THEN Fetched(j, chat') ELSE Posted(j, page, chat')
      PROVE  InStep(page', calls', chat')
  <2>1. calls' = {j} /\ j.conv = c /\ page' = page
    BY <1>1, <1>3 DEF Staged
  <2>2. Ordered(page, calls', chat') /\ Pending(page, calls', chat')
    BY <1>3, <2>1 DEF Ordered, Pending
  <2>3. Counted(page, chat') /\ Heard(page, chat')
    BY <1>1 DEF Counted, Heard
  <2> QED BY <1>2, <2>1, <2>2, <2>3 DEF InStep
<1>4. CASE CallFails(k)
  <2>1. PICK j : /\ UNCHANGED <<chat, page>> /\ Staged(k, j) /\ j.pc = "failed"
    BY <1>4, CallFailsEffect DEF TurnInv
  <2>2. IF j.op = "load" THEN Fetched(j, chat') ELSE Posted(j, page, chat')
    BY <1>2, <2>1 DEF Fetched, Posted, Staged
  <2>3. \A d \in Conv : Alternates(chat'[d])
                        /\ (Open(chat'[d]) => j.op # "load" /\ j.pc # "sent" /\ c = d)
    BY <1>2, <2>1 DEF Staged
  <2> QED BY <1>3, <2>1, <2>2, <2>3
<1>5. CASE Serve(k)
  <2>1. PICK j : /\ UNCHANGED page /\ k.pc = "sent" /\ Staged(k, j) /\ j.pc = "answered"
                 /\ \/ /\ k.op = "load" /\ UNCHANGED chat /\ j.copy = Split(msgs)
                    \/ /\ k.op # "load"
                       /\ chat' = [chat EXCEPT ![c] = Append(@, Msg("ask", q))]
    BY <1>5, ServeEffect DEF TurnInv
  <2>2. CASE k.op = "load" /\ UNCHANGED chat /\ j.copy = Split(msgs)
    <3>1. msgs # << >> /\ ~Open(msgs) /\ Alternates(msgs)
      BY <1>1, <1>2, <2>2 DEF Fetched
    <3>2. Replied(msgs)
      BY <3>1 DEF Open, LastOf, Replied
    <3>3. Split(msgs) # << >> /\ Shown(Split(msgs)) = Len(Agents(msgs))
      BY <1>1, <3>1, <3>2, SplitLog
    <3>4. Fetched(j, chat') /\ j.op = "load"
      BY <2>1, <2>2, <3>1, <3>3 DEF Fetched, Staged
    <3> QED BY <1>2, <1>3, <2>1, <2>2, <3>4
  <2>3. CASE k.op # "load" /\ chat' = [chat EXCEPT ![c] = Append(@, Msg("ask", q))]
    <3> DEFINE m == Msg("ask", q)
               t == Append(msgs, m)
    <3>1. q \in Question /\ m \in Message /\ m.kind = "ask"
      BY <1>1, <2>3 DEF Call, Question, Msg, Message
    <3>2. page.question = q /\ page.offset = Len(Agents(msgs))
      BY <1>2, <2>1, <2>3 DEF Posted
    <3>3. OnTurn(page, t)
      BY <1>1, <3>1, <3>2, TurnBegun
    <3>4. ~Open(msgs) /\ Alternates(msgs)
      BY <1>1, <1>2, <2>1
    <3>5. /\ Len(msgs) \in Nat /\ Len(t) = Len(msgs) + 1 /\ t[Len(msgs) + 1] = m
          /\ \A i \in 1 .. Len(msgs) : t[i] = msgs[i]
      BY <1>1, <3>1, SpokenLast
    <3>6. chat'[c] = t /\ \A d \in Conv : d # c => chat'[d] = chat[d]
      BY <1>1, <2>3
    <3> HIDE DEF t, m, msgs, q, c
    <3>7. Alternates(t)
      <4> SUFFICES ASSUME NEW i \in 2 .. Len(t), t[i].kind = "ask"
                   PROVE  t[i - 1].kind = "reply"
        BY DEF Alternates
      <4>1. CASE i = Len(msgs) + 1
        <5>1. i - 1 = Len(msgs) /\ Len(msgs) >= 1 /\ Len(msgs) \in 1 .. Len(msgs)
          BY <3>5, <4>1
        <5>2. msgs # << >>
          BY <1>1, <5>1
        <5>3. msgs[Len(msgs)].kind = "reply"
          BY <3>4, <5>2 DEF Open, LastOf
        <5> QED BY <3>5, <5>1, <5>3
      <4>2. CASE i # Len(msgs) + 1
        <5>1. i \in 2 .. Len(msgs) /\ i \in 1 .. Len(msgs) /\ i - 1 \in 1 .. Len(msgs)
          BY <3>5, <4>2
        <5> QED BY <3>4, <3>5, <5>1 DEF Alternates
      <4> QED BY <4>1, <4>2
    <3>8. \A d \in Conv : Alternates(chat'[d])
                          /\ (Open(chat'[d]) => j.op # "load" /\ j.pc # "sent" /\ c = d)
      BY <1>2, <2>1, <2>3, <3>6, <3>7 DEF Staged, c
    <3>9. Posted(j, page, chat') /\ j.op # "load"
      <4>1. j.conv = c /\ j.n = k.n /\ j.op # "load" /\ j.pc = "answered"
        BY <2>1, <2>3 DEF Staged, c
      <4> QED BY <3>2, <3>3, <3>6, <4>1 DEF Posted, q
    <3> QED BY <1>3, <2>1, <3>8, <3>9 DEF c
  <2> QED BY <2>1, <2>2, <2>3
<1> QED BY <1>4, <1>5

(* The callback of getChat fills the page with turns that show their own,  *)
(* and the offset lies at the last of them.                                *)
LEMMA FilledOwn ==
  ASSUME NEW p, NEW q, NEW turns \in Seq(Turn), turns # << >>, OwnTurns(turns),
         Filled(p, q, turns)
  PROVE  /\ OwnPage(q) /\ q.offset + Len(q.messages) = Shown(turns)
<1> DEFINE N == Len(turns)
           last == turns[N]
           prev == SubSeq(turns, 1, N - 1)
<1>1. /\ N \in Nat /\ N >= 1 /\ N \in 1 .. N /\ N - 1 \in Nat /\ N - 1 <= N
      /\ \A i \in 1 .. N - 1 : i \in 1 .. N
  OBVIOUS
<1>2. Len(prev) = N - 1 /\ \A i \in 1 .. N - 1 : prev[i] = turns[i]
  <2> DEFINE l == N - 1
  <2>1. l \in Nat /\ l <= Len(turns)
    BY <1>1
  <2> HIDE DEF l
  <2>2. /\ Len(SubSeq(turns, 1, l)) = l
        /\ \A i \in 1 .. l : SubSeq(turns, 1, l)[i] = turns[i]
    BY <2>1
  <2> QED BY <2>2 DEF l
<1>3. /\ q.question = last.question /\ q.messages = last.messages /\ q.answer = last.answer
      /\ q.offset = Shown(prev)
      /\ q.completed = [i \in 1 .. Len(prev) |-> Completed(prev[i])]
  BY DEF Filled
<1>4. Shown(turns) = Shown(prev) + Len(last.messages)
  BY ShownStep
<1>5. OwnTurn(last) /\ \A i \in 1 .. N - 1 : OwnTurn(prev[i]) /\ prev[i] \in Turn
  BY <1>1, <1>2 DEF OwnTurns
<1>6. ASSUME NEW t \in Turn, OwnTurn(t) PROVE OwnTurn(Completed(t))
  <2>1. t.messages \in Seq(Message)
    BY DEF Turn
  <2> DEFINE L == Thinking(t.messages)
  <2>2. \A i \in 1 .. Len(L) : \E x \in 1 .. Len(t.messages) : L[i] = t.messages[x]
    BY <2>1, PickedKinds
  <2> HIDE DEF L
  <2>3. Completed(t) = [t EXCEPT !.messages = L]
    BY DEF Completed, L
  <2>4. /\ Completed(t).question = t.question /\ Completed(t).answer = t.answer
        /\ Completed(t).messages = L
    BY <2>3 DEF Turn
  <2> QED BY <1>6, <2>2, <2>4 DEF OwnTurn
<1> HIDE DEF N, last, prev
<1>7. OwnTurns(q.completed)
  BY <1>2, <1>3, <1>5, <1>6 DEF OwnTurns
<1>8. OwnPage(q)
  BY <1>3, <1>5, <1>7 DEF OwnPage, OwnTurn
<1> QED BY <1>3, <1>4, <1>8 DEF last, N

(* A callback comes while nothing else is under way: the chat is as it was *)
(* fetched, or the turn is the one the page is on.                         *)
LEMMA SettleTurn ==
  ASSUME TurnInv, [Next]_vars, NEW k \in calls, Settle(k)
  PROVE  PageTurn'
<1> SUFFICES ASSUME ~crossed', ~cut' PROVE InStep(page', calls', chat')
  BY DEF PageTurn
<1>1. /\ UNCHANGED chat /\ calls' = calls \ {k} /\ k.pc # "sent"
      /\ cut' = (cut \/ k.pc = "failed") /\ SettledAs(k)
  BY SettleEffect DEF TurnInv
<1>2. /\ InStep(page, calls, chat) /\ calls = {k} /\ page.loading /\ page.socket = None
      /\ k.conv \in Conv /\ k \in Call /\ ~crossed
  BY TurnFacts
<1>3. calls' = {} /\ k.pc = "answered" /\ chat' = chat
  BY <1>1, <1>2 DEF Call, CallPc
<1>4. \A d \in Conv : Alternates(chat[d]) /\ (Open(chat[d]) => k.op # "load" /\ k.conv = d)
  BY <1>2, PageAssumption DEF InStep, Ordered
<1>5. Pending(page', calls', chat)
  BY <1>3 DEF Pending
<1>6. CASE /\ k.op = "load" /\ Filled(page, page', k.copy) /\ Same(page, page')
           /\ page'.socket = page.socket
  <2>1. k.copy # << >> /\ Shown(k.copy) = Len(Agents(chat[k.conv])) /\ k.copy \in Seq(Turn)
    BY <1>2, <1>3, <1>6 DEF InStep, Pending, Fetched, Call
  <2>2. OwnTurns(k.copy)
    BY <1>2, <1>4 DEF TurnInv, OwnCopies
  <2>3. OwnPage(page') /\ page'.offset + Len(page'.messages) = Shown(k.copy)
    BY <1>6, <2>1, <2>2, FilledOwn
  <2>4. AddresseeOf(page') = k.conv
    BY <1>2, <1>6 DEF TurnInv, ShownInv, Shows, Same, AddresseeOf
  <2>5. Counted(page', chat)
    BY <2>1, <2>3, <2>4 DEF Counted
  <2>6. Ordered(page', calls', chat) /\ Heard(page', chat)
    BY <1>2, <1>4, <1>6 DEF Ordered, Heard
  <2> QED BY <1>3, <1>5, <2>3, <2>5, <2>6 DEF InStep
<1>7. CASE /\ k.op # "load" /\ Content(page, page')
           /\ page'.socket = k.conv /\ page'.loading = page.loading
  <2>1. OnTurn(page, chat[k.conv])
    BY <1>2, <1>3, <1>7 DEF InStep, Pending, Posted
  <2>2. Heard(page', chat)
    BY <1>7, <2>1 DEF Heard, OnTurn, Content
  <2>3. Ordered(page', calls', chat) /\ Counted(page', chat)
    BY <1>2, <1>4, <1>7 DEF Ordered, Counted
  <2>4. OwnPage(page')
    BY <1>2, <1>7 DEF InStep, OwnPage, Content
  <2> QED BY <1>3, <1>5, <2>2, <2>3, <2>4 DEF InStep
<1>8. ~(k.op = "load" /\ k.copy = << >>)
  BY <1>2, <1>3 DEF InStep, Pending, Fetched
<1> QED BY <1>1, <1>3, <1>6, <1>7, <1>8 DEF SettledAs

(* An update shows what was said to the turn's question, and its reply     *)
(* ends the wait.                                                          *)
LEMMA PollFindsTurn ==
  ASSUME TurnInv, [Next]_vars, PollFinds
  PROVE  PageTurn'
<1> SUFFICES ASSUME ~crossed', ~cut' PROVE InStep(page', calls', chat')
  BY DEF PageTurn
<1> DEFINE d == page.socket
           msgs == chat[d]
           A == Agents(msgs)
           o == page.offset
<1>1. /\ UNCHANGED <<chat, calls>> /\ d \in Conv /\ d # None
      /\ page'.messages = SubSeq(A, o + 1, Len(A))
      /\ page'.question = page.question /\ page'.completed = page.completed
      /\ page'.offset = o /\ Same(page, page')
      /\ \/ /\ Replied(msgs) /\ page'.answer = LastOf(msgs)
            /\ page'.socket = None /\ page'.loading = FALSE
         \/ /\ ~Replied(msgs) /\ page'.answer = page.answer
            /\ page'.socket = page.socket /\ page'.loading = page.loading
  BY PollFindsEffect DEF TurnInv, LastOf
<1>2. /\ InStep(page, calls, chat) /\ ~crossed /\ calls = {} /\ page.loading
      /\ msgs \in Seq(Message) /\ page \in Page
  BY <1>1, TurnFacts
<1>3. OnTurn(page, msgs)
  BY <1>1, <1>2 DEF InStep, Heard
<1>4. A \in Seq(Message) /\ Len(A) \in Nat /\ o \in Nat /\ o <= Len(A)
  BY <1>2, <1>3, PickedKinds DEF OnTurn, Page
<1>5. \A n \in 1 .. Len(A) : n > o => A[n].of = page.question
  BY <1>3 DEF OnTurn
<1>6. AddresseeOf(page') \in {d, None}
  BY <1>1, <1>2 DEF TurnInv, ShownInv, Shows, Same, AddresseeOf
<1> HIDE DEF A, o, msgs, d
<1>7. /\ Len(page'.messages) = Len(A) - o
      /\ \A i \in 1 .. Len(A) - o : page'.messages[i] = A[o + i]
  BY <1>1, <1>4
<1>a. o + (Len(A) - o) = Len(A)
  BY <1>4
<1>8. \A i \in 1 .. Len(page'.messages) : page'.messages[i].of = page'.question
  <2> DEFINE M == page'.messages
             l == Len(A) - o
  <2>1. ASSUME NEW i \in 1 .. l PROVE M[i].of = page.question
    <3> DEFINE n == o + i
               N == Len(A)
    <3>1. n \in 1 .. N /\ n > o
      BY <1>4
    <3>2. M[i] = A[n]
      BY <1>7
    <3> HIDE DEF n, N
    <3>3. A[n].of = page.question
      BY <1>5, <3>1 DEF N
    <3> QED BY <3>2, <3>3
  <2>2. Len(M) = l
    BY <1>7
  <2> HIDE DEF M, l
  <2>3. \A i \in 1 .. Len(M) : M[i].of = page'.question
    BY <1>1, <2>1, <2>2
  <2> QED BY <2>3 DEF M
<1>9. OwnTurns(page'.completed)
  BY <1>1, <1>2 DEF InStep, OwnPage
<1>10. Counted(page', chat)
  BY <1>1, <1>6, <1>7, <1>a DEF Counted, A, msgs
<1>11. Pending(page', calls', chat)
  BY <1>1, <1>2 DEF Pending
<1>12. CASE /\ Replied(msgs) /\ page'.answer = LastOf(msgs)
            /\ page'.socket = None /\ page'.loading = FALSE
  <2>1. msgs # << >> /\ LastOf(msgs).kind = "reply" /\ LastOf(msgs).of = page.question
    BY <1>3, <1>12 DEF Replied, LastOf, OnTurn
  <2>2. LastOf(msgs) \in Message
    BY <1>2, <2>1 DEF LastOf
  <2>3. LastOf(msgs) = Msg("reply", page.question)
    BY <2>1, <2>2 DEF Message, Msg
  <2>4. OwnPage(page')
    BY <1>1, <1>8, <1>9, <1>12, <2>3 DEF OwnPage
  <2>5. Ordered(page', calls', chat)
    BY <1>1, <1>2, <2>1 DEF InStep, Ordered, Open, msgs, d
  <2>6. Heard(page', chat)
    BY <1>12 DEF Heard
  <2> QED BY <1>1, <1>10, <1>11, <2>4, <2>5, <2>6 DEF InStep
<1>13. CASE /\ page'.answer = page.answer /\ page'.socket = page.socket
            /\ page'.loading = page.loading
  <2>1. OwnPage(page')
    BY <1>2, <1>8, <1>9, <1>13 DEF OwnPage
  <2>2. Ordered(page', calls', chat)
    BY <1>1, <1>2, <1>13 DEF InStep, Ordered
  <2>3. Heard(page', chat)
    BY <1>1, <1>2, <1>13 DEF InStep, Heard, OnTurn, o
  <2> QED BY <1>1, <1>10, <1>11, <2>1, <2>2, <2>3 DEF InStep
<1> QED BY <1>1, <1>12, <1>13

(* The other events of the socket are no end of a wait, or it is cut.      *)
LEMMA SocketTurn ==
  ASSUME TurnInv, [Next]_vars, PollMisses \/ TimedOut \/ SocketLost \/ SocketSilent
  PROVE  PageTurn'
<1> SUFFICES ASSUME ~crossed', ~cut' PROVE InStep(page', calls', chat')
  BY DEF PageTurn
<1>1. /\ UNCHANGED <<chat, calls>> /\ Content(page, page') /\ Same(page, page')
      /\ page'.socket = page.socket /\ page'.loading = page.loading
  BY SocketEffect DEF TurnInv
<1>2. InStep(page, calls, chat) /\ AddresseeOf(page') = AddresseeOf(page)
  BY <1>1, TurnFacts DEF Same, AddresseeOf
<1>3. Ordered(page', calls', chat)
  BY <1>1, <1>2 DEF InStep, Ordered
<1>4. OwnPage(page')
  BY <1>1, <1>2 DEF InStep, OwnPage, Content
<1>5. Counted(page', chat)
  BY <1>1, <1>2 DEF InStep, Counted, Content
<1>6. Heard(page', chat)
  BY <1>1, <1>2 DEF InStep, Heard, OnTurn, Content
<1>7. Pending(page', calls', chat)
  BY <1>1, <1>2 DEF InStep, Pending, Posted, OnTurn, Content
<1> QED BY <1>1, <1>3, <1>4, <1>5, <1>6, <1>7 DEF InStep

(* An agent speaks in the turn that the page waits for.                    *)
LEMMA AgentTurn ==
  ASSUME TurnInv, [Next]_vars, Agent
  PROVE  PageTurn'
<1> SUFFICES ASSUME ~crossed', ~cut' PROVE InStep(page', calls', chat')
  BY DEF PageTurn
<1>1. PICK q \in working, m \in Message :
        /\ q \in Question /\ q.conv \in Conv
        /\ chat' = [chat EXCEPT ![q.conv] = Append(chat[q.conv], m)]
        /\ m = Msg("thinking", q) \/ m = Msg("reply", q)
  BY AgentEffect DEF TurnInv
<1>2. UNCHANGED <<page, calls>>
  BY AgentEffect DEF TurnInv
<1> DEFINE c == q.conv
           msgs == chat[c]
           t == Append(msgs, m)
<1>3. /\ InStep(page, calls, chat) /\ page \in Page /\ msgs \in Seq(Message)
      /\ chat \in [Conv -> Seq(Message)]
      /\ \A k \in calls : calls = {k} /\ page.loading /\ page.socket = None
      /\ page.socket # None => page.loading /\ calls = {}
  BY <1>1, TurnFacts
<1>4. page.offset \in Nat /\ m.of = q /\ m.kind # "ask"
  BY <1>1, <1>3 DEF Page, Msg
<1>5. Open(msgs) /\ LastOf(msgs).of = q /\ Alternates(msgs)
  <2>1. Alternates(msgs)
    BY <1>1, <1>3 DEF InStep, Ordered
  <2> QED BY <1>1, <2>1 DEF TurnInv, SpeakInv
<1>6. /\ page.loading
      /\ \/ page.socket = c /\ calls = {}
         \/ /\ page.socket = None
            /\ \E k \in calls : calls = {k} /\ k.op # "load" /\ k.pc # "sent" /\ k.conv = c
  <2>1. \/ page.socket = c
        \/ \E k \in calls : k.op # "load" /\ k.pc # "sent" /\ k.conv = c
    BY <1>1, <1>3, <1>5 DEF InStep, Ordered
  <2> QED BY <1>1, <1>3, <2>1, PageAssumption
<1>7. chat'[c] = t /\ \A d \in Conv : d # c => chat'[d] = chat[d]
  BY <1>1, <1>3
<1>8. ASSUME OnTurn(page, msgs) PROVE OnTurn(page, t)
  <2>1. m.of = page.question
    BY <1>4, <1>5, <1>8 DEF OnTurn
  <2> QED BY <1>3, <1>4, <1>8, <2>1, TurnGoesOn
<1>9. Alternates(t)
  <2>1. /\ Len(msgs) \in Nat /\ Len(t) = Len(msgs) + 1 /\ t[Len(msgs) + 1] = m
        /\ \A i \in 1 .. Len(msgs) : t[i] = msgs[i]
    BY <1>3, SpokenLast
  <2> HIDE DEF t, msgs
  <2> SUFFICES ASSUME NEW i \in 2 .. Len(t), t[i].kind = "ask"
               PROVE  t[i - 1].kind = "reply"
    BY DEF Alternates
  <2>2. i # Len(msgs) + 1
    BY <1>4, <2>1
  <2>3. i \in 2 .. Len(msgs) /\ i \in 1 .. Len(msgs) /\ i - 1 \in 1 .. Len(msgs)
    BY <2>1, <2>2
  <2> QED BY <1>5, <2>1, <2>3 DEF Alternates
<1> HIDE DEF c, t
<1>10. Ordered(page, calls, chat')
  BY <1>3, <1>6, <1>7, <1>9 DEF InStep, Ordered
<1>11. Counted(page, chat')
  BY <1>6 DEF Counted
<1>12. Heard(page, chat')
  <2>1. CASE page.socket = None
    BY <2>1 DEF Heard
  <2>2. CASE page.socket # None
    <3>1. page.socket = c
      BY <1>6, <2>2
    <3>2. OnTurn(page, msgs)
      BY <1>3, <2>2, <3>1 DEF InStep, Heard
    <3> QED BY <1>7, <1>8, <3>1, <3>2 DEF Heard
  <2> QED BY <2>1, <2>2
<1>13. Pending(page, calls, chat')
  <2> SUFFICES ASSUME NEW k \in calls
               PROVE  k.op # "load" /\ Posted(k, page, chat')
    BY DEF Pending
  <2>1. k.op # "load" /\ k.pc # "sent" /\ k.conv = c
    BY <1>6
  <2>2. Posted(k, page, chat)
    BY <1>3, <2>1 DEF InStep, Pending
  <2> QED BY <1>7, <1>8, <2>1, <2>2 DEF Posted
<1> QED BY <1>2, <1>3, <1>10, <1>11, <1>12, <1>13 DEF InStep

(* Every step keeps the page in step with the chats.                       *)
LEMMA NextTurn == TurnInv /\ [Next]_vars => PageTurn'
<1> SUFFICES ASSUME TurnInv, [Next]_vars PROVE PageTurn'
  OBVIOUS
<1>1. CASE UNCHANGED vars
  BY <1>1 DEF vars, TurnInv, PageTurn
<1> QED
  BY <1>1, NavigateTurn, SearchTurn, ContinueTurn, CallTurn, SettleTurn, PollFindsTurn,
     SocketTurn, AgentTurn DEF Next, User, Network, Socket, Failure

(* The turns of a fetched chat were complete when it was fetched.          *)
LEMMA NextOwnCopies ==
  TypeInv /\ IInv /\ SpeakInv /\ OwnCopies /\ [Next]_vars => OwnCopies'
<1> SUFFICES ASSUME TypeInv, IInv, SpeakInv, OwnCopies, [Next]_vars,
                    NEW j \in calls', Alternates(chat'[j.conv])
             PROVE  OwnTurns(j.copy)
  BY DEF OwnCopies
<1>1. j.conv \in Conv /\ chat[j.conv] \in Seq(Message)
  BY NextType DEF TypeInv, PageTypeOK, Call
<1>2. Alternates(chat[j.conv])
  BY <1>1, ChatsGrow, GrowsKeeps
<1>3. CASE j.copy = << >>
  <2>1. Len(<< >>) = 0 /\ 1 .. 0 = {}
    OBVIOUS
  <2> QED BY <1>3, <2>1 DEF OwnTurns
<1>4. CASE \E k \in calls : k.conv = j.conv /\ k.copy = j.copy
  BY <1>2, <1>4 DEF OwnCopies
<1>5. CASE j.copy = Split(chat[j.conv])
  <2>1. InTurn(chat[j.conv])
    BY <1>1, <1>2 DEF SpeakInv
  <2> QED BY <1>1, <1>5, <2>1, SplitOwn
<1> QED BY <1>3, <1>4, <1>5, CopiesCome

(* A question is stored, and answered, only after it was sent.             *)
LEMMA NextUnsent ==
  TypeInv /\ IInv /\ SpeakInv /\ Unsent /\ [Next]_vars => Unsent'
<1> SUFFICES ASSUME TypeInv, IInv, SpeakInv, Unsent, [Next]_vars PROVE Unsent'
  OBVIOUS
<1>t. chat \in [Conv -> Seq(Message)] /\ sent \in [Conv -> 0 .. MaxTurns]
  BY DEF TypeInv, PageTypeOK
<1>1. ASSUME UNCHANGED <<chat, sent>>, \A j \in calls' :
               \/ j.op = "load"
               \/ \E k \in calls : k.op = j.op /\ k.conv = j.conv
      PROVE  Unsent'
  BY <1>1 DEF Unsent
<1>2. ASSUME NEW c \in Conv, NEW n \in Nat, n # 0, UNCHANGED chat, NEW op,
             sent' = [sent EXCEPT ![c] = n], calls' = calls \cup {Request(op, c, n)}
      PROVE  Unsent'
  <2>1. \A d \in Conv : sent'[d] = 0 => sent[d] = 0
    BY <1>2, <1>t
  <2>2. \A k \in calls : k.conv \in Conv
    BY DEF IInv, IsCall
  <2>3. Request(op, c, n).conv = c /\ sent'[c] # 0
    BY <1>2, <1>t DEF Request
  <2> QED BY <1>2, <2>1, <2>2, <2>3 DEF Unsent
<1>3. ASSUME NEW s \in BOOLEAN, NEW u \in Conv \cup {None}, Navigate(s, u) PROVE Unsent'
  <2>1. UNCHANGED <<chat, sent>> /\ NavigatedTo(u)
    BY <1>3, NavigateEffect
  <2>2. calls' = calls \/ calls' = calls \cup {Request("load", u, acts)}
    BY <2>1 DEF NavigatedTo
  <2> QED BY <1>1, <2>1, <2>2 DEF Request
<1>4. ASSUME NEW c \in Conv, Search(c) PROVE Unsent'
  <2>1. /\ UNCHANGED chat /\ sent' = [sent EXCEPT ![c] = 1]
        /\ calls' = calls \cup {Request("new", c, 1)}
    BY <1>4, SearchEffect
  <2>2. 1 \in Nat /\ 1 # 0
    OBVIOUS
  <2> QED BY <1>2, <2>1, <2>2
<1>5. CASE Continue
  <2> DEFINE c == AddresseeOf(page)
  <2>1. /\ UNCHANGED chat /\ c \in Conv /\ sent' = [sent EXCEPT ![c] = sent[c] + 1]
        /\ calls' = calls \cup {Request("continue", c, sent[c] + 1)}
    BY <1>5, ContinueEffect
  <2>2. sent[c] + 1 \in Nat /\ sent[c] + 1 # 0
    BY <1>t, <2>1, PageAssumption
  <2> HIDE DEF c
  <2> QED BY <1>2, <2>1, <2>2
<1>6. ASSUME NEW k \in calls, Serve(k) \/ CallFails(k) PROVE Unsent'
  <2>1. PICK j : /\ Staged(k, j) /\ UNCHANGED sent
                 /\ \/ UNCHANGED chat
                    \/ /\ k.op # "load"
                       /\ chat' = [chat EXCEPT ![k.conv] =
                                     Append(@, Msg("ask", [conv |-> k.conv, turn |-> k.n]))]
    BY <1>6, ServeEffect, CallFailsEffect
  <2>2. \A i \in calls' : \E l \in calls : l.op = i.op /\ l.conv = i.conv
    BY <2>1 DEF Staged
  <2>3. CASE UNCHANGED chat
    BY <1>1, <2>1, <2>2, <2>3
  <2>4. CASE k.op # "load" /\ \A d \in Conv : d # k.conv => chat'[d] = chat[d]
    <3>1. sent[k.conv] # 0
      BY <2>4 DEF Unsent
    <3> QED BY <2>1, <2>2, <2>4, <3>1 DEF Unsent
  <2> QED BY <1>t, <2>1, <2>3, <2>4
<1>7. ASSUME NEW k \in calls, Settle(k) PROVE Unsent'
  BY <1>1, <1>7, SettleEffect
<1>8. CASE UNCHANGED vars \/ PollFinds \/ PollMisses \/ TimedOut \/ SocketLost \/ SocketSilent
  <2>1. UNCHANGED <<chat, sent, calls>>
    BY <1>8 DEF vars, PollFinds, PollMisses, TimedOut, SocketLost, SocketSilent, services
  <2> QED BY <1>1, <2>1
<1>9. CASE Agent
  <2>1. UNCHANGED <<calls, sent>>
    BY <1>9, AgentEffect
  <2>2. PICK q \in working, m \in Message :
          /\ q.conv \in Conv /\ chat' = [chat EXCEPT ![q.conv] = Append(chat[q.conv], m)]
    BY <1>9, AgentEffect
  <2>3. chat[q.conv] # << >>
    <3>1. SUFFICES ASSUME chat[q.conv] = << >> PROVE FALSE
      OBVIOUS
    <3>2. Len(<< >>) = 0 /\ 2 .. 0 = {}
      OBVIOUS
    <3>3. Alternates(chat[q.conv])
      BY <3>1, <3>2 DEF Alternates
    <3> QED BY <2>2, <3>1, <3>3 DEF SpeakInv, Open
  <2>4. \A d \in Conv : d # q.conv => chat'[d] = chat[d]
    BY <1>t, <2>2
  <2> QED BY <2>1, <2>2, <2>3, <2>4 DEF Unsent
<1> QED BY <1>3, <1>4, <1>5, <1>6, <1>7, <1>8, <1>9 DEF Next, User, Network, Socket, Failure

LEMMA TurnInvariant == Spec => []TurnInv
<1>1. Init => TurnInv
  <2> SUFFICES ASSUME Init PROVE TurnInv
    OBVIOUS
  <2>1. TypeInv /\ IInv /\ ShownInv
    BY InitType, InitIInv, InitShown
  <2>2. chat = [c \in Conv |-> << >>] /\ calls = {} /\ working = {} /\ page = Blank
    BY DEF Init
  <2>3. Len(<< >>) = 0 /\ 1 .. 0 = {} /\ 2 .. 0 = {}
    OBVIOUS
  <2>4. \A c \in Conv : Alternates(chat[c]) /\ InTurn(chat[c]) /\ ~Open(chat[c])
    BY <2>2, <2>3 DEF Alternates, InTurn, Open
  <2>5. SpeakInv /\ OwnCopies /\ Unsent
    BY <2>2, <2>4 DEF SpeakInv, OwnCopies, Unsent
  <2>6. Reset(page) /\ page.question = None
    BY <2>2 DEF Blank, Reset, Empty
  <2>7. Pending(page, calls, chat)
    BY <2>2 DEF Pending
  <2>8. PageTurn
    BY <2>4, <2>6, <2>7, AfreshInStep DEF PageTurn
  <2> QED BY <2>1, <2>5, <2>8 DEF TurnInv
<1>2. TurnInv /\ [Next]_vars => TurnInv'
  BY NextType, NextIInv, NextShows, NextSpeak, NextOwnCopies, NextUnsent, NextTurn
     DEF TurnInv
<1> QED BY <1>1, <1>2, PTL DEF Spec

(* As long as nothing failed and the user waited, every turn on the page   *)
(* shows what the agents said to its own question, and its own answer: the *)
(* offset of handleContinue, the snapshots of the gateway and the turns of *)
(* splitTurns never mix the turns of a chat.                               *)
THEOREM TurnsAlwaysShowTheirOwn == Spec => []TurnsShowTheirOwn
<1>1. TurnInv => TurnsShowTheirOwn
  <2> SUFFICES ASSUME TurnInv, ~crossed, ~cut, NEW i \in 1 .. Len(Rendered)
               PROVE  LET t == Rendered[i] IN
                      /\ \A m \in Range(t.messages) : m.of = t.question
                      /\ \/ t.answer = Msg("reply", t.question)
                         \/ page.loading /\ i = Len(Rendered)
    BY DEF TurnsShowTheirOwn
  <2>1. OwnPage(page) /\ page \in Page
    BY DEF TurnInv, PageTurn, InStep, TypeInv, PageTypeOK
  <2>2. page.completed \in Seq(Turn) /\ page.messages \in Seq(Message)
    BY <2>1 DEF Page
  <2> DEFINE done == page.completed
             R == Rendered
  <2>3. R = IF page.question = None THEN done ELSE Append(done, Current)
    BY <2>1, RenderedIs
  <2>4. /\ R \in Seq(Turn) /\ Len(done) \in Nat
        /\ Len(R) = (IF page.question = None THEN Len(done) ELSE Len(done) + 1)
        /\ \A n \in 1 .. Len(done) : R[n] = done[n]
        /\ page.question # None => R[Len(done) + 1] = Current
    BY <2>1, <2>2, <2>3, RenderedIs
  <2> HIDE DEF done, R
  <2>5. i \in 1 .. Len(R)
    BY DEF R
  <2>6. CASE i \in 1 .. Len(done)
    <3>1. OwnTurn(R[i]) /\ R[i] \in Turn
      BY <2>1, <2>4, <2>5, <2>6 DEF OwnPage, OwnTurns, done
    <3>2. \A m \in Range(R[i].messages) :
            \E k \in 1 .. Len(R[i].messages) : m = R[i].messages[k]
      BY <3>1 DEF Range, Turn
    <3> QED BY <3>1, <3>2 DEF OwnTurn, R
  <2>7. CASE i \notin 1 .. Len(done)
    <3>1. page.question # None /\ i = Len(done) + 1 /\ i = Len(R) /\ R[i] = Current
      BY <2>4, <2>5, <2>7
    <3> DEFINE L == Thinking(page.messages)
    <3>2. /\ Current.question = page.question /\ Current.messages = L
          /\ Current.answer = IF page.loading THEN None ELSE page.answer
      BY DEF Current
    <3>3. L \in Seq(Message) /\ \A k \in 1 .. Len(L) :
            \E x \in 1 .. Len(page.messages) : L[k] = page.messages[x]
      BY <2>2, PickedKinds
    <3> HIDE DEF L
    <3>4. \A m \in Range(L) : \E k \in 1 .. Len(L) : m = L[k]
      BY <3>3 DEF Range
    <3>5. \A m \in Range(L) : m.of = page.question
      BY <2>1, <3>3, <3>4 DEF OwnPage
    <3>6. ~page.loading => Current.answer = Msg("reply", page.question)
      BY <2>1, <3>1, <3>2 DEF OwnPage
    <3> QED BY <3>1, <3>2, <3>5, <3>6 DEF R
  <2> QED BY <2>6, <2>7
<1> QED BY <1>1, TurnInvariant, PTL
============================================================================
