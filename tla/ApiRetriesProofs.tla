-------------------------- MODULE ApiRetriesProofs --------------------------
(***************************************************************************)
(* Proofs about ApiRetries, for any caps and number of turns: the loop     *)
(* of an unattended task fails only so often, and a request carries the    *)
(* whole conversation.                                                     *)
(***************************************************************************)
EXTENDS ApiRetries, TLAPS

(* Twice the failures before the first chunk that m retries of the loop    *)
(* leave room for: MaxRetries of the first request, one less of the next.  *)
Room(m) ==
  IF m <= MaxRetries THEN m * (2 * MaxRetries + 1 - m) ELSE MaxRetries * (MaxRetries + 1)

(* The places of the loop where a request is about to go out or under way. *)
Requesting == phase \in {"send", "await", "stream", "backoff"}
Preparing == phase \in {"pop", "prepare", "backoffStream"}

ItemBounded == item.counted <= MaxRetries

(* What failed: the retries of the loop, the requests before them, and the *)
(* retries of this request.                                                *)
AttemptBounded ==
  /\ item.made <= attempt.counted /\ attempt.counted <= attempt.made
  /\ attempt.counted <= MaxRetries \/ attempt.counted = item.made
  /\ 2 * failures <= Room(item.made) + 2 * item.counted + 2 * (attempt.counted - item.made)

(* Nobody answers the asks of a background task. *)
FailuresCounted ==
  background =>
    /\ Requesting \/ Preparing \/ phase = "ended"
    /\ Requesting => ItemBounded /\ AttemptBounded
    /\ Preparing => ItemBounded /\ 2 * failures <= Room(item.made) + 2 * item.counted
    /\ FailuresBounded

RetriesInv == TypeOK /\ FailuresCounted

USE RetriesAssumption

-----------------------------------------------------------------------------
(* Types.                                                                  *)

LEMMA MessageTypes ==
  ASSUME NEW h \in Seq(Messages), NEW c \in Contents, NEW r \in {"user", "assistant"}
  PROVE  /\ Append(h, Message(r, c)) \in Seq(Messages)
         /\ h # <<>> => Front(h) \in Seq(Messages)
<1>1. Message(r, c) \in Messages BY DEF Message, Messages
<1>2. Append(h, Message(r, c)) \in Seq(Messages) BY <1>1
<1>3. ASSUME h # <<>> PROVE Front(h) \in Seq(Messages)
  <2>1. Len(h) \in Nat /\ Len(h) # 0 BY <1>3
  <2> QED BY <2>1 DEF Front
<1> QED BY <1>2, <1>3

LEMMA NewItemType ==
  ASSUME NEW c \in Contents
  PROVE  NewItem(c) \in Items /\ NewItem(c).made = 0 /\ NewItem(c).counted = 0
BY DEF NewItem, Items

LEMMA TypeInit == Init => TypeOK
<1> SUFFICES ASSUME Init PROVE TypeOK
  OBVIOUS
<1>1. {} \in Contents /\ {1} \in Contents BY DEF Contents
<1>2. item \in Items BY <1>1, NewItemType DEF Init
<1>3. hist \in Seq(Messages)
  <2>1. Message("user", {1}) \in Messages BY <1>1 DEF Message, Messages
  <2>2. <<Message("user", {1})>> \in Seq(Messages) /\ <<>> \in Seq(Messages) BY <2>1
  <2> QED BY <2>2 DEF Init
<1>4. attempt \in Tries BY DEF Init, Tries
<1>5. given \in 1..MaxTurns /\ failures \in Nat BY DEF Init
<1>6. background \in BOOLEAN /\ resumed \in BOOLEAN /\ abort \in BOOLEAN /\ phase = "pop"
  BY DEF Init
<1> QED BY <1>2, <1>3, <1>4, <1>5, <1>6 DEF TypeOK

LEMMA FailsTypes ==
  ASSUME TypeOK, NEW kind \in Kinds, Fails(kind)
  PROVE  /\ failures' \in Nat /\ failures' <= failures + 1
         /\ kind = "limited" => failures' = failures
BY DEF TypeOK, Fails

LEMMA OneMoreTypes ==
  ASSUME NEW n \in Nat
  PROVE  OneMore(n) \in Nat /\ \A kind \in Kinds : OneMoreCounted(kind, n) \in Nat
BY DEF OneMore, OneMoreCounted

LEMMA TurnTypes == TypeOK /\ NextTurn =>
  /\ phase' \in {"pop", "ended"} /\ given' \in 1..MaxTurns /\ item' \in Items
  /\ phase' = "pop" => item'.made = 0 /\ item'.counted = 0
<1> SUFFICES ASSUME TypeOK, NextTurn
             PROVE  /\ phase' \in {"pop", "ended"} /\ given' \in 1..MaxTurns /\ item' \in Items
                    /\ phase' = "pop" => item'.made = 0 /\ item'.counted = 0
  OBVIOUS
<1>1. CASE given < MaxTurns /\ given' = given + 1 /\ item' = NewItem({given + 1}) /\ phase' = "pop"
  <2>1. given + 1 \in 1..MaxTurns BY <1>1 DEF TypeOK
  <2>2. {given + 1} \in Contents BY <2>1 DEF Contents
  <2>3. item' \in Items /\ item'.made = 0 /\ item'.counted = 0 BY <1>1, <2>2, NewItemType
  <2> QED BY <1>1, <2>1, <2>3
<1>2. CASE Ends /\ UNCHANGED <<given, item>>
  BY <1>2 DEF TypeOK, Ends
<1> QED BY <1>1, <1>2 DEF NextTurn

(* What the failures make of an item and a request. *)
LEMMA FirstChunkFailsTypes ==
  ASSUME TypeOK, NEW kind \in Kinds, NEW auto \in BOOLEAN, FirstChunkFails(kind, auto)
  PROVE  phase' \in {"send", "ended", "backoff", "ask"} /\ attempt' \in Tries
<1>1. attempt.made \in Nat /\ attempt.counted \in Nat BY DEF TypeOK, Tries
<1>2. /\ OneMore(attempt.made) \in Nat /\ OneMore(attempt.counted) \in Nat
      /\ OneMoreCounted(kind, attempt.counted) \in Nat
  BY <1>1, OneMoreTypes
<1>3. attempt \in Tries BY DEF TypeOK
<1>4. \/ phase' \in {"ended", "ask"} /\ attempt' = attempt
      \/ /\ phase' = "send"
         /\ attempt' = [made |-> OneMore(attempt.made), counted |-> OneMore(attempt.counted)]
      \/ /\ phase' = "backoff"
         /\ attempt' = [made |-> OneMore(attempt.made),
                        counted |-> OneMoreCounted(kind, attempt.counted)]
  BY DEF FirstChunkFails, Ends
<1> QED BY <1>1, <1>2, <1>3, <1>4 DEF Tries

LEMMA StreamFailsTypes ==
  ASSUME TypeOK, NEW kind \in Kinds, NEW auto \in BOOLEAN,
         \/ StreamFails(kind, auto)
         \/ EmptyAnswer(auto)
         \/ AskEmptyAnswered(TRUE)
  PROVE  phase' \in {"ended", "askStream", "askEmpty", "backoffStream", "pop"} /\ item' \in Items
<1>1. item \in Items /\ item.made \in Nat /\ item.counted \in Nat BY DEF TypeOK, Items
<1>2. /\ OneMore(item.made) \in Nat /\ OneMore(item.counted) \in Nat
      /\ OneMoreCounted(kind, item.counted) \in Nat
  BY <1>1, OneMoreTypes
<1>3. Retried(item) \in Items BY <1>1, <1>2 DEF Retried, Items
<1>4. CASE StreamFails(kind, auto)
  <2> DEFINE count == IF kind = "refused" THEN OneMore(item.made)
                      ELSE OneMoreCounted(kind, item.counted)
  <2>1. \/ phase' = "ended" /\ item' = item
        \/ /\ phase' \in {"askStream", "backoffStream", "pop"}
           /\ item' = [item EXCEPT !.made = OneMore(item.made), !.removed = FALSE,
                                   !.counted = count]
    BY <1>4 DEF StreamFails, Ends
  <2>2. count \in Nat BY <1>2
  <2> HIDE DEF count
  <2>3. [item EXCEPT !.made = OneMore(item.made), !.removed = FALSE, !.counted = count] \in Items
    BY <1>1, <1>2, <2>2 DEF Items
  <2> QED BY <1>1, <2>1, <2>3
<1>5. CASE EmptyAnswer(auto)
  BY <1>1, <1>3, <1>5 DEF EmptyAnswer, Ends
<1>6. CASE AskEmptyAnswered(TRUE)
  <2>1. phase' = "pop" /\ item' = [Retried(item) EXCEPT !.counted = OneMore(item.made)]
    BY <1>6 DEF AskEmptyAnswered
  <2> QED BY <1>2, <1>3, <2>1 DEF Items
<1> QED BY <1>4, <1>5, <1>6

LEMMA TypeStep == TypeOK /\ [Next]_vars => TypeOK'
<1> SUFFICES ASSUME TypeOK, [Next]_vars PROVE TypeOK'
  OBVIOUS
<1>1. CASE Pop \/ Send \/ FirstChunk \/ BackoffOver \/ BackoffStreamOver \/ NoticeAbort \/ Abort
  BY <1>1 DEF Pop, Send, FirstChunk, BackoffOver, BackoffStreamOver, NoticeAbort, Ends, Abort,
              TypeOK
<1>2. CASE AddUserMessage
  <2>1. item.contents \in Contents /\ [made |-> item.made, counted |-> item.made] \in Tries
    BY DEF TypeOK, Items, Tries
  <2>2. hist' \in Seq(Messages) BY <1>2, <2>1, MessageTypes DEF AddUserMessage, TypeOK
  <2> QED BY <1>2, <2>1, <2>2 DEF AddUserMessage, TypeOK
<1>3. CASE Answered
  <2>1. {} \in Contents BY DEF Contents
  <2>2. hist' \in Seq(Messages) BY <1>3, <2>1, MessageTypes DEF Answered, TypeOK
  <2>3. phase' \in {"pop", "ended"} /\ given' \in 1..MaxTurns /\ item' \in Items
    BY <1>3, TurnTypes DEF Answered
  <2> QED BY <1>3, <2>2, <2>3 DEF Answered, TypeOK
<1>4. ASSUME NEW kind \in Kinds, NEW auto \in BOOLEAN, FirstChunkFails(kind, auto)
      PROVE  TypeOK'
  <2>1. failures' \in Nat
    BY <1>4, FailsTypes DEF FirstChunkFails
  <2> QED BY <1>4, <2>1, FirstChunkFailsTypes DEF FirstChunkFails, TypeOK
<1>5. ASSUME NEW kind \in Kinds, NEW auto \in BOOLEAN, StreamFails(kind, auto)
      PROVE  TypeOK'
  <2>1. failures' \in Nat
    BY <1>5, FailsTypes DEF StreamFails, TypeOK
  <2> QED BY <1>5, <2>1, StreamFailsTypes DEF StreamFails, TypeOK
<1>6. ASSUME NEW auto \in BOOLEAN, EmptyAnswer(auto)
      PROVE  TypeOK'
  <2>1. "other" \in Kinds BY DEF Kinds
  <2>2. failures' \in Nat
    BY <1>6, <2>1, FailsTypes DEF EmptyAnswer
  <2>3. {} \in Contents BY DEF Contents
  <2>4. hist' \in Seq(Messages)
    BY <1>6, <2>3, MessageTypes DEF EmptyAnswer, WithoutLastUser, TypeOK
  <2>5. phase' \in {"ended", "askStream", "askEmpty", "backoffStream", "pop"} /\ item' \in Items
    BY <1>6, <2>1, StreamFailsTypes
  <2> QED BY <1>6, <2>2, <2>4, <2>5 DEF EmptyAnswer, TypeOK
<1>7. ASSUME NEW retry \in BOOLEAN, AskAnswered(retry) \/ AskStreamAnswered(retry)
      PROVE  TypeOK'
  <2>1. [made |-> 0, counted |-> 0] \in Tries BY DEF Tries
  <2> QED BY <1>7, <2>1 DEF AskAnswered, AskStreamAnswered, Ends, TypeOK
<1>8. ASSUME NEW retry \in BOOLEAN, AskEmptyAnswered(retry)
      PROVE  TypeOK'
  <2>1. CASE retry
    <3>1. AskEmptyAnswered(TRUE) BY <1>8, <2>1
    <3>2. "other" \in Kinds BY DEF Kinds
    <3>3. phase' \in {"ended", "askStream", "askEmpty", "backoffStream", "pop"} /\ item' \in Items
      BY <3>1, <3>2, StreamFailsTypes
    <3> QED BY <3>1, <3>3 DEF AskEmptyAnswered, TypeOK
  <2>2. CASE ~retry
    <3>1. hist' = hist \o <<Message("user", item.contents), Message("assistant", {})>> /\ NextTurn
      BY <1>8, <2>2 DEF AskEmptyAnswered
    <3>2. Message("user", item.contents) \in Messages /\ Message("assistant", {}) \in Messages
      BY DEF Message, Messages, Contents, TypeOK, Items
    <3>3. <<Message("user", item.contents), Message("assistant", {})>> \in Seq(Messages)
      BY <3>2
    <3>4. hist' \in Seq(Messages) BY <3>1, <3>3 DEF TypeOK
    <3> QED BY <1>8, <3>1, <3>4, TurnTypes DEF AskEmptyAnswered, TypeOK
  <2> QED BY <2>1, <2>2
<1>9. CASE UNCHANGED vars BY <1>9 DEF vars, TypeOK
<1> QED
  BY <1>1, <1>2, <1>3, <1>4, <1>5, <1>6, <1>7, <1>8, <1>9 DEF Next, Outcome, Proceed, User

-----------------------------------------------------------------------------
(* How much room is left for failures. *)

LEMMA RoomGrows ==
  ASSUME NEW m \in Nat, NEW a \in Int, m <= a, a <= MaxRetries \/ a = m
  PROVE  Room(m) + 2 * (a - m) <= Room(m + 1)
<1> DEFINE R == MaxRetries
<1>1. R \in Nat OBVIOUS
<1> HIDE DEF R
<1>2. CASE m < R
  <2>1. Room(m) = m * (2 * R + 1 - m) /\ Room(m + 1) = (m + 1) * (2 * R - m)
    <3>1. m <= R /\ m + 1 <= R /\ 2 * R + 1 - (m + 1) = 2 * R - m BY <1>1, <1>2
    <3> QED BY <3>1 DEF Room, R
  <2>2. (m + 1) * (2 * R - m) = m * (2 * R + 1 - m) + 2 * (R - m) BY <1>1
  <2>3. 2 * (a - m) <= 2 * (R - m) BY <1>1, <1>2 DEF R
  <2> DEFINE x == m * (2 * R + 1 - m)
  <2>4. x \in Int BY <1>1
  <2> HIDE DEF x
  <2>5. Room(m) = x /\ Room(m + 1) = x + 2 * (R - m) BY <2>1, <2>2 DEF x
  <2> QED BY <1>1, <2>3, <2>4, <2>5
<1>3. CASE m = R
  <2>1. a = m BY <1>1, <1>3 DEF R
  <2>2. Room(m) = R * (R + 1) /\ Room(m + 1) = R * (R + 1)
    <3>1. 2 * R + 1 - R = R + 1 /\ ~(R + 1 <= R) BY <1>1
    <3> QED BY <1>1, <1>3, <3>1 DEF Room, R
  <2>3. R * (R + 1) \in Int BY <1>1
  <2> QED BY <2>1, <2>2, <2>3
<1>4. CASE m > R
  <2>1. a = m BY <1>1, <1>4 DEF R
  <2>2. Room(m) = R * (R + 1) /\ Room(m + 1) = R * (R + 1)
    BY <1>1, <1>4 DEF Room, R
  <2>3. R * (R + 1) \in Int BY <1>1
  <2> QED BY <2>1, <2>2, <2>3
<1> QED BY <1>1, <1>2, <1>3, <1>4

LEMMA RoomBounded ==
  ASSUME NEW m \in Nat
  PROVE  Room(m) \in Int /\ Room(m) <= MaxRetries * (MaxRetries + 1)
<1> DEFINE R == MaxRetries
<1>1. R \in Nat OBVIOUS
<1> HIDE DEF R
<1>2. CASE m <= R
  <2>1. (R - m) * (R - m + 1) \in Nat
    <3>1. R - m \in Nat BY <1>1, <1>2
    <3> QED BY <3>1
  <2>2. R * (R + 1) = m * (2 * R + 1 - m) + (R - m) * (R - m + 1) BY <1>1
  <2>3. m * (2 * R + 1 - m) \in Int BY <1>1
  <2>4. Room(m) = m * (2 * R + 1 - m) BY <1>2 DEF Room, R
  <2> DEFINE x == m * (2 * R + 1 - m)
             y == (R - m) * (R - m + 1)
             z == R * (R + 1)
  <2>5. x \in Int /\ y \in Nat /\ z = x + y /\ Room(m) = x BY <2>1, <2>2, <2>3, <2>4
  <2> HIDE DEF x, y, z
  <2>6. Room(m) \in Int /\ Room(m) <= z BY <2>5
  <2> QED BY <2>6 DEF z, R
<1>3. CASE ~(m <= R)
  <2>1. Room(m) = R * (R + 1) BY <1>3 DEF Room, R
  <2>2. R * (R + 1) \in Int BY <1>1
  <2> QED BY <2>1, <2>2 DEF R
<1> QED BY <1>2, <1>3

(* A failure of a request leads to the next retry of the loop, or ends it. *)
LEMMA FailureFits ==
  ASSUME TypeOK, ItemBounded, AttemptBounded
  PROVE  /\ 2 * failures <= Room(item.made + 1) + 2 * item.counted
         /\ 2 * (failures + 1) <= (MaxRetries + 1) * (MaxRetries + 2)
<1> DEFINE m == item.made
           a == attempt.counted
           f == failures
           n == item.counted
           R == MaxRetries
<1>1. m \in Nat /\ a \in Int /\ f \in Nat /\ n \in Int /\ R \in Nat
  BY DEF TypeOK, Items, Tries
<1>2. m <= a /\ (a <= R \/ a = m) /\ n <= R /\ 2 * f <= Room(m) + 2 * n + 2 * (a - m)
  BY DEF ItemBounded, AttemptBounded
<1> HIDE DEF m, a, f, n
<1>3. Room(m) + 2 * (a - m) <= Room(m + 1) BY <1>1, <1>2, RoomGrows
<1>4. Room(m) \in Int /\ Room(m + 1) \in Int /\ Room(m + 1) <= R * (R + 1)
  BY <1>1, RoomBounded
<1>5. (R + 1) * (R + 2) = R * (R + 1) + 2 * (R + 1) /\ R * (R + 1) \in Int BY <1>1
<1> DEFINE x == R * (R + 1)
           y == (R + 1) * (R + 2)
<1> HIDE DEF R, x, y
<1>6. y = x + 2 * (R + 1) /\ x \in Int /\ Room(m + 1) <= x BY <1>4, <1>5 DEF x, y
<1>7. 2 * f <= Room(m + 1) + 2 * n BY <1>1, <1>2, <1>3, <1>4
<1>8. 2 * (f + 1) <= y BY <1>1, <1>2, <1>4, <1>6, <1>7
<1> QED BY <1>7, <1>8 DEF m, a, f, n, R, y
-----------------------------------------------------------------------------
(* The steps of the loop. *)

LEMMA NothingYet == Room(0) = 0
BY DEF Room

LEMMA CountsInit == Init => FailuresCounted
<1> SUFFICES ASSUME Init PROVE FailuresCounted
  OBVIOUS
<1>1. item.made = 0 /\ item.counted = 0 /\ phase = "pop" /\ failures = 0
  BY DEF Init, NewItem
<1>2. 0 <= (MaxRetries + 1) * (MaxRetries + 2) OBVIOUS
<1>3. FailuresBounded BY <1>1, <1>2 DEF FailuresBounded
<1>4. ItemBounded /\ 2 * failures <= Room(item.made) + 2 * item.counted
  <2>1. item.counted = 0 /\ Room(item.made) = 0 BY <1>1, NothingYet
  <2>2. ItemBounded BY <2>1 DEF ItemBounded
  <2>3. 2 * failures <= 0 + 2 * 0 BY <1>1
  <2> QED BY <2>1, <2>2, <2>3
<1>5. Preparing /\ ~Requesting BY <1>1 DEF Requesting, Preparing
<1> QED BY <1>3, <1>4, <1>5 DEF FailuresCounted

(* Beyond MaxRetries a counter does not matter, so it may stop there.      *)
LEMMA RoomStops == ASSUME NEW m \in Nat PROVE Room(OneMore(m)) = Room(m + 1)
BY DEF Room, OneMore

(* A request of a background task fails before its first chunk. *)
LEMMA FirstChunkFailsCounts ==
  ASSUME TypeOK, FailuresCounted, background, NEW kind \in Kinds, NEW auto \in BOOLEAN,
         FirstChunkFails(kind, auto)
  PROVE  FailuresCounted'
<1>1. ItemBounded /\ AttemptBounded BY DEF FailuresCounted, FirstChunkFails, Requesting
<1>2. /\ item.made \in Nat /\ item.counted \in Nat /\ failures \in Nat
      /\ attempt.made \in Nat /\ attempt.counted \in Nat
      /\ item' = item /\ background' = background
  BY DEF TypeOK, Items, Tries, FirstChunkFails
<1>3. /\ failures' \in Nat /\ failures' <= failures + 1
      /\ kind = "limited" => failures' = failures
  BY FailsTypes DEF FirstChunkFails
<1>4. FailuresBounded'
  <2>1. 2 * (failures + 1) <= (MaxRetries + 1) * (MaxRetries + 2) BY <1>1, FailureFits
  <2>2. (MaxRetries + 1) * (MaxRetries + 2) \in Int OBVIOUS
  <2> QED BY <1>2, <1>3, <2>1, <2>2 DEF FailuresBounded
<1>5. Room(item.made) \in Int BY <1>2, RoomBounded
<1>6. ItemBounded' BY <1>1, <1>2 DEF ItemBounded
<1>7. CASE phase' = "ended"
  BY <1>4, <1>7 DEF FailuresCounted, Requesting, Preparing
<1>8. ASSUME attempt'.made = OneMore(attempt.made),
             \/ attempt'.counted = attempt.counted /\ kind = "limited"
             \/ attempt'.counted = OneMore(attempt.counted) /\ attempt.counted < MaxRetries
      PROVE  AttemptBounded'
  <2>1. /\ attempt.counted <= attempt.made /\ item.made <= attempt.counted
        /\ attempt.counted <= MaxRetries \/ attempt.counted = item.made
        /\ 2 * failures <= Room(item.made) + 2 * item.counted + 2 * (attempt.counted - item.made)
    BY <1>1 DEF AttemptBounded
  <2>2. CASE attempt'.counted = attempt.counted /\ kind = "limited"
    <3>1. attempt'.counted <= attempt'.made BY <1>2, <1>8, <2>1, <2>2 DEF OneMore
    <3> QED BY <1>2, <1>3, <2>1, <2>2, <3>1 DEF AttemptBounded
  <2>3. CASE attempt'.counted = OneMore(attempt.counted) /\ attempt.counted < MaxRetries
    <3>1. attempt'.counted = attempt.counted + 1 BY <1>2, <2>3 DEF OneMore
    <3>2. attempt'.counted <= attempt'.made BY <1>2, <1>8, <2>1, <2>3, <3>1 DEF OneMore
    <3>3. item.made <= attempt'.counted /\ attempt'.counted <= MaxRetries
      BY <1>2, <2>1, <2>3, <3>1
    <3>4. 2 * failures' <= Room(item.made) + 2 * item.counted + 2 * (attempt'.counted - item.made)
      BY <1>2, <1>3, <1>5, <2>1, <3>1
    <3> QED BY <1>2, <3>2, <3>3, <3>4 DEF AttemptBounded
  <2> QED BY <1>8, <2>2, <2>3
<1>9. CASE kind = "context" /\ attempt.made < MaxContext
  <2>1. /\ phase' = "send"
        /\ attempt' = [made |-> OneMore(attempt.made), counted |-> OneMore(attempt.counted)]
    BY <1>9 DEF FirstChunkFails
  <2>2. attempt.counted < MaxRetries BY <1>1, <1>2, <1>9 DEF AttemptBounded
  <2> QED BY <1>4, <1>6, <1>8, <2>1, <2>2 DEF FailuresCounted, Requesting, Preparing
<1>10. CASE ~(kind = "context" /\ attempt.made < MaxContext) /\ phase' # "ended"
  <2>1. ~FailFast(kind) /\ ~Capped(kind, attempt.counted) /\ kind # "refused"
    BY <1>10 DEF FirstChunkFails, Ends, FailFast
  <2>2. /\ phase' = "backoff"
        /\ attempt' = [made |-> OneMore(attempt.made),
                       counted |-> OneMoreCounted(kind, attempt.counted)]
    BY <1>10, <2>1 DEF FirstChunkFails, Ends
  <2>3. kind = "limited" \/ attempt.counted < MaxRetries BY <1>2, <2>1 DEF Capped
  <2>4. attempt'.made = OneMore(attempt.made) BY <2>2
  <2>5. /\ kind = "limited" => attempt'.counted = attempt.counted
        /\ kind # "limited" => attempt'.counted = OneMore(attempt.counted)
    BY <2>2 DEF OneMoreCounted
  <2> QED BY <1>4, <1>6, <1>8, <2>2, <2>3, <2>4, <2>5 DEF FailuresCounted, Requesting, Preparing
<1> QED BY <1>7, <1>9, <1>10

(* The next retry of the loop. *)
LEMMA RetryCounts ==
  ASSUME TypeOK, FailuresCounted, background, Requesting, TypeOK', background' = background,
         NEW kind \in Kinds, kind # "refused", ~Capped(kind, item.counted),
         failures' <= failures + 1,
         kind = "limited" => failures' = failures,
         item'.made = OneMore(item.made),
         item'.counted = OneMoreCounted(kind, item.counted),
         Preparing'
  PROVE  FailuresCounted'
<1>1. ItemBounded /\ AttemptBounded BY DEF FailuresCounted
<1>2. /\ item.made \in Nat /\ item.counted \in Nat /\ failures \in Nat
      /\ item'.made \in Nat /\ item'.counted \in Nat /\ failures' \in Nat
  BY DEF TypeOK, Items
<1>3. \/ kind = "limited" /\ item'.counted = item.counted
      \/ kind # "limited" /\ item.counted < MaxRetries /\ item'.counted = item.counted + 1
  BY <1>2 DEF Capped, OneMoreCounted, OneMore
<1>4. /\ 2 * failures <= Room(item'.made) + 2 * item.counted
      /\ 2 * (failures + 1) <= (MaxRetries + 1) * (MaxRetries + 2)
  BY <1>1, <1>2, FailureFits, RoomStops
<1>5. Room(item'.made) \in Int /\ (MaxRetries + 1) * (MaxRetries + 2) \in Int
  BY <1>2, RoomBounded
<1>6. ItemBounded' BY <1>1, <1>2, <1>3 DEF ItemBounded
<1>7. FailuresBounded' BY <1>2, <1>4, <1>5 DEF FailuresBounded
<1>8. 2 * failures' <= Room(item'.made) + 2 * item'.counted
  BY <1>2, <1>3, <1>4, <1>5
<1>9. ~Requesting' BY DEF Requesting, Preparing
<1> QED BY <1>6, <1>7, <1>8, <1>9 DEF FailuresCounted
(* After a failure of its request the loop has not failed too often.       *)
LEMMA EndBounded ==
  ASSUME TypeOK, TypeOK', FailuresCounted, background, background' = background,
         \/ Requesting /\ failures' <= failures + 1
         \/ failures' = failures
  PROVE  FailuresBounded'
<1>1. failures \in Nat /\ failures' \in Nat /\ (MaxRetries + 1) * (MaxRetries + 2) \in Int
  BY DEF TypeOK
<1>2. CASE Requesting /\ failures' <= failures + 1
  <2>1. 2 * (failures + 1) <= (MaxRetries + 1) * (MaxRetries + 2)
    BY <1>2, FailureFits DEF FailuresCounted
  <2> QED BY <1>1, <1>2, <2>1 DEF FailuresBounded
<1>3. CASE failures' = failures BY <1>3 DEF FailuresCounted, FailuresBounded
<1> QED BY <1>2, <1>3

LEMMA CountsStep == TypeOK /\ TypeOK' /\ FailuresCounted /\ [Next]_vars => FailuresCounted'
<1> SUFFICES ASSUME TypeOK, TypeOK', FailuresCounted, [Next]_vars, background'
             PROVE  FailuresCounted'
  BY DEF FailuresCounted
<1>0. background' = background /\ background
  BY DEF Next, Outcome, Proceed, User, Pop, Send, FirstChunk, Answered, BackoffOver,
         BackoffStreamOver, NoticeAbort, Abort, AddUserMessage, FirstChunkFails, StreamFails,
         EmptyAnswer, AskAnswered, AskStreamAnswered, AskEmptyAnswered, vars
<1>1. ASSUME phase' = "ended", \/ Requesting /\ failures' <= failures + 1
                               \/ failures' = failures
      PROVE  FailuresCounted'
  <2>1. FailuresBounded' BY <1>0, <1>1, EndBounded
  <2> QED BY <1>1, <2>1 DEF FailuresCounted, Requesting, Preparing
<1>2. ASSUME UNCHANGED <<item, attempt, failures>>,
             \/ phase' = phase
             \/ Requesting /\ Requesting'
             \/ Preparing /\ Preparing'
      PROVE  FailuresCounted'
  <2>1. /\ ItemBounded' <=> ItemBounded
        /\ AttemptBounded' <=> AttemptBounded
        /\ FailuresBounded
        /\ FailuresBounded'
    BY <1>0, <1>2 DEF ItemBounded, AttemptBounded, FailuresBounded, FailuresCounted
  <2>2. Requesting' => Requesting BY <1>2 DEF Requesting, Preparing
  <2>3. Preparing' => Preparing BY <1>2 DEF Requesting, Preparing
  <2>4. Requesting' \/ Preparing' \/ phase' = "ended"
    BY <1>0, <1>2 DEF FailuresCounted, Requesting, Preparing
  <2> QED BY <1>0, <1>2, <2>1, <2>2, <2>3, <2>4 DEF FailuresCounted
<1>3. CASE Pop \/ Send \/ FirstChunk \/ BackoffOver \/ BackoffStreamOver
  BY <1>2, <1>3 DEF Pop, Send, FirstChunk, BackoffOver, BackoffStreamOver, Requesting, Preparing
<1>4. CASE NoticeAbort \/ Abort
  <2>1. phase' = "ended" \/ phase' = phase BY <1>4 DEF NoticeAbort, Abort, Ends
  <2>2. UNCHANGED <<item, attempt, failures>> BY <1>4 DEF NoticeAbort, Abort
  <2> QED BY <1>1, <1>2, <2>1, <2>2
<1>5. CASE AddUserMessage
  <2>1. /\ Preparing /\ phase' = "send" /\ UNCHANGED <<item, failures>>
        /\ attempt'.made = item.made /\ attempt'.counted = item.made
    BY <1>5 DEF AddUserMessage, Preparing
  <2>2. ItemBounded /\ 2 * failures <= Room(item.made) + 2 * item.counted
    BY <1>0, <2>1 DEF FailuresCounted
  <2>3. /\ item.made \in Nat /\ item.counted \in Nat /\ failures \in Nat
        /\ Room(item.made) \in Int
    BY RoomBounded DEF TypeOK, Items
  <2>4. AttemptBounded' BY <2>1, <2>2, <2>3 DEF AttemptBounded
  <2>5. ItemBounded' /\ FailuresBounded'
    BY <1>0, <2>1, <2>2 DEF ItemBounded, FailuresCounted, FailuresBounded
  <2>6. Requesting' /\ ~Preparing' BY <2>1 DEF Requesting, Preparing
  <2> QED BY <2>4, <2>5, <2>6 DEF FailuresCounted
<1>6. CASE Answered
  <2>1. failures' = 0 /\ NextTurn BY <1>6 DEF Answered
  <2>2. phase' \in {"pop", "ended"} /\ (phase' = "pop" => item'.made = 0 /\ item'.counted = 0)
    BY <2>1, TurnTypes
  <2>3. FailuresBounded'
    <3>1. 0 <= (MaxRetries + 1) * (MaxRetries + 2) OBVIOUS
    <3> QED BY <2>1, <3>1 DEF FailuresBounded
  <2>4. CASE phase' = "pop"
    <3>1. item'.made = 0 /\ item'.counted = 0 BY <2>2, <2>4
    <3>2. ItemBounded' /\ 2 * failures' <= Room(item'.made) + 2 * item'.counted
      BY <2>1, <3>1, NothingYet DEF ItemBounded
    <3> QED BY <2>3, <2>4, <3>2 DEF FailuresCounted, Requesting, Preparing
  <2>5. CASE phase' = "ended"
    BY <2>3, <2>5 DEF FailuresCounted, Requesting, Preparing
  <2> QED BY <2>2, <2>4, <2>5
<1>7. ASSUME NEW kind \in Kinds, NEW auto \in BOOLEAN, FirstChunkFails(kind, auto)
      PROVE  FailuresCounted'
  BY <1>0, <1>7, FirstChunkFailsCounts
<1>8. ASSUME NEW kind \in Kinds, NEW auto \in BOOLEAN, StreamFails(kind, auto)
      PROVE  FailuresCounted'
  <2>1. Requesting BY <1>8 DEF StreamFails, Requesting
  <2>2. /\ failures' <= failures + 1
        /\ kind = "limited" => failures' = failures
    BY <1>0, <1>8, FailsTypes DEF StreamFails, TypeOK
  <2>3. CASE FailFast(kind) \/ Capped(kind, item.counted)
    BY <1>1, <1>8, <2>1, <2>2, <2>3 DEF StreamFails, Ends
  <2>4. CASE ~(FailFast(kind) \/ Capped(kind, item.counted))
    <3>1. kind # "refused" BY <1>0, <2>4 DEF FailFast
    <3>2. /\ phase' = "backoffStream"
          /\ item' = [item EXCEPT !.made = OneMore(@), !.removed = FALSE,
                                  !.counted = OneMoreCounted(kind, @)]
      BY <1>0, <1>8, <2>4, <3>1 DEF StreamFails
    <3>3. /\ item'.made = OneMore(item.made)
          /\ item'.counted = OneMoreCounted(kind, item.counted)
      BY <3>2 DEF TypeOK, Items
    <3>4. Preparing' BY <3>2 DEF Preparing
    <3> QED BY <1>0, <2>1, <2>2, <2>4, <3>1, <3>3, <3>4, RetryCounts
  <2> QED BY <2>3, <2>4
<1>9. ASSUME NEW auto \in BOOLEAN, EmptyAnswer(auto)
      PROVE  FailuresCounted'
  <2>0. "other" \in Kinds /\ "other" # "refused" /\ "other" # "limited" BY DEF Kinds
  <2>1. Requesting BY <1>9 DEF EmptyAnswer, Requesting
  <2>2. failures' <= failures + 1
    BY <1>9, <2>0, FailsTypes DEF EmptyAnswer
  <2>3. CASE Capped("other", item.counted)
    BY <1>0, <1>1, <1>9, <2>1, <2>2, <2>3 DEF EmptyAnswer, Ends
  <2>4. CASE ~Capped("other", item.counted)
    <3>1. phase' = "backoffStream" /\ item' = Retried(item)
      BY <1>0, <1>9, <2>4 DEF EmptyAnswer
    <3>2. item'.made = OneMore(item.made) /\ item'.counted = OneMoreCounted("other", item.counted)
      BY <2>0, <3>1 DEF Retried, OneMoreCounted, TypeOK, Items
    <3>3. Preparing' BY <3>1 DEF Preparing
    <3> QED BY <1>0, <2>0, <2>1, <2>2, <2>4, <3>2, <3>3, RetryCounts
  <2> QED BY <2>3, <2>4
<1>10. ASSUME NEW retry \in BOOLEAN,
              AskAnswered(retry) \/ AskStreamAnswered(retry) \/ AskEmptyAnswered(retry)
       PROVE  FALSE
  BY <1>0, <1>10 DEF AskAnswered, AskStreamAnswered, AskEmptyAnswered, FailuresCounted,
                     Requesting, Preparing
<1>11. CASE UNCHANGED vars BY <1>2, <1>11 DEF vars
<1> QED
  BY <1>3, <1>4, <1>5, <1>6, <1>7, <1>8, <1>9, <1>10, <1>11 DEF Next, Outcome, Proceed, User

(* Types hold, and whatever the provider does, the requests of a           *)
(* background task fail at most (MaxRetries + 1) (MaxRetries + 2) / 2      *)
(* times in a row for other reasons than a rate limit: no cap for a mix of *)
(* failures, but a bound.                                                  *)
THEOREM UnattendedFailuresBounded == Spec => []WellFormed
<1>1. Init => RetriesInv BY TypeInit, CountsInit DEF RetriesInv
<1>2. RetriesInv /\ [Next]_vars => RetriesInv'
  BY TypeStep, CountsStep DEF RetriesInv
<1>3. RetriesInv => WellFormed BY DEF RetriesInv, FailuresCounted, FailuresBounded, WellFormed
<1> QED BY <1>1, <1>2, <1>3, PTL DEF Spec

-----------------------------------------------------------------------------
(* The conversation.  A turn is two messages, so content c is in message   *)
(* 2 c - 1 or nowhere, and how long the conversation is says whether the   *)
(* content of this turn is in it.                                          *)

(* The message of this turn is yet to be added, or was taken out. *)
Missing ==
  \/ phase \in {"pop", "prepare", "backoffStream", "askStream"} /\ AddsMessage
  \/ phase = "askEmpty"

Held == IF Missing THEN given - 1 ELSE given

RoleAt(i) == IF i % 2 = 1 THEN "user" ELSE "assistant"

ItemOfTurn == item.contents = IF resumed /\ given = 1 THEN {} ELSE {given}

InTurn(h) == \A i \in 1..Len(h) :
  h[i].role = RoleAt(i) /\ \A c \in h[i].contents : i = 2 * c - 1

AllHeld(h, n) == \A c \in (IF resumed THEN 2 ELSE 1)..n : c \in h[2 * c - 1].contents

Conversation ==
  phase # "ended" =>
    /\ ItemOfTurn
    /\ Len(hist) = IF Missing THEN 2 * (given - 1) ELSE 2 * given - 1
    /\ InTurn(hist)
    /\ AllHeld(hist, Held)

ConversationInv == TypeOK /\ Conversation

LEMMA RolesInTurn ==
  ASSUME NEW g \in Nat
  PROVE  RoleAt(2 * g + 1) = "user" /\ RoleAt(2 * g) = "assistant"
<1>1. (2 * g + 1) % 2 = 1 /\ (2 * g) % 2 = 0 OBVIOUS
<1> QED BY <1>1 DEF RoleAt

(* A message added at the end of a conversation. *)
LEMMA Added ==
  ASSUME NEW h \in Seq(Messages), NEW n \in Nat, NEW m \in Messages,
         InTurn(h), AllHeld(h, n), 2 * n - 1 <= Len(h), m.role = RoleAt(Len(h) + 1),
         \A c \in m.contents : Len(h) + 1 = 2 * c - 1
  PROVE  /\ Len(Append(h, m)) = Len(h) + 1
         /\ InTurn(Append(h, m)) /\ AllHeld(Append(h, m), n)
<1> DEFINE a == Append(h, m)
<1>1. /\ Len(h) \in Nat /\ Len(a) = Len(h) + 1 /\ a[Len(h) + 1] = m
      /\ \A i \in 1..Len(h) : a[i] = h[i]
  OBVIOUS
<1> HIDE DEF a
<1>2. InTurn(a)
  <2>1. ASSUME NEW i \in 1..Len(a)
        PROVE  a[i].role = RoleAt(i) /\ \A c \in a[i].contents : i = 2 * c - 1
    <3>1. CASE i = Len(h) + 1 BY <1>1, <3>1
    <3>2. CASE i \in 1..Len(h) BY <1>1, <3>2 DEF InTurn
    <3> QED BY <1>1, <3>1, <3>2
  <2> QED BY <2>1 DEF InTurn
<1>3. AllHeld(a, n)
  <2>1. ASSUME NEW c \in (IF resumed THEN 2 ELSE 1)..n PROVE c \in a[2 * c - 1].contents
    <3>1. 2 * c - 1 \in 1..Len(h) BY <1>1
    <3> QED BY <1>1, <3>1 DEF AllHeld
  <2> QED BY <2>1 DEF AllHeld
<1> QED BY <1>1, <1>2, <1>3 DEF a

(* The last message taken out of it. *)
LEMMA TakenOut ==
  ASSUME NEW h \in Seq(Messages), NEW n \in Nat,
         InTurn(h), AllHeld(h, n), 2 * n < Len(h)
  PROVE  /\ Len(Front(h)) = Len(h) - 1 /\ Front(h) \in Seq(Messages)
         /\ InTurn(Front(h)) /\ AllHeld(Front(h), n)
<1>1. Len(h) \in Nat /\ Len(h) # 0 OBVIOUS
<1>2. /\ Len(Front(h)) = Len(h) - 1 /\ Front(h) \in Seq(Messages)
      /\ \A i \in 1..(Len(h) - 1) : Front(h)[i] = h[i]
  <2>1. Front(h) = SubSeq(h, 1, Len(h) - 1) BY DEF Front
  <2>2. PICK k \in Nat : k = Len(h) - 1 BY <1>1
  <2>3. /\ Len(SubSeq(h, 1, k)) = k
        /\ \A i \in 1..k : SubSeq(h, 1, k)[i] = h[i]
    BY <2>2
  <2>4. SubSeq(h, 1, k) \in Seq(Messages) BY <2>2
  <2> QED BY <2>1, <2>2, <2>3, <2>4
<1>3. InTurn(Front(h)) BY <1>1, <1>2 DEF InTurn
<1>4. ASSUME NEW c \in (IF resumed THEN 2 ELSE 1)..n
      PROVE  c \in Front(h)[2 * c - 1].contents
  <2>1. 2 * c - 1 \in 1..(Len(h) - 1) BY <1>1
  <2> QED BY <1>2, <2>1 DEF AllHeld
<1> QED BY <1>2, <1>3, <1>4 DEF AllHeld

(* The message of this turn. *)
LEMMA TurnHeld ==
  ASSUME TypeOK, ItemOfTurn, Len(hist) = 2 * (given - 1), InTurn(hist), AllHeld(hist, given - 1),
         NEW h, h = Append(hist, Message("user", item.contents))
  PROVE  /\ h \in Seq(Messages) /\ Len(h) = 2 * given - 1
         /\ InTurn(h) /\ AllHeld(h, given)
<1> DEFINE m == Message("user", item.contents)
<1>1. given \in Nat /\ given - 1 \in Nat /\ hist \in Seq(Messages) BY DEF TypeOK
<1>2. m \in Messages /\ m.role = "user" /\ m.contents = item.contents
  BY DEF Message, Messages, TypeOK, Items
<1> HIDE DEF m
<1>3. RoleAt(Len(hist) + 1) = "user" BY <1>1, RolesInTurn
<1>4. \A c \in m.contents : Len(hist) + 1 = 2 * c - 1 BY <1>1, <1>2 DEF ItemOfTurn
<1>5. /\ Len(h) = 2 * given - 1 /\ InTurn(h) /\ AllHeld(h, given - 1)
  <2>1. 2 * (given - 1) - 1 <= Len(hist) BY <1>1
  <2>2. h = Append(hist, m) BY DEF m
  <2>3. Len(h) = Len(hist) + 1 /\ InTurn(h) /\ AllHeld(h, given - 1)
    BY <1>1, <1>2, <1>3, <1>4, <2>1, <2>2, Added
  <2> QED BY <1>1, <2>3
<1>6. h \in Seq(Messages) /\ h[2 * given - 1] = m
  <2>1. h = Append(hist, m) BY DEF m
  <2>2. h \in Seq(Messages) /\ h[Len(hist) + 1] = m
    <3>1. \A s \in Seq(Messages) : Append(s, m) \in Seq(Messages) /\ Append(s, m)[Len(s) + 1] = m
      BY <1>2
    <3> QED BY <1>1, <2>1, <3>1
  <2>3. Len(hist) + 1 = 2 * given - 1 BY <1>1
  <2> QED BY <2>2, <2>3
<1>7. ASSUME NEW c \in (IF resumed THEN 2 ELSE 1)..given PROVE c \in h[2 * c - 1].contents
  <2>1. CASE c = given
    <3>1. given \in item.contents BY <1>1, <2>1 DEF ItemOfTurn
    <3> QED BY <1>2, <1>6, <2>1, <3>1
  <2>2. CASE c # given
    <3>1. c \in (IF resumed THEN 2 ELSE 1)..(given - 1) BY <1>1, <2>2
    <3> QED BY <1>5, <3>1 DEF AllHeld
  <2> QED BY <2>1, <2>2
<1> QED BY <1>5, <1>6, <1>7 DEF AllHeld

(* The answer. *)
LEMMA AnswerHeld ==
  ASSUME NEW h \in Seq(Messages), NEW g \in Nat, Len(h) = 2 * g - 1, InTurn(h), AllHeld(h, g),
         NEW a, a = Append(h, Message("assistant", {}))
  PROVE  Len(a) = 2 * g /\ InTurn(a) /\ AllHeld(a, g)
<1> DEFINE m == Message("assistant", {})
<1>1. m \in Messages /\ m.role = "assistant" /\ m.contents = {}
  BY DEF Message, Messages, Contents
<1> HIDE DEF m
<1>2. RoleAt(Len(h) + 1) = "assistant"
  <2>1. Len(h) + 1 = 2 * g OBVIOUS
  <2> QED BY <2>1, RolesInTurn
<1>3. \A c \in m.contents : Len(h) + 1 = 2 * c - 1 BY <1>1
<1>4. 2 * g - 1 <= Len(h) OBVIOUS
<1>5. a = Append(h, m) BY DEF m
<1>6. Len(a) = Len(h) + 1 /\ InTurn(a) /\ AllHeld(a, g)
  BY <1>1, <1>2, <1>3, <1>4, <1>5, Added
<1> QED BY <1>6

LEMMA ConversationInit == Init => Conversation
<1> SUFFICES ASSUME Init PROVE Conversation
  OBVIOUS
<1>1. /\ phase = "pop" /\ given = 1 /\ item.made = 0 /\ ~item.removed
      /\ item.contents = IF resumed THEN {} ELSE {1}
  BY DEF Init, NewItem
<1>2. Missing <=> ~resumed BY <1>1 DEF Missing, AddsMessage
<1>3. ItemOfTurn BY <1>1 DEF ItemOfTurn
<1>4. CASE resumed
  <2>1. hist = <<Message("user", {1})>> BY <1>4 DEF Init
  <2>2. Len(hist) = 1 /\ hist[1].role = "user" /\ hist[1].contents = {1}
    BY <2>1 DEF Message
  <2>3. RoleAt(1) = "user" BY DEF RoleAt
  <2>4. InTurn(hist) BY <2>2, <2>3 DEF InTurn
  <2>5. AllHeld(hist, Held) BY <1>1, <1>2, <1>4 DEF AllHeld, Held
  <2> QED BY <1>1, <1>2, <1>3, <1>4, <2>2, <2>4, <2>5 DEF Conversation
<1>5. CASE ~resumed
  <2>1. hist = <<>> BY <1>5 DEF Init
  <2>2. InTurn(hist) BY <2>1 DEF InTurn
  <2>3. AllHeld(hist, Held) BY <1>1, <1>2, <1>5 DEF AllHeld, Held
  <2>4. Len(hist) = 0 BY <2>1
  <2> QED BY <1>1, <1>2, <1>3, <1>5, <2>2, <2>3, <2>4 DEF Conversation
<1> QED BY <1>4, <1>5

(* The next turn: both messages of the last one are there. *)
LEMMA TurnConversation ==
  ASSUME TypeOK, ItemOfTurn, NextTurn, resumed' = resumed,
         Len(hist') = 2 * given, InTurn(hist'), AllHeld(hist', given)
  PROVE  Conversation'
<1>1. CASE phase' # "ended"
  <2>1. given' = given + 1 /\ item' = NewItem({given + 1}) /\ phase' = "pop"
    BY <1>1 DEF NextTurn, Ends
  <2>2. item'.contents = {given'} /\ item'.made = 0 /\ given' # 1 /\ given \in Nat /\ given > 0
    BY <2>1 DEF NewItem, TypeOK
  <2>3. Missing' BY <2>1, <2>2 DEF Missing, AddsMessage
  <2>4. ItemOfTurn' BY <2>2 DEF ItemOfTurn
  <2>5. Held' = given BY <2>1, <2>2, <2>3 DEF Held
  <2>6. AllHeld(hist, Held)' BY <2>5 DEF AllHeld
  <2>7. Len(hist') = 2 * (given' - 1) BY <2>1, <2>2
  <2>8. InTurn(hist)' BY DEF InTurn, RoleAt
  <2> QED BY <2>3, <2>4, <2>6, <2>7, <2>8 DEF Conversation
<1>2. CASE phase' = "ended" BY <1>2 DEF Conversation
<1> QED BY <1>1, <1>2

(* A step that leaves the conversation alone, and whether it lacks the     *)
(* message of the turn.                                                    *)
LEMMA SameConversation ==
  ASSUME Conversation, phase # "ended", UNCHANGED <<resumed, hist, given>>,
         item'.contents = item.contents, phase' = "ended" \/ (Missing' <=> Missing)
  PROVE  Conversation'
<1>1. CASE phase' = "ended" BY <1>1 DEF Conversation
<1>2. CASE phase' # "ended"
  <2>1. Held' = Held /\ (Missing' <=> Missing) BY <1>2 DEF Held
  <2>2. ItemOfTurn' <=> ItemOfTurn BY DEF ItemOfTurn
  <2>3. InTurn(hist)' <=> InTurn(hist) BY DEF InTurn, RoleAt
  <2>4. AllHeld(hist, Held)' <=> AllHeld(hist, Held) BY <2>1 DEF AllHeld
  <2> QED BY <1>2, <2>1, <2>2, <2>3, <2>4 DEF Conversation
<1> QED BY <1>1, <1>2

LEMMA ConversationStep == TypeOK /\ Conversation /\ [Next]_vars => Conversation'
<1> SUFFICES ASSUME TypeOK, Conversation, [Next]_vars PROVE Conversation'
  OBVIOUS
<1>0. /\ given \in Nat /\ given > 0 /\ hist \in Seq(Messages)
      /\ item \in Items /\ item.made \in Nat /\ item.contents \in Contents
  BY DEF TypeOK, Items
<1>1. CASE Pop \/ Send \/ FirstChunk \/ BackoffOver \/ BackoffStreamOver \/ NoticeAbort \/ Abort
  <2>1. UNCHANGED <<resumed, hist, given, item>> /\ phase # "ended"
    BY <1>1 DEF Pop, Send, FirstChunk, BackoffOver, BackoffStreamOver, NoticeAbort, Abort
  <2>2. phase' = "ended" \/ (Missing' <=> Missing)
    BY <1>1 DEF Pop, Send, FirstChunk, BackoffOver, BackoffStreamOver, NoticeAbort, Abort, Ends,
                Missing, AddsMessage
  <2> QED BY <2>1, <2>2, SameConversation
<1>2. CASE AddUserMessage
  <2>1. /\ phase = "prepare" /\ phase' = "send" /\ UNCHANGED <<resumed, item, given>>
        /\ hist' = IF AddsMessage THEN Append(hist, Message("user", item.contents)) ELSE hist
    BY <1>2 DEF AddUserMessage
  <2>2. ~Missing' BY <2>1 DEF Missing
  <2>3. CASE ~AddsMessage
    <3>1. ~Missing BY <2>1, <2>3 DEF Missing
    <3> QED BY <2>1, <2>2, <2>3, <3>1, SameConversation
  <2>4. CASE AddsMessage
    <3>1. Missing BY <2>1, <2>4 DEF Missing
    <3>2. /\ ItemOfTurn /\ Len(hist) = 2 * (given - 1) /\ InTurn(hist)
          /\ AllHeld(hist, given - 1)
      BY <2>1, <3>1 DEF Conversation, Held
    <3>3. Len(hist') = 2 * given - 1 /\ InTurn(hist') /\ AllHeld(hist', given)
      BY <2>1, <2>4, <3>2, TurnHeld
    <3>4. Held' = given /\ ItemOfTurn' BY <2>1, <2>2, <3>2 DEF Held, ItemOfTurn
    <3>5. InTurn(hist)' /\ AllHeld(hist, Held)'
      BY <2>1, <3>3, <3>4 DEF InTurn, AllHeld, RoleAt
    <3> QED BY <2>1, <2>2, <3>3, <3>4, <3>5 DEF Conversation
  <2> QED BY <2>3, <2>4
<1>3. CASE Answered
  <2>1. ~Missing /\ phase = "stream" BY <1>3 DEF Answered, Missing
  <2>2. ItemOfTurn /\ Len(hist) = 2 * given - 1 /\ InTurn(hist) /\ AllHeld(hist, given)
    BY <2>1 DEF Conversation, Held
  <2>3. hist' = Append(hist, Message("assistant", {})) /\ NextTurn /\ resumed' = resumed
    BY <1>3 DEF Answered
  <2>4. Len(hist') = 2 * given /\ InTurn(hist') /\ AllHeld(hist', given)
    BY <1>0, <2>2, <2>3, AnswerHeld
  <2> QED BY <2>2, <2>3, <2>4, TurnConversation
<1>4. ASSUME NEW kind \in Kinds, NEW auto \in BOOLEAN, FirstChunkFails(kind, auto)
      PROVE  Conversation'
  <2>1. /\ phase = "await" /\ phase' \in {"send", "ended", "backoff", "ask"}
        /\ UNCHANGED <<resumed, hist, given, item>>
    BY <1>4, FirstChunkFailsTypes DEF FirstChunkFails
  <2>2. ~Missing /\ ~Missing' BY <2>1 DEF Missing
  <2> QED BY <2>1, <2>2, SameConversation
<1>5. ASSUME NEW kind \in Kinds, NEW auto \in BOOLEAN, StreamFails(kind, auto)
      PROVE  Conversation'
  <2>1. phase \in {"stream", "send"} /\ UNCHANGED <<resumed, hist, given>>
    BY <1>5 DEF StreamFails
  <2>2. ~Missing BY <2>1 DEF Missing
  <2>3. CASE phase' = "ended" /\ item' = item BY <2>1, <2>3, SameConversation
  <2>4. CASE ~(phase' = "ended" /\ item' = item)
    <3>1. /\ phase' \in {"askStream", "backoffStream", "pop"}
          /\ item'.made = OneMore(item.made) /\ ~item'.removed /\ item'.contents = item.contents
      BY <1>0, <1>5, <2>4 DEF StreamFails, Ends, Items
    <3>2. item'.made # 0 BY <1>0, <3>1 DEF OneMore
    <3>3. ~Missing' BY <3>1, <3>2 DEF Missing, AddsMessage
    <3> QED BY <2>1, <2>2, <3>1, <3>3, SameConversation
  <2> QED BY <2>3, <2>4
<1>6. ASSUME NEW auto \in BOOLEAN, EmptyAnswer(auto)
      PROVE  Conversation'
  <2>1. /\ phase = "stream" /\ hist' = WithoutLastUser /\ UNCHANGED <<resumed, given>>
        /\ \/ phase' = "ended"
           \/ phase' = "backoffStream" /\ item' = Retried(item)
           \/ phase' = "askEmpty" /\ item' = item
    BY <1>6 DEF EmptyAnswer, Ends
  <2>2. CASE phase' = "ended" BY <2>2 DEF Conversation
  <2>3. CASE phase' # "ended"
    <3>1. ~Missing BY <2>1 DEF Missing
    <3>2. ItemOfTurn /\ Len(hist) = 2 * given - 1 /\ InTurn(hist) /\ AllHeld(hist, given)
      BY <2>1, <3>1 DEF Conversation, Held
    <3>3. hist' = Front(hist)
      <4>1. Last(hist).role = "user"
        <5>1. 2 * (given - 1) + 1 = Len(hist) /\ given - 1 \in Nat BY <1>0, <3>2
        <5>2. RoleAt(Len(hist)) = "user" BY <5>1, RolesInTurn
        <5>3. Len(hist) \in 1..Len(hist) BY <1>0, <3>2
        <5> QED BY <3>2, <5>2, <5>3 DEF InTurn, Last
      <4>2. hist # <<>> BY <1>0, <3>2
      <4> QED BY <2>1, <4>1, <4>2 DEF WithoutLastUser
    <3>4. AllHeld(hist, given - 1) BY <1>0, <3>2 DEF AllHeld
    <3>5. Len(hist') = 2 * (given - 1) /\ InTurn(hist') /\ AllHeld(hist', given - 1)
      BY <1>0, <3>2, <3>3, <3>4, TakenOut
    <3>6. Missing' BY <2>1, <2>3, <1>0 DEF Missing, AddsMessage, Retried, Items
    <3>7. ItemOfTurn' BY <2>1, <2>3, <3>2, <1>0 DEF ItemOfTurn, Retried, Items
    <3>8. Held' = given - 1 BY <2>1, <3>6 DEF Held
    <3>9. InTurn(hist)' /\ AllHeld(hist, Held)'
      BY <2>1, <3>5, <3>8 DEF InTurn, AllHeld, RoleAt
    <3> QED BY <2>1, <3>5, <3>6, <3>7, <3>9 DEF Conversation
  <2> QED BY <2>2, <2>3
<1>7. ASSUME NEW retry \in BOOLEAN, AskAnswered(retry) \/ AskStreamAnswered(retry)
      PROVE  Conversation'
  <2>1. /\ phase # "ended" /\ UNCHANGED <<resumed, hist, given, item>>
        /\ \/ phase' = "ended"
           \/ phase = "ask" /\ phase' = "send"
           \/ phase = "askStream" /\ phase' = "pop"
    BY <1>7 DEF AskAnswered, AskStreamAnswered, Ends
  <2>2. phase' = "ended" \/ (Missing' <=> Missing) BY <2>1 DEF Missing, AddsMessage
  <2> QED BY <2>1, <2>2, SameConversation
<1>8. ASSUME NEW retry \in BOOLEAN, AskEmptyAnswered(retry)
      PROVE  Conversation'
  <2>1. phase = "askEmpty" /\ resumed' = resumed /\ Missing
    BY <1>8 DEF AskEmptyAnswered, Missing
  <2>2. /\ ItemOfTurn /\ Len(hist) = 2 * (given - 1) /\ InTurn(hist)
        /\ AllHeld(hist, given - 1)
    BY <2>1 DEF Conversation, Held
  <2>3. CASE retry
    <3>1. /\ phase' = "pop" /\ UNCHANGED <<hist, given>>
          /\ item'.removed /\ item'.contents = item.contents
      BY <1>0, <1>8, <2>3 DEF AskEmptyAnswered, Retried, Items
    <3>2. Missing' BY <3>1 DEF Missing, AddsMessage
    <3> QED BY <2>1, <3>1, <3>2, SameConversation
  <2>4. CASE ~retry
    <3> DEFINE u == Message("user", item.contents)
               m == Message("assistant", {})
               h == Append(hist, u)
    <3>1. hist' = hist \o <<u, m>> /\ NextTurn BY <1>8, <2>4 DEF AskEmptyAnswered
    <3>2. u \in Messages /\ m \in Messages
      BY <1>0 DEF Message, Messages, Contents
    <3>3. hist' = Append(h, m)
      <4> HIDE DEF u, m
      <4> QED BY <1>0, <3>1, <3>2
    <3>4. h \in Seq(Messages) /\ Len(h) = 2 * given - 1 /\ InTurn(h) /\ AllHeld(h, given)
      BY <2>2, TurnHeld
    <3> HIDE DEF h
    <3>5. Len(hist') = 2 * given /\ InTurn(hist') /\ AllHeld(hist', given)
      BY <1>0, <3>3, <3>4, AnswerHeld
    <3> QED BY <2>1, <2>2, <3>1, <3>5, TurnConversation
  <2> QED BY <2>3, <2>4
<1>9. CASE UNCHANGED vars
  <2>1. CASE phase = "ended" BY <1>9, <2>1 DEF vars, Conversation
  <2>2. CASE phase # "ended"
    <3>1. Missing' <=> Missing BY <1>9 DEF vars, Missing, AddsMessage
    <3> QED BY <1>9, <2>2, <3>1, SameConversation DEF vars
  <2> QED BY <2>1, <2>2
<1> QED
  BY <1>1, <1>2, <1>3, <1>4, <1>5, <1>6, <1>7, <1>8, <1>9 DEF Next, Outcome, Proceed, User

(* A message that holds a content is the one of its turn. *)
LEMMA ConversationComplete == TypeOK /\ Conversation => RequestsComplete
<1> SUFFICES ASSUME TypeOK, Conversation, phase = "await" PROVE RequestsComplete
  BY DEF RequestsComplete
<1>1. ~Missing /\ given \in Nat BY DEF Missing, TypeOK
<1>2. Len(hist) = 2 * given - 1 /\ InTurn(hist) /\ AllHeld(hist, given)
  BY <1>1 DEF Conversation, Held
<1>3. ASSUME NEW c \in Nat, NEW i \in Holding(c) PROVE i = 2 * c - 1
  BY <1>2, <1>3 DEF Holding, InTurn
<1>4. ASSUME NEW c \in (IF resumed THEN 2 ELSE 1)..given
      PROVE  \E i \in 1..Len(hist) : Holding(c) = {i}
  <2>1. c \in Nat /\ 2 * c - 1 \in 1..Len(hist) BY <1>1, <1>2
  <2>2. 2 * c - 1 \in Holding(c) BY <1>2, <2>1 DEF Holding, AllHeld
  <2>3. Holding(c) = {2 * c - 1} BY <1>3, <2>1, <2>2
  <2> QED BY <2>1, <2>3
<1>5. ASSUME NEW c \in 1..given, NEW d \in 1..given,
             NEW i \in Holding(c), NEW j \in Holding(d), c < d
      PROVE  i < j
  <2>1. i = 2 * c - 1 /\ j = 2 * d - 1 BY <1>1, <1>3
  <2> QED BY <1>5, <2>1
<1>6. \A i \in 1..Len(hist) : hist[i].role = IF i % 2 = 1 THEN "user" ELSE "assistant"
  BY <1>2 DEF InTurn, RoleAt
<1> QED BY <1>4, <1>5, <1>6 DEF RequestsComplete

(* Every request carries the content of each turn once and in order, for   *)
(* any number of turns, caps and failures, but for the first content of a  *)
(* resumed task.                                                           *)
THEOREM RequestsAreComplete == Spec => []RequestsComplete
<1>1. Init => ConversationInv BY TypeInit, ConversationInit DEF ConversationInv
<1>2. ConversationInv /\ [Next]_vars => ConversationInv'
  BY TypeStep, ConversationStep DEF ConversationInv
<1>3. ConversationInv => RequestsComplete BY ConversationComplete DEF ConversationInv
<1> QED BY <1>1, <1>2, <1>3, PTL DEF Spec
=============================================================================
