---------------------------- MODULE NoticesProofs ----------------------------
(***************************************************************************)
(* What three parts guarantee that work on what may be true no longer: a   *)
(* conversation (Chat), for any number of parties, sockets, pages and      *)
(* messages; Payments, for any number of orders and payments, whatever the *)
(* provider does and however often its notices arrive; and Inventory, for  *)
(* any warehouses, transfers and requests, whatever interleaves, aborts or *)
(* crashes.                                                                *)
(***************************************************************************)
EXTENDS Payments, Chat, Inventory, SequenceTheorems, WellFoundedInduction, TLAPS

-----------------------------------------------------------------------------
(* A page appends the messages of an answer one after another *)

\* Of some numbers one is the least.
LEMMA LeastNumber ==
  ASSUME NEW Bad \in SUBSET Nat, Bad # {}
  PROVE  \E n \in Bad : \A m \in Bad : ~(m < n)
<1>1. PICK n \in Bad : \A m \in Bad : <<m, n>> \notin OpToRel(<, Nat)
  BY NatLessThanWellFounded, WFMin
<1>2. QED  BY <1>1 DEF OpToRel

\* The page after each of the messages of an answer.
Pages(page, list, new, n) ==
  page = [i \in 0..n |-> IF i = 0 THEN list
                         ELSE IF Contains(page[i - 1], new[i]) THEN page[i - 1]
                         ELSE Append(page[i - 1], new[i])]

LEMMA PagesExist ==
  ASSUME NEW list, NEW new, NEW n \in Nat
  PROVE  \E page : Pages(page, list, new, n)
<1> DEFINE Bad == {k \in Nat : ~ \E page : Pages(page, list, new, k)}
<1> SUFFICES ASSUME Bad # {} PROVE FALSE
  OBVIOUS
<1>1. PICK k \in Bad : \A m \in Bad : ~(m < k)
  <2>1. Bad \in SUBSET Nat
    OBVIOUS
  <2> HIDE DEF Bad
  <2>2. QED  BY <2>1, LeastNumber
<1>2. k \in Nat /\ ~ \E page : Pages(page, list, new, k)
  BY <1>1
<1>3. CASE k = 0
  <2> DEFINE page == [i \in 0..0 |-> list]
  <2>1. Pages(page, list, new, 0)
    BY DEF Pages
  <2>2. QED  BY <1>2, <1>3, <2>1
<1>4. CASE k # 0
  <2>1. k - 1 \in Nat /\ k - 1 < k
    BY <1>2, <1>4
  <2>2. PICK page : Pages(page, list, new, k - 1)
    BY <1>1, <2>1
  <2> DEFINE more == [i \in 0..k |->
               IF i = k THEN IF Contains(page[k - 1], new[k]) THEN page[k - 1]
                             ELSE Append(page[k - 1], new[k])
               ELSE page[i]]
             again == [i \in 0..k |-> IF i = 0 THEN list
                         ELSE IF Contains(more[i - 1], new[i]) THEN more[i - 1]
                         ELSE Append(more[i - 1], new[i])]
  <2>3. ASSUME NEW i \in 0..k PROVE more[i] = again[i]
    <3>1. CASE i = k
      BY <1>4, <2>1, <3>1
    <3>2. CASE i # k
      <4>1. i \in 0..(k - 1)
        BY <1>2, <2>1, <2>3, <3>2
      <4>2. page[i] = IF i = 0 THEN list
                      ELSE IF Contains(page[i - 1], new[i]) THEN page[i - 1]
                      ELSE Append(page[i - 1], new[i])
        BY <2>2, <4>1 DEF Pages
      <4>3. i # 0 => i - 1 \in 0..k /\ i - 1 # k
        BY <1>2, <4>1
      <4>4. QED  BY <3>2, <4>2, <4>3
    <3>3. QED  BY <3>1, <3>2
  <2>4. more = again
    <3>1. more = [i \in 0..k |-> more[i]] /\ again = [i \in 0..k |-> again[i]]
      OBVIOUS
    <3> HIDE DEF more, again
    <3>2. QED  BY <2>3, <3>1
  <2>5. Pages(more, list, new, k)
    <3> HIDE DEF more
    <3>1. QED  BY <2>4 DEF Pages
  <2>6. QED  BY <1>2, <2>5
<1>5. QED  BY <1>3, <1>4

LEMMA AppendOnce ==
  ASSUME NEW S, NEW list \in Seq(S), IsInjective(list), NEW e \in S, ~Contains(list, e)
  PROVE  /\ Append(list, e) \in Seq(S) /\ IsInjective(Append(list, e))
         /\ \A x : Contains(Append(list, e), x) <=> Contains(list, x) \/ x = e
<1> DEFINE more == Append(list, e)
           n == Len(list)
<1>1. /\ more \in Seq(S) /\ n \in Nat /\ Len(more) = n + 1
      /\ DOMAIN list = 1..n /\ DOMAIN more = 1..(n + 1)
      /\ \A i \in 1..n : more[i] = list[i]
      /\ more[n + 1] = e
  OBVIOUS
<1> HIDE DEF more, n
<1>2. \A i \in 1..n : list[i] # e
  BY DEF Contains, n
<1>3. IsInjective(more)
  <2> SUFFICES ASSUME NEW i \in 1..(n + 1), NEW j \in 1..(n + 1), more[i] = more[j]
               PROVE  i = j
    BY <1>1 DEF IsInjective
  <2>1. CASE i = n + 1 \/ j = n + 1
    BY <1>1, <1>2, <2>1
  <2>2. CASE i # n + 1 /\ j # n + 1
    BY <1>1, <2>2 DEF IsInjective
  <2>3. QED  BY <2>1, <2>2
<1>4. ASSUME NEW x PROVE Contains(more, x) <=> Contains(list, x) \/ x = e
  <2>1. Contains(list, x) <=> \E i \in 1..n : list[i] = x
    BY DEF Contains, n
  <2>2. Contains(more, x) <=> \E i \in 1..(n + 1) : more[i] = x
    BY <1>1 DEF Contains
  <2>3. QED  BY <1>1, <2>1, <2>2
<1>5. QED  BY <1>1, <1>3, <1>4 DEF more

\* Whatever an answer brings, a page without doubles stays one.
LEMMA AppendNewOnce ==
  ASSUME NEW S, NEW list \in Seq(S), IsInjective(list), NEW new \in Seq(S)
  PROVE  AppendNew(list, new) \in Seq(S) /\ IsInjective(AppendNew(list, new))
<1> DEFINE page == CHOOSE page : Pages(page, list, new, Len(new))
<1>1. Pages(page, list, new, Len(new))
  <2>1. Len(new) \in Nat
    OBVIOUS
  <2>2. \E p : Pages(p, list, new, Len(new))
    BY <2>1, PagesExist
  <2>3. QED  BY <2>2
<1>2. AppendNew(list, new) = page[Len(new)]
  BY DEF AppendNew, Pages
<1> HIDE DEF page
<1> DEFINE Good(i) == page[i] \in Seq(S) /\ IsInjective(page[i])
           Bad == {i \in 0..Len(new) : ~Good(i)}
<1>3. ASSUME Bad # {} PROVE FALSE
  <2>1. PICK k \in Bad : \A m \in Bad : ~(m < k)
    <3>1. Bad \in SUBSET Nat
      OBVIOUS
    <3> HIDE DEF Bad
    <3>2. QED  BY <1>3, <3>1, LeastNumber
  <2>2. CASE k = 0
    BY <1>1, <2>1, <2>2 DEF Pages
  <2>3. CASE k # 0
    <3>1. k \in 1..Len(new) /\ k - 1 \in 0..Len(new) /\ k - 1 < k /\ k \in 0..Len(new)
      BY <2>1, <2>3
    <3>2. Good(k - 1)
      <4> HIDE DEF Good
      <4>1. k - 1 \notin Bad
        BY <2>1, <3>1
      <4>2. QED  BY <3>1, <4>1
    <3>3. page[k] = IF Contains(page[k - 1], new[k]) THEN page[k - 1] ELSE Append(page[k - 1], new[k])
      BY <1>1, <2>3, <3>1 DEF Pages
    <3>4. new[k] \in S
      BY <3>1
    <3>5. Good(k)
      BY <3>2, <3>3, <3>4, AppendOnce
    <3> HIDE DEF Good
    <3>6. QED  BY <2>1, <3>5
  <2>4. QED  BY <2>2, <2>3
<1>4. Good(Len(new))
  <2>1. Len(new) \in 0..Len(new)
    OBVIOUS
  <2> HIDE DEF Good
  <2>2. QED  BY <1>3, <2>1
<1>5. QED  BY <1>2, <1>4

-----------------------------------------------------------------------------
(* Type correctness, and what a page shows *)

\* A page waits for the answer to a message that has a number.
PostsNumbered == \A u \in Reader : posted[u].step # "idle" => posted[u].id # None

PagesInv == ChatTypeOK /\ PostsNumbered /\ ShownOnce

LEMMA PagesStart == ChatInit => PagesInv
<1> SUFFICES ASSUME ChatInit PROVE PagesInv
  OBVIOUS
<1>1. ChatTypeOK
  BY ChatAssumption DEF ChatInit, ChatTypeOK, NotPosting, NoAnswer, None
<1>2. PostsNumbered /\ ShownOnce
  BY DEF ChatInit, PostsNumbered, ShownOnce, IsInjective, NotPosting
<1>3. QED  BY <1>1, <1>2 DEF PagesInv

LEMMA NewNumber ==
  ASSUME ChatTypeOK, NEW u \in Party, NewMessage(u)
  PROVE  /\ messages' \in Seq(Party) /\ Len(messages') = Len(messages) + 1
         /\ Len(messages') \in Id /\ Len(messages') # None
BY ChatAssumption DEF ChatTypeOK, NewMessage, Id, None

LEMMA FirstPageNumbers ==
  ASSUME ChatTypeOK, NEW u
  PROVE  FirstPage(u) \in Seq(Id)
<1> DEFINE S == {PageSize, Len(messages)}
<1>1. PageSize \in Nat /\ Len(messages) \in Nat /\ Len(messages) <= MaxMessages /\ MaxMessages \in Nat
  BY ChatAssumption DEF ChatTypeOK
<1>2. \E x \in S : \A y \in S : x =< y
  BY <1>1
<1>3. Min(S) \in S /\ Min(S) =< Len(messages)
  BY <1>2 DEF Min
<1>4. Min(S) \in Nat /\ Min(S) <= MaxMessages
  BY <1>1, <1>3
<1> HIDE DEF S
<1>5. [i \in 1..Min(S) |-> i] \in Seq(Id)
  BY <1>1, <1>4 DEF Id
<1>6. QED  BY <1>5 DEF FirstPage, S

LEMMA PagesStep == PagesInv /\ [ChatNext]_chatVars => PagesInv'
<1> SUFFICES ASSUME ChatTypeOK, PostsNumbered, ShownOnce, [ChatNext]_chatVars
             PROVE  ChatTypeOK' /\ PostsNumbered' /\ ShownOnce'
  BY DEF PagesInv
<1> USE DEF sending, onSockets, onPages
<1>1. ASSUME NEW s \in Socket, Connect(s) PROVE ChatTypeOK' /\ PostsNumbered' /\ ShownOnce'
  BY <1>1 DEF Connect, ChatTypeOK, PostsNumbered, ShownOnce
<1>2. ASSUME NEW s \in Socket, SetOnline(s) \/ SetOffline(s) \/ Heartbeat(s)
      PROVE  ChatTypeOK' /\ PostsNumbered' /\ ShownOnce'
  BY <1>2, ChatAssumption DEF SetOnline, SetOffline, Heartbeat, ChatTypeOK, PostsNumbered, ShownOnce
<1>3. ASSUME NEW s \in Socket, Disconnect(s) PROVE ChatTypeOK' /\ PostsNumbered' /\ ShownOnce'
  BY <1>3, ChatAssumption DEF Disconnect, Forget, ChatTypeOK, PostsNumbered, ShownOnce
<1>4. ASSUME NEW s \in Socket, LoseSocket(s) PROVE ChatTypeOK' /\ PostsNumbered' /\ ShownOnce'
  BY <1>4, ChatAssumption DEF LoseSocket, Forget, ChatTypeOK, PostsNumbered, ShownOnce
<1>5. ASSUME NEW s \in Socket, CreateMessage(s) PROVE ChatTypeOK' /\ PostsNumbered' /\ ShownOnce'
  <2>1. PartyOf[s] \in Party
    BY ChatAssumption
  <2>2. /\ messages' \in Seq(Party) /\ Len(messages') \in Id
        /\ Len(messages') <= MaxMessages
    BY <1>5, <2>1, NewNumber DEF CreateMessage, Id
  <2>3. QED  BY <1>5, <2>2 DEF CreateMessage, ChatTypeOK, PostsNumbered, ShownOnce
<1>6. ASSUME NEW id \in Id, GroupSend(id) PROVE inbox' \in [Socket -> Seq(Id)]
  BY <1>6 DEF GroupSend, ChatTypeOK
<1>7. ASSUME NEW s \in Socket, SendEvent(s) PROVE ChatTypeOK' /\ PostsNumbered' /\ ShownOnce'
  <2>1. toSend[s] \in Id
    BY <1>7 DEF SendEvent, ChatTypeOK
  <2>2. inbox' \in [Socket -> Seq(Id)]
    BY <1>6, <1>7, <2>1 DEF SendEvent
  <2>3. QED  BY <1>7, <2>2 DEF SendEvent, ChatTypeOK, PostsNumbered, ShownOnce
<1>8. ASSUME NEW s \in Socket, DeliverEvent(s) PROVE ChatTypeOK' /\ PostsNumbered' /\ ShownOnce'
  <2>1. inbox[s] \in Seq(Id) /\ inbox[s] # <<>> /\ screen[s] \in Seq(Id)
    BY <1>8 DEF DeliverEvent, ChatTypeOK
  <2>2. Head(inbox[s]) \in Id /\ Tail(inbox[s]) \in Seq(Id)
    BY <2>1
  <2>3. Append(screen[s], Head(inbox[s])) \in Seq(Id)
    BY <2>1, <2>2
  <2>4. QED  BY <1>8, <2>2, <2>3 DEF DeliverEvent, ChatTypeOK, PostsNumbered, ShownOnce
<1>9. ASSUME NEW u \in Reader, PostMessage(u) PROVE ChatTypeOK' /\ PostsNumbered' /\ ShownOnce'
  <2>1. u \in Party
    BY ChatAssumption
  <2>2. /\ messages' \in Seq(Party) /\ Len(messages') \in Id /\ Len(messages') # None
        /\ Len(messages') <= MaxMessages
    BY <1>9, <2>1, NewNumber DEF PostMessage, Id
  <2>3. QED  BY <1>9, <2>2 DEF PostMessage, ChatTypeOK, PostsNumbered, ShownOnce
<1>10. ASSUME NEW u \in Reader, BroadcastPosted(u) PROVE ChatTypeOK' /\ PostsNumbered' /\ ShownOnce'
  <2>1. posted[u].id \in Id
    BY <1>10 DEF BroadcastPosted, ChatTypeOK, PostsNumbered
  <2>2. inbox' \in [Socket -> Seq(Id)]
    BY <1>6, <1>10, <2>1 DEF BroadcastPosted
  <2>3. QED  BY <1>10, <2>1, <2>2 DEF BroadcastPosted, ChatTypeOK, PostsNumbered, ShownOnce
<1>11. NotPosting \in [id : Id \cup {None}, step : {"idle", "created", "sent"}] /\ NotPosting.step = "idle"
  BY DEF NotPosting
<1>12. ASSUME NEW u \in Reader, ShowPosted(u) PROVE ChatTypeOK' /\ PostsNumbered' /\ ShownOnce'
  <2>1. posted[u].id \in Id /\ shown[u] \in Seq(Id) /\ IsInjective(shown[u])
    BY <1>12 DEF ShowPosted, ChatTypeOK, PostsNumbered, ShownOnce
  <2>2. <<posted[u].id>> \in Seq(Id)
    BY <2>1
  <2>3. PICK page : page = AppendNew(shown[u], <<posted[u].id>>)
    OBVIOUS
  <2>4. page \in Seq(Id) /\ IsInjective(page)
    BY <2>1, <2>2, <2>3, AppendNewOnce
  <2>5. shown' = [shown EXCEPT ![u] = page]
    BY <1>12, <2>3 DEF ShowPosted
  <2>6. posted' = [posted EXCEPT ![u] = NotPosting]
        /\ UNCHANGED <<messages, toSend, lost, onSockets, polled, online>>
    BY <1>12 DEF ShowPosted
  <2>7. ChatTypeOK'
    BY <1>11, <2>4, <2>5, <2>6 DEF ChatTypeOK
  <2>8. PostsNumbered'
    BY <1>11, <2>6 DEF ChatTypeOK, PostsNumbered
  <2>9. ShownOnce'
    BY <2>4, <2>5 DEF ChatTypeOK, ShownOnce
  <2>10. QED  BY <2>7, <2>8, <2>9
<1>13. ASSUME NEW u \in Reader, LosePosted(u) PROVE ChatTypeOK' /\ PostsNumbered' /\ ShownOnce'
  <2>1. posted[u].step = "created" => posted[u].id \in Id
    BY DEF ChatTypeOK, PostsNumbered
  <2>2. QED  BY <1>11, <1>13, <2>1 DEF LosePosted, ChatTypeOK, PostsNumbered, ShownOnce
<1>14. ASSUME NEW u \in Reader, Poll(u) PROVE ChatTypeOK' /\ PostsNumbered' /\ ShownOnce'
  BY <1>14, FirstPageNumbers DEF Poll, ChatTypeOK, PostsNumbered, ShownOnce
<1>15. ASSUME NEW u \in Reader, ShowPolled(u) PROVE ChatTypeOK' /\ PostsNumbered' /\ ShownOnce'
  <2>1. polled[u] \in Seq(Id) /\ shown[u] \in Seq(Id) /\ IsInjective(shown[u])
    BY <1>15 DEF ShowPolled, ChatTypeOK, ShownOnce
  <2>2. PICK page : page = AppendNew(shown[u], polled[u])
    OBVIOUS
  <2>3. page \in Seq(Id) /\ IsInjective(page)
    BY <2>1, <2>2, AppendNewOnce
  <2>4. shown' = [shown EXCEPT ![u] = page]
    BY <1>15, <2>2 DEF ShowPolled
  <2>5. QED  BY <1>15, <2>3, <2>4 DEF ShowPolled, ChatTypeOK, PostsNumbered, ShownOnce
<1>16. ASSUME NEW u \in Reader, LosePolled(u) PROVE ChatTypeOK' /\ PostsNumbered' /\ ShownOnce'
  BY <1>16 DEF LosePolled, ChatTypeOK, PostsNumbered, ShownOnce
<1>17. ASSUME NEW u \in Reader, ReloadPage(u) PROVE ChatTypeOK' /\ PostsNumbered' /\ ShownOnce'
  <2>1. <<>> \in Seq(Id) /\ IsInjective(<<>>)
    BY DEF IsInjective
  <2>2. PICK none : none = <<>>
    OBVIOUS
  <2>3. shown' = [shown EXCEPT ![u] = none] /\ none \in Seq(Id) /\ IsInjective(none)
    BY <1>17, <2>1, <2>2 DEF ReloadPage
  <2>4. QED  BY <1>17, <2>3 DEF ReloadPage, ChatTypeOK, PostsNumbered, ShownOnce
<1>18. ASSUME NEW u \in Party, ExpirePresence(u) PROVE ChatTypeOK' /\ PostsNumbered' /\ ShownOnce'
  BY <1>18 DEF ExpirePresence, ChatTypeOK, PostsNumbered, ShownOnce
<1>19. CASE UNCHANGED chatVars
  BY <1>19 DEF chatVars, ChatTypeOK, PostsNumbered, ShownOnce
<1>20. QED
  BY <1>1, <1>2, <1>3, <1>4, <1>5, <1>7, <1>8, <1>9, <1>10, <1>12, <1>13, <1>14, <1>15, <1>16,
     <1>17, <1>18, <1>19 DEF ChatNext

\* Every variable of a conversation keeps its type.
THEOREM ChatTypeCorrect == ChatSpec => []ChatTypeOK
<1>1. PagesInv => ChatTypeOK
  BY DEF PagesInv
<1>2. QED  BY <1>1, PagesStart, PagesStep, PTL DEF ChatSpec

\* However the answers to a message and to the polls come in, and whatever is
\* lost on the way, a page shows no message twice.
THEOREM NoDoubles == ChatSpec => []ShownOnce
<1>1. PagesInv => ShownOnce
  BY DEF PagesInv
<1>2. QED  BY <1>1, PagesStart, PagesStep, PTL DEF ChatSpec

-----------------------------------------------------------------------------
(* Every message reaches the open sockets, once *)

Got(s) == screen[s] \o inbox[s]
InGroup(s) == sockets[s] \in {"joined", "open"}

\* A row whose event is still to be sent.
Pending(id) ==
  \/ \E t \in Socket : toSend[t] = id
  \/ \E u \in Reader : posted[u] = [id |-> id, step |-> "created"]

\* No two senders have one message.
Senders ==
  /\ \A s \in Socket : toSend[s] # None => sockets[s] = "open" /\ toSend[s] <= Len(messages)
  /\ \A u \in Reader : posted[u].id <= Len(messages)
  /\ \A s \in Socket, t \in Socket : toSend[s] # None /\ toSend[s] = toSend[t] => s = t
  /\ \A u \in Reader, v \in Reader : posted[u].step = "created" /\ posted[v] = posted[u] => u = v
  /\ \A s \in Socket, u \in Reader : posted[u].step = "created" => toSend[s] # posted[u].id

\* What a socket has heard of was sent and is not to be sent again; one in the
\* group has heard of every message since it joined that is not still to be
\* sent, nor lost.
Heard(s) ==
  /\ ~InGroup(s) => screen[s] = <<>> /\ inbox[s] = <<>>
  /\ IsInjective(Got(s))
  /\ \A id \in Id : Contains(Got(s), id) => id <= Len(messages) /\ ~Pending(id)
  /\ InGroup(s) => \A id \in 1..Len(messages) :
       id > since[s] => Contains(Got(s), id) \/ Pending(id) \/ id \in lost

ChatInv == PagesInv /\ Senders /\ \A s \in Socket : Heard(s)

LEMMA AppendLast ==
  ASSUME NEW S, NEW p \in Seq(S), NEW q \in Seq(S), NEW e \in S
  PROVE  p \o Append(q, e) = Append(p \o q, e)
<1>1. p \o q \in Seq(S) /\ <<e>> \in Seq(S)
  OBVIOUS
<1>2. Append(q, e) = q \o <<e>> /\ Append(p \o q, e) = (p \o q) \o <<e>>
  BY <1>1, AppendIsConcat
<1>3. (p \o q) \o <<e>> = p \o (q \o <<e>>)
  BY <1>1, ConcatAssociative
<1>4. QED  BY <1>2, <1>3

LEMMA HandOver ==
  ASSUME NEW S, NEW p \in Seq(S), NEW q \in Seq(S), q # <<>>
  PROVE  Append(p, Head(q)) \o Tail(q) = p \o q
<1>1. Head(q) \in S /\ Tail(q) \in Seq(S) /\ <<Head(q)>> \in Seq(S) /\ q = <<Head(q)>> \o Tail(q)
  BY HeadTailProperties
<1>2. Append(p, Head(q)) = p \o <<Head(q)>>
  BY <1>1, AppendIsConcat
<1>3. (p \o <<Head(q)>>) \o Tail(q) = p \o (<<Head(q)>> \o Tail(q))
  BY <1>1, ConcatAssociative
<1>4. QED  BY <1>1, <1>2, <1>3

\* The steps that tell a socket nothing.
LEMMA HeardSame ==
  ASSUME NEW s \in Socket, Heard(s), messages' = messages, lost \subseteq lost',
         Got(s)' = Got(s), screen[s] = <<>> /\ inbox[s] = <<>> => screen'[s] = <<>> /\ inbox'[s] = <<>>,
         since'[s] = since[s], InGroup(s)' <=> InGroup(s),
         \A id \in Id : Pending(id)' => Pending(id),
         \A id \in Id : Pending(id) => Pending(id)' \/ id \in lost',
         Len(messages) <= MaxMessages
  PROVE  Heard(s)'
<1>1. \A id \in 1..Len(messages) : id \in Id
  BY ChatAssumption DEF Id
<1> HIDE DEF Pending, Got, InGroup
<1>2. QED  BY <1>1 DEF Heard

\* A socket out of the group has heard of nothing.
LEMMA HeardNothing ==
  ASSUME NEW s \in Socket, ~InGroup(s)', screen'[s] = <<>>, inbox'[s] = <<>>
  PROVE  Heard(s)'
<1>1. Got(s)' = <<>>
  BY DEF Got
<1>2. IsInjective(Got(s))' /\ \A id : ~Contains(Got(s), id)'
  BY <1>1 DEF IsInjective, Contains
<1> HIDE DEF Pending, Got, InGroup
<1>3. QED  BY <1>2 DEF Heard

\* A new row is pending, and nobody has heard of it.
LEMMA HeardNew ==
  ASSUME ChatTypeOK, NEW s \in Socket, Heard(s),
         Len(messages') = Len(messages) + 1, Len(messages') \in Id,
         UNCHANGED <<sockets, inbox, since, screen, lost>>,
         \A id \in Id : Pending(id)' <=> Pending(id) \/ id = Len(messages')
  PROVE  Heard(s)'
<1>1. Got(s)' = Got(s) /\ (InGroup(s)' <=> InGroup(s))
  BY DEF Got, InGroup
<1>2. Len(messages) \in Nat /\ Len(messages') \in Nat /\ \A id \in 1..Len(messages') : id \in Id
  BY ChatAssumption DEF ChatTypeOK, Id
<1>3. \A id \in Id : id \in Nat
  BY DEF Id
<1> HIDE DEF Pending, Got, InGroup
<1>4. ASSUME NEW id \in Id, Contains(Got(s), id)'
      PROVE  id <= Len(messages') /\ ~Pending(id)'
  <2>1. Contains(Got(s), id)
    BY <1>1, <1>4
  <2>2. id <= Len(messages) /\ ~Pending(id)
    BY <2>1 DEF Heard
  <2>3. QED  BY <1>2, <1>3, <2>2
<1>5. ASSUME NEW id \in 1..Len(messages'), InGroup(s)', id > since'[s]
      PROVE  Contains(Got(s), id)' \/ Pending(id)' \/ id \in lost'
  <2>1. CASE id = Len(messages')
    BY <1>2, <2>1
  <2>2. CASE id # Len(messages')
    <3>1. id \in 1..Len(messages) /\ id \in Id
      BY <1>2, <2>2
    <3>2. Contains(Got(s), id) \/ Pending(id) \/ id \in lost
      BY <1>1, <1>5, <3>1 DEF Heard
    <3>3. QED  BY <1>1, <3>1, <3>2
  <2>3. QED  BY <2>1, <2>2
<1>6. QED  BY <1>1, <1>4, <1>5 DEF Heard

\* An event goes to the group, and is not pending any longer.
LEMMA HeardSent ==
  ASSUME ChatTypeOK, NEW s \in Socket, Heard(s), NEW id \in Id, Pending(id), id <= Len(messages),
         GroupSend(id), UNCHANGED <<messages, sockets, since, screen, lost>>,
         \A x \in Id : Pending(x)' <=> Pending(x) /\ x # id
  PROVE  Heard(s)'
<1>1. InGroup(s)' <=> InGroup(s)
  BY DEF InGroup
<1>2. \A x \in 1..Len(messages) : x \in Id
  BY ChatAssumption DEF ChatTypeOK, Id
<1>3. CASE ~InGroup(s)
  <2>1. inbox'[s] = inbox[s]
    BY <1>3 DEF GroupSend, Group, InGroup
  <2>2. inbox'[s] = <<>> /\ screen'[s] = <<>>
    BY <1>3, <2>1 DEF Heard
  <2>3. QED  BY <1>1, <1>3, <2>2, HeardNothing
<1>4. CASE InGroup(s)
  <2>1. inbox'[s] = Append(inbox[s], id)
    BY <1>4 DEF GroupSend, Group, InGroup
  <2>2. inbox[s] \in Seq(Id) /\ screen[s] \in Seq(Id) /\ Got(s) \in Seq(Id)
    BY DEF ChatTypeOK, Got
  <2>3. Got(s)' = Append(Got(s), id)
    <3>1. PICK p \in Seq(Id), q \in Seq(Id) : p = screen[s] /\ q = inbox[s]
      BY <2>2
    <3>2. p \o Append(q, id) = Append(p \o q, id)
      BY AppendLast
    <3>3. screen'[s] = p /\ inbox'[s] = Append(q, id)
      BY <2>1, <3>1
    <3>4. Got(s)' = p \o Append(q, id) /\ Got(s) = p \o q
      BY <3>1, <3>3 DEF Got
    <3>5. QED  BY <3>2, <3>4
  <2>4. ~Contains(Got(s), id) /\ IsInjective(Got(s))
    BY DEF Heard
  <2>5. /\ IsInjective(Got(s))'
        /\ \A x : Contains(Got(s), x)' <=> Contains(Got(s), x) \/ x = id
    <3>1. PICK got : got = Got(s)
      OBVIOUS
    <3>2. PICK more : more = Append(got, id)
      OBVIOUS
    <3>3. got \in Seq(Id) /\ IsInjective(got) /\ ~Contains(got, id)
      BY <2>2, <2>4, <3>1
    <3>4. IsInjective(more) /\ \A x : Contains(more, x) <=> Contains(got, x) \/ x = id
      BY <3>2, <3>3, AppendOnce
    <3>5. Got(s)' = more
      BY <2>3, <3>1, <3>2
    <3> HIDE DEF Got
    <3>6. IsInjective(Got(s))'
      BY <3>4, <3>5
    <3>7. \A x : Contains(Got(s), x)' <=> Contains(Got(s), x) \/ x = id
      BY <3>1, <3>4, <3>5
    <3>8. QED  BY <3>6, <3>7
  <2> HIDE DEF Pending, Got, InGroup
  <2>6. ASSUME NEW x \in Id, Contains(Got(s), x)' PROVE x <= Len(messages') /\ ~Pending(x)'
    <3>1. x <= Len(messages) /\ (~Pending(x) \/ x = id)
      BY <2>5, <2>6 DEF Heard
    <3>2. QED  BY <3>1
  <2>7. ASSUME NEW x \in 1..Len(messages'), x > since'[s]
        PROVE  Contains(Got(s), x)' \/ Pending(x)' \/ x \in lost'
    <3>1. Contains(Got(s), x) \/ Pending(x) \/ x \in lost
      BY <1>4, <2>7 DEF Heard
    <3>2. QED  BY <1>2, <2>5, <3>1
  <2>8. QED  BY <1>1, <1>4, <2>5, <2>6, <2>7 DEF Heard
<1>5. QED  BY <1>3, <1>4

LEMMA SendersStep ==
  ASSUME ChatTypeOK, PostsNumbered, Senders, [ChatNext]_chatVars
  PROVE  Senders'
<1> USE DEF sending, onSockets, onPages, Free
<1>1. Len(messages) \in Nat /\ \A s \in Socket : toSend[s] \in Nat
  BY ChatAssumption DEF ChatTypeOK, Id, None
<1>2. \A u \in Reader : posted[u] \in [id : Id \cup {None}, step : {"idle", "created", "sent"}]
  BY DEF ChatTypeOK
<1>3. NotPosting.step = "idle" /\ NotPosting.id = 0 /\ None = 0
  BY DEF NotPosting, None
<1>4. ASSUME NEW s \in Socket, CreateMessage(s) PROVE Senders'
  <2>1. PartyOf[s] \in Party
    BY ChatAssumption
  <2>2. Len(messages') = Len(messages) + 1 /\ Len(messages') # None
    BY <1>4, <2>1, NewNumber DEF CreateMessage
  <2>3. toSend' = [toSend EXCEPT ![s] = Len(messages')] /\ sockets[s] = "open"
        /\ UNCHANGED <<posted, sockets>>
    BY <1>4 DEF CreateMessage
  <2>4. \A u \in Reader : posted[u].id \in Nat
    BY <1>2, ChatAssumption DEF Id, None
  <2>5. QED  BY <1>1, <1>3, <2>2, <2>3, <2>4 DEF ChatTypeOK, Senders
<1>5. ASSUME NEW u \in Reader, PostMessage(u) PROVE Senders'
  <2>1. u \in Party
    BY ChatAssumption
  <2>2. Len(messages') = Len(messages) + 1 /\ Len(messages') # None
    BY <1>5, <2>1, NewNumber DEF PostMessage
  <2>3. PICK new : new = [id |-> Len(messages'), step |-> "created"]
    OBVIOUS
  <2>4. posted' = [posted EXCEPT ![u] = new] /\ new.id = Len(messages') /\ new.step = "created"
        /\ UNCHANGED <<toSend, sockets>>
    BY <1>5, <2>3 DEF PostMessage
  <2>5. \A v \in Reader : posted[v].id \in Nat
    BY <1>2, ChatAssumption DEF Id, None
  <2>6. QED  BY <1>1, <2>2, <2>4, <2>5 DEF ChatTypeOK, Senders
<1>6. ASSUME NEW s \in Socket, SendEvent(s) PROVE Senders'
  BY <1>3, <1>6 DEF SendEvent, ChatTypeOK, PostsNumbered, Senders
<1>7. ASSUME NEW s \in Socket, LoseSocket(s) PROVE Senders'
  BY <1>3, <1>7 DEF LoseSocket, ChatTypeOK, PostsNumbered, Senders
<1>8. ASSUME NEW s \in Socket,
             Connect(s) \/ SetOnline(s) \/ Disconnect(s) \/ SetOffline(s) \/ Heartbeat(s) \/ DeliverEvent(s)
      PROVE  Senders'
  BY <1>8 DEF Connect, SetOnline, Disconnect, SetOffline, Heartbeat, DeliverEvent, ChatTypeOK, Senders
<1>9. ASSUME NEW u \in Reader, BroadcastPosted(u) PROVE Senders'
  <2>1. posted' = [posted EXCEPT ![u].step = "sent"] /\ UNCHANGED <<messages, toSend, sockets>>
    BY <1>9 DEF BroadcastPosted
  <2>2. posted'[u].step = "sent" /\ posted'[u].id = posted[u].id
        /\ \A v \in Reader \ {u} : posted'[v] = posted[v]
    BY <1>2, <2>1 DEF ChatTypeOK
  <2>3. \A v \in Reader : posted'[v].step = "created" => v # u /\ posted'[v] = posted[v]
    BY <2>2
  <2>4. ASSUME NEW v \in Reader, NEW w \in Reader, posted'[v].step = "created", posted'[w] = posted'[v]
        PROVE  v = w
    BY <2>3, <2>4 DEF Senders
  <2>5. \A v \in Reader : posted'[v].id <= Len(messages')
    BY <2>1, <2>2 DEF Senders
  <2>6. QED  BY <2>1, <2>3, <2>4, <2>5 DEF Senders
<1>10. ASSUME NEW u \in Reader, ShowPosted(u) \/ LosePosted(u) PROVE Senders'
  <2>1. posted' = [posted EXCEPT ![u] = NotPosting] /\ UNCHANGED <<messages, toSend, sockets>>
    BY <1>10 DEF ShowPosted, LosePosted
  <2>2. posted'[u] = NotPosting /\ \A v \in Reader \ {u} : posted'[v] = posted[v]
    BY <2>1 DEF ChatTypeOK
  <2>3. QED  BY <1>1, <1>3, <2>1, <2>2 DEF Senders
<1>11. ASSUME NEW u \in Reader, Poll(u) \/ ShowPolled(u) \/ LosePolled(u) \/ ReloadPage(u)
       PROVE  UNCHANGED <<messages, toSend, posted, sockets>>
  BY <1>11 DEF Poll, ShowPolled, LosePolled, ReloadPage
<1>12. ASSUME NEW u \in Party, ExpirePresence(u) PROVE UNCHANGED <<messages, toSend, posted, sockets>>
  BY <1>12 DEF ExpirePresence
<1>13. ASSUME UNCHANGED <<messages, toSend, posted, sockets>> PROVE Senders'
  BY <1>13 DEF Senders
<1>14. CASE UNCHANGED chatVars
  BY <1>13, <1>14 DEF chatVars
<1>15. QED
  BY <1>4, <1>5, <1>6, <1>7, <1>8, <1>9, <1>10, <1>11, <1>12, <1>13, <1>14 DEF ChatNext

\* Sending a pending message's event: it is pending no longer, and no other
\* message is affected.
LEMMA SentOnce ==
  ASSUME ChatTypeOK, PostsNumbered, Senders
  PROVE  /\ \A s \in Socket : SendEvent(s) =>
              \A x \in Id : Pending(x)' <=> Pending(x) /\ x # toSend[s]
         /\ \A u \in Reader : BroadcastPosted(u) =>
              \A x \in Id : Pending(x)' <=> Pending(x) /\ x # posted[u].id
<1>1. \A x \in Id : x # None
  BY DEF Id, None
<1>2. \A u \in Reader : posted[u] \in [id : Id \cup {None}, step : {"idle", "created", "sent"}]
  BY DEF ChatTypeOK
<1>3. \A x : LET new == [id |-> x, step |-> "created"] IN
             \A u \in Reader : posted[u] = new <=> posted[u].id = x /\ posted[u].step = "created"
  BY <1>2
<1>4. ASSUME NEW s \in Socket, SendEvent(s), NEW x \in Id
      PROVE  Pending(x)' <=> Pending(x) /\ x # toSend[s]
  <2>1. toSend' = [toSend EXCEPT ![s] = None] /\ posted' = posted /\ toSend[s] # None
    BY <1>4 DEF SendEvent
  <2>2. (\E t \in Socket : toSend'[t] = x) <=> (\E t \in Socket : toSend[t] = x) /\ x # toSend[s]
    BY <1>1, <2>1 DEF ChatTypeOK, Senders
  <2>3. \A u \in Reader : posted[u] = [id |-> x, step |-> "created"] => x # toSend[s]
    BY <1>3 DEF Senders
  <2>4. QED  BY <2>1, <2>2, <2>3 DEF Pending
<1>5. ASSUME NEW u \in Reader, BroadcastPosted(u), NEW x \in Id
      PROVE  Pending(x)' <=> Pending(x) /\ x # posted[u].id
  <2>1. posted' = [posted EXCEPT ![u].step = "sent"] /\ toSend' = toSend /\ posted[u].step = "created"
    BY <1>5 DEF BroadcastPosted
  <2>2. posted'[u].step = "sent" /\ \A v \in Reader \ {u} : posted'[v] = posted[v]
    BY <1>2, <2>1 DEF ChatTypeOK
  <2>3. PICK new : new = [id |-> x, step |-> "created"]
    OBVIOUS
  <2>4. new.step = "created" /\ new.id = x
    BY <2>3
  <2>5. \A v \in Reader : posted[v] = new /\ x = posted[u].id => v = u
    <3>1. posted[u].id = x => posted[u] = new
      BY <1>3, <2>1, <2>3
    <3>2. QED  BY <2>1, <3>1 DEF Senders
  <2>6. (\E v \in Reader : posted'[v] = new)
          <=> (\E v \in Reader : posted[v] = new) /\ x # posted[u].id
    <3>1. posted'[u] # new
      BY <2>2, <2>4
    <3>2. posted[u] = new => x = posted[u].id
      BY <2>4
    <3>3. QED  BY <2>2, <2>5, <3>1, <3>2
  <2>7. \A t \in Socket : toSend[t] = x => x # posted[u].id
    BY <2>1 DEF Senders
  <2>8. QED  BY <2>1, <2>3, <2>6, <2>7 DEF Pending
<1>6. QED  BY <1>4, <1>5

LEMMA ChatStart == ChatInit => ChatInv
<1> SUFFICES ASSUME ChatInit PROVE ChatInv
  OBVIOUS
<1>1. PagesInv
  BY PagesStart
<1>2. Senders
  BY DEF ChatInit, Senders, NotPosting, None
<1>3. ASSUME NEW s \in Socket PROVE Heard(s)
  <2>1. Got(s) = <<>> /\ ~InGroup(s) /\ screen[s] = <<>> /\ inbox[s] = <<>>
    BY <1>3 DEF ChatInit, Got, InGroup
  <2>2. IsInjective(Got(s)) /\ \A id : ~Contains(Got(s), id)
    BY <2>1 DEF IsInjective, Contains
  <2> HIDE DEF Got, InGroup
  <2>3. QED  BY <2>1, <2>2 DEF Heard
<1>4. QED  BY <1>1, <1>2, <1>3 DEF ChatInv

\* The steps that send nothing and lose nothing.
LEMMA HeardQuiet ==
  ASSUME ChatTypeOK, NEW s \in Socket, Heard(s), UNCHANGED <<messages, toSend, posted, lost>>,
         Got(s)' = Got(s), screen[s] = <<>> /\ inbox[s] = <<>> => screen'[s] = <<>> /\ inbox'[s] = <<>>,
         since'[s] = since[s], InGroup(s)' <=> InGroup(s)
  PROVE  Heard(s)'
<1>1. \A id \in Id : Pending(id)' <=> Pending(id)
  BY DEF Pending
<1>2. Len(messages) <= MaxMessages
  BY DEF ChatTypeOK
<1> HIDE DEF Pending, Got, InGroup
<1>3. QED  BY <1>1, <1>2, HeardSame

LEMMA HeardStep ==
  ASSUME ChatInv, [ChatNext]_chatVars, NEW s \in Socket
  PROVE  Heard(s)'
<1> USE DEF sending, onSockets, onPages, Free
<1>1. ChatTypeOK /\ PostsNumbered /\ Senders /\ Heard(s)
  BY DEF ChatInv, PagesInv
<1>2. screen[s] \in Seq(Id) /\ inbox[s] \in Seq(Id) /\ Len(messages) <= MaxMessages
  BY <1>1 DEF ChatTypeOK
<1>3. ASSUME UNCHANGED <<messages, toSend, posted, lost>>,
             screen'[s] = screen[s], inbox'[s] = inbox[s], since'[s] = since[s],
             InGroup(s)' <=> InGroup(s)
      PROVE  Heard(s)'
  <2>1. Got(s)' = Got(s)
    BY <1>3 DEF Got
  <2>2. QED  BY <1>1, <1>3, <2>1, HeardQuiet
<1>4. ASSUME NEW t \in Socket, Connect(t) PROVE Heard(s)'
  <2>1. CASE t = s
    <3>1. ~InGroup(s) /\ since'[s] = Len(messages) /\ screen[s] = <<>> /\ inbox[s] = <<>>
      BY <1>1, <1>4, <2>1 DEF Connect, InGroup, Heard, ChatTypeOK
    <3>2. UNCHANGED <<messages, screen, inbox>>
      BY <1>4 DEF Connect
    <3>3. Got(s)' = <<>>
      BY <3>1, <3>2 DEF Got
    <3>4. IsInjective(Got(s))' /\ \A id : ~Contains(Got(s), id)'
      BY <3>3 DEF IsInjective, Contains
    <3>5. \A id \in 1..Len(messages') : ~(id > since'[s])
      BY <1>1, <3>1, <3>2 DEF ChatTypeOK
    <3> HIDE DEF Pending, Got, InGroup
    <3>6. QED  BY <3>1, <3>2, <3>4, <3>5 DEF Heard
  <2>2. CASE t # s
    BY <1>1, <1>3, <1>4, <2>2 DEF Connect, InGroup, ChatTypeOK
  <2>3. QED  BY <2>1, <2>2
<1>5. ASSUME NEW t \in Socket, SetOnline(t) \/ SetOffline(t) \/ Heartbeat(t) PROVE Heard(s)'
  BY <1>1, <1>3, <1>5 DEF SetOnline, SetOffline, Heartbeat, InGroup, ChatTypeOK
<1>6. ASSUME NEW t \in Socket, Forget(t) PROVE
             IF t = s THEN screen'[s] = <<>> /\ inbox'[s] = <<>>
             ELSE screen'[s] = screen[s] /\ inbox'[s] = inbox[s] /\ since'[s] = since[s]
  BY <1>1, <1>6 DEF Forget, ChatTypeOK
<1>7. ASSUME NEW t \in Socket, Disconnect(t) PROVE Heard(s)'
  <2>1. CASE t = s
    <3>1. ~InGroup(s)'
      BY <1>1, <1>7, <2>1 DEF Disconnect, InGroup, ChatTypeOK
    <3>2. QED  BY <1>6, <1>7, <2>1, <3>1, HeardNothing DEF Disconnect
  <2>2. CASE t # s
    BY <1>1, <1>3, <1>6, <1>7, <2>2 DEF Disconnect, InGroup, ChatTypeOK
  <2>3. QED  BY <2>1, <2>2
<1>8. ASSUME NEW t \in Socket, LoseSocket(t) PROVE Heard(s)'
  <2>1. CASE t = s
    <3>1. ~InGroup(s)'
      BY <1>1, <1>8, <2>1 DEF LoseSocket, InGroup, ChatTypeOK
    <3>2. QED  BY <1>6, <1>8, <2>1, <3>1, HeardNothing DEF LoseSocket
  <2>2. CASE t # s
    <3>1. /\ screen'[s] = screen[s] /\ inbox'[s] = inbox[s] /\ since'[s] = since[s]
          /\ sockets'[s] = sockets[s]
      BY <1>1, <1>6, <1>8, <2>2 DEF LoseSocket, ChatTypeOK
    <3>2. Got(s)' = Got(s) /\ (InGroup(s)' <=> InGroup(s))
      BY <3>1 DEF Got, InGroup
    <3>3. /\ messages' = messages /\ posted' = posted /\ lost' = lost \cup ({toSend[t]} \ {None})
          /\ toSend' = [toSend EXCEPT ![t] = None]
      BY <1>8 DEF LoseSocket
    <3>4. \A id \in Id : Pending(id)' => Pending(id)
      BY <1>1, <3>3 DEF Pending, ChatTypeOK, Id, None
    <3>5. \A id \in Id : Pending(id) => Pending(id)' \/ id \in lost'
      BY <1>1, <3>3 DEF Pending, ChatTypeOK, Id, None
    <3> HIDE DEF Pending, Got, InGroup
    <3>6. lost \subseteq lost' /\ (screen[s] = <<>> /\ inbox[s] = <<>> => screen'[s] = <<>> /\ inbox'[s] = <<>>)
      BY <3>1, <3>3
    <3>7. QED  BY <1>1, <1>2, <3>1, <3>2, <3>3, <3>4, <3>5, <3>6, HeardSame
  <2>3. QED  BY <2>1, <2>2
<1>9. ASSUME NEW t \in Socket, CreateMessage(t) PROVE Heard(s)'
  <2>1. PartyOf[t] \in Party
    BY ChatAssumption
  <2>2. Len(messages') = Len(messages) + 1 /\ Len(messages') \in Id /\ Len(messages') # None
    BY <1>1, <1>9, <2>1, NewNumber DEF CreateMessage
  <2>3. /\ toSend' = [toSend EXCEPT ![t] = Len(messages')] /\ toSend[t] = None
        /\ UNCHANGED <<posted, sockets, inbox, since, screen, lost>>
    BY <1>9 DEF CreateMessage
  <2>4. \A id \in Id : Pending(id)' <=> Pending(id) \/ id = Len(messages')
    BY <1>1, <2>2, <2>3 DEF Pending, ChatTypeOK, Id, None
  <2>5. QED  BY <1>1, <2>2, <2>3, <2>4, HeardNew
<1>10. ASSUME NEW u \in Reader, PostMessage(u) PROVE Heard(s)'
  <2>1. u \in Party
    BY ChatAssumption
  <2>2. Len(messages') = Len(messages) + 1 /\ Len(messages') \in Id /\ Len(messages') # None
    BY <1>1, <1>10, <2>1, NewNumber DEF PostMessage
  <2>3. /\ posted' = [posted EXCEPT ![u] = [id |-> Len(messages'), step |-> "created"]]
        /\ posted[u] = NotPosting
        /\ UNCHANGED <<toSend, sockets, inbox, since, screen, lost>>
    BY <1>10 DEF PostMessage
  <2>4. ASSUME NEW id \in Id PROVE Pending(id)' <=> Pending(id) \/ id = Len(messages')
    <3>1. PICK new : new = [id |-> Len(messages'), step |-> "created"]
      OBVIOUS
    <3>2. PICK one : one = [id |-> id, step |-> "created"]
      OBVIOUS
    <3>3. one.step = "created" /\ (one = new <=> id = Len(messages'))
      BY <3>1, <3>2
    <3>4. posted[u] # one
      BY <2>3, <3>3 DEF NotPosting
    <3>5. posted'[u] = new /\ \A v \in Reader \ {u} : posted'[v] = posted[v]
      BY <1>1, <2>3, <3>1 DEF ChatTypeOK
    <3>6. (\E v \in Reader : posted'[v] = one) <=> (\E v \in Reader : posted[v] = one) \/ id = Len(messages')
      BY <3>3, <3>4, <3>5
    <3>7. QED  BY <2>3, <3>2, <3>6 DEF Pending
  <2>5. QED  BY <1>1, <2>2, <2>3, <2>4, HeardNew
<1>11. ASSUME NEW t \in Socket, SendEvent(t) PROVE Heard(s)'
  <2>1. toSend[t] \in Id /\ toSend[t] <= Len(messages) /\ Pending(toSend[t])
    BY <1>1, <1>11 DEF SendEvent, ChatTypeOK, Senders, Pending
  <2>2. \A x \in Id : Pending(x)' <=> Pending(x) /\ x # toSend[t]
    BY <1>1, <1>11, SentOnce
  <2>3. GroupSend(toSend[t]) /\ UNCHANGED <<messages, sockets, since, screen, lost>>
    BY <1>11 DEF SendEvent
  <2>4. QED  BY <1>1, <2>1, <2>2, <2>3, HeardSent
<1>12. ASSUME NEW u \in Reader, BroadcastPosted(u) PROVE Heard(s)'
  <2>1. posted[u] \in [id : Id \cup {None}, step : {"idle", "created", "sent"}] /\ posted[u].step = "created"
    BY <1>1, <1>12 DEF BroadcastPosted, ChatTypeOK
  <2>2. posted[u] = [id |-> posted[u].id, step |-> "created"]
    BY <2>1
  <2>3. posted[u].id \in Id /\ posted[u].id <= Len(messages) /\ Pending(posted[u].id)
    BY <1>1, <2>1, <2>2 DEF PostsNumbered, Senders, Pending
  <2>4. \A x \in Id : Pending(x)' <=> Pending(x) /\ x # posted[u].id
    BY <1>1, <1>12, SentOnce
  <2>5. GroupSend(posted[u].id) /\ UNCHANGED <<messages, sockets, since, screen, lost>>
    BY <1>12 DEF BroadcastPosted
  <2>6. QED  BY <1>1, <2>3, <2>4, <2>5, HeardSent
<1>13. ASSUME NEW t \in Socket, DeliverEvent(t) PROVE Heard(s)'
  <2>1. CASE t = s
    <3>1. inbox[s] # <<>> /\ sockets' = sockets /\ since' = since /\ UNCHANGED <<messages, toSend, posted, lost>>
          /\ screen'[s] = Append(screen[s], Head(inbox[s])) /\ inbox'[s] = Tail(inbox[s])
      BY <1>1, <1>13, <2>1 DEF DeliverEvent, ChatTypeOK
    <3>2. PICK p \in Seq(Id), q \in Seq(Id) : p = screen[s] /\ q = inbox[s]
      BY <1>2
    <3>3. Append(p, Head(q)) \o Tail(q) = p \o q
      BY <3>1, <3>2, HandOver
    <3>4. Got(s)' = Got(s)
      BY <3>1, <3>2, <3>3 DEF Got
    <3>5. InGroup(s)' <=> InGroup(s)
      BY <3>1 DEF InGroup
    <3> HIDE DEF Got, InGroup
    <3>6. QED  BY <1>1, <3>1, <3>4, <3>5, HeardQuiet
  <2>2. CASE t # s
    BY <1>1, <1>3, <1>13, <2>2 DEF DeliverEvent, InGroup, ChatTypeOK
  <2>3. QED  BY <2>1, <2>2
<1>14. ASSUME NEW u \in Reader, ShowPosted(u) \/ LosePosted(u) PROVE Heard(s)'
  <2>1. /\ posted' = [posted EXCEPT ![u] = NotPosting] /\ UNCHANGED <<messages, toSend, onSockets>>
        /\ lost \subseteq lost' /\ (posted[u].step = "created" => posted[u].id \in lost')
    BY <1>14 DEF ShowPosted, LosePosted
  <2>2. Got(s)' = Got(s) /\ (InGroup(s)' <=> InGroup(s)) /\ since'[s] = since[s]
        /\ screen'[s] = screen[s] /\ inbox'[s] = inbox[s]
    BY <2>1 DEF Got, InGroup
  <2>3. ASSUME NEW id \in Id PROVE (Pending(id)' => Pending(id)) /\ (Pending(id) => Pending(id)' \/ id \in lost')
    <3>1. PICK one : one = [id |-> id, step |-> "created"]
      OBVIOUS
    <3>2. one.step = "created" /\ one.id = id /\ one # NotPosting
      BY <3>1 DEF NotPosting
    <3>3. posted'[u] = NotPosting /\ \A v \in Reader \ {u} : posted'[v] = posted[v]
      BY <1>1, <2>1 DEF ChatTypeOK
    <3>4. posted[u] = one => id \in lost'
      BY <2>1, <3>2
    <3>5. (\E v \in Reader : posted'[v] = one) => \E v \in Reader : posted[v] = one
      BY <3>2, <3>3
    <3>6. (\E v \in Reader : posted[v] = one) => (\E v \in Reader : posted'[v] = one) \/ id \in lost'
      BY <3>3, <3>4
    <3>7. QED  BY <2>1, <3>1, <3>5, <3>6 DEF Pending
  <2> HIDE DEF Pending, Got, InGroup
  <2>4. QED  BY <1>1, <1>2, <2>1, <2>2, <2>3, HeardSame
<1>15. ASSUME NEW u \in Reader, Poll(u) \/ ShowPolled(u) \/ LosePolled(u) \/ ReloadPage(u) PROVE Heard(s)'
  BY <1>3, <1>15 DEF Poll, ShowPolled, LosePolled, ReloadPage, InGroup
<1>16. ASSUME NEW u \in Party, ExpirePresence(u) PROVE Heard(s)'
  BY <1>3, <1>16 DEF ExpirePresence, InGroup
<1>17. CASE UNCHANGED chatVars
  BY <1>3, <1>17 DEF chatVars, InGroup
<1>18. QED
  BY <1>4, <1>5, <1>7, <1>8, <1>9, <1>10, <1>11, <1>12, <1>13, <1>14, <1>15, <1>16, <1>17 DEF ChatNext

\* An open socket's client gets every message there is since it joined, once,
\* unless the process was lost between a row and its event.
THEOREM EveryMessageOnce == ChatSpec => []NothingMissed
<1>1. ChatInv /\ [ChatNext]_chatVars => ChatInv'
  <2> SUFFICES ASSUME ChatInv, [ChatNext]_chatVars PROVE ChatInv'
    OBVIOUS
  <2>1. ASSUME NEW s \in Socket PROVE Heard(s)'
    BY HeardStep
  <2>2. PagesInv' /\ Senders'
    BY PagesStep, SendersStep DEF ChatInv, PagesInv
  <2>3. QED  BY <2>1, <2>2 DEF ChatInv
<1>2. ChatInv => NothingMissed
  <2> SUFFICES ASSUME ChatInv, NEW s \in Socket, sockets[s] = "open"
               PROVE  /\ \A id \in DOMAIN messages : id > since[s] =>
                           Contains(screen[s], id) \/ OnTheWay(id, s) \/ id \in lost
                      /\ IsInjective(screen[s] \o inbox[s])
    BY DEF NothingMissed
  <2>1. Heard(s) /\ messages \in Seq(Party) /\ screen[s] \in Seq(Id) /\ inbox[s] \in Seq(Id)
    BY DEF ChatInv, PagesInv, ChatTypeOK
  <2>2. IsInjective(screen[s] \o inbox[s])
    BY <2>1 DEF Heard, Got
  <2>3. ASSUME NEW id \in DOMAIN messages, id > since[s]
        PROVE  Contains(screen[s], id) \/ OnTheWay(id, s) \/ id \in lost
    <3>1. Contains(Got(s), id) \/ Pending(id) \/ id \in lost
      BY <2>1, <2>3 DEF Heard, InGroup
    <3>2. ASSUME Contains(Got(s), id) PROVE Contains(screen[s], id) \/ Contains(inbox[s], id)
      <4>1. PICK p \in Seq(Id), q \in Seq(Id) : p = screen[s] /\ q = inbox[s]
        BY <2>1
      <4>2. PICK i \in 1..Len(p \o q) : (p \o q)[i] = id
        BY <3>2, <4>1 DEF Contains, Got
      <4>3. CASE i <= Len(p)
        BY <4>1, <4>2, <4>3 DEF Contains
      <4>4. CASE ~(i <= Len(p))
        <5>1. i - Len(p) \in 1..Len(q) /\ q[i - Len(p)] = id
          BY <4>2, <4>4
        <5>2. QED  BY <4>1, <5>1 DEF Contains
      <4>5. QED  BY <4>3, <4>4
    <3>3. QED  BY <3>1, <3>2 DEF OnTheWay, Pending
  <2>4. QED  BY <2>2, <2>3
<1>3. QED  BY <1>1, <1>2, ChatStart, PTL DEF ChatSpec

-----------------------------------------------------------------------------
(* Payments: what the gateways have in common *)

USE PaymentsAssumption DEF shop, provider, Notice, OrdersOf, Gateway

StartPayment(i) ==
  \E method \in Gateway, orders \in SUBSET OrdersOf(i), next \in {"open", "closed"} :
    Begin(i, method, orders, next)

LEMMA GatewaysStart ==
  ASSUME NEW i \in Intent, CreatePaymentIntent(i) \/ BuildJazzCash(i) \/ BuildEasyPaisa(i)
  PROVE  StartPayment(i)
<1> HIDE DEF OrdersOf
<1>1. CASE CreatePaymentIntent(i)
  BY <1>1 DEF CreatePaymentIntent, StartPayment
<1>2. CASE BuildJazzCash(i)
  BY <1>2 DEF BuildJazzCash, BuildRequest, StartPayment
<1>3. CASE BuildEasyPaisa(i)
  BY <1>3 DEF BuildEasyPaisa, BuildRequest, StartPayment
<1>4. QED  BY <1>1, <1>2, <1>3

LEMMA GatewaysSettle ==
  ASSUME NEW n, HandleWebhookEvent(n) \/ HandleJazzCash(n) \/ HandleEasyPaisa(n)
  PROVE  Settle(n)
BY DEF HandleWebhookEvent, HandleJazzCash, HandleEasyPaisa

-----------------------------------------------------------------------------
(* Type correctness *)

LEMMA InitTypeOK == Init => TypeOK
BY DEF Init, TypeOK

LEMMA TellType ==
  ASSUME TypeOK, NEW i \in Intent, NEW succeeded \in BOOLEAN, Tell(i, succeeded)
  PROVE  notices' \subseteq Notice
<1>1. [intent |-> i, succeeded |-> succeeded] \in Notice
  OBVIOUS
<1>2. notices \subseteq Notice
  BY DEF TypeOK
<1> HIDE DEF Notice
<1>3. QED  BY <1>1, <1>2, Zenon DEF Tell

LEMMA NextTypeOK == TypeOK /\ [Next]_vars => TypeOK'
<1> SUFFICES ASSUME TypeOK, [Next]_vars PROVE TypeOK'
  OBVIOUS
<1> USE DEF TypeOK
<1>1. ASSUME NEW i \in Intent, StartPayment(i) PROVE TypeOK'
  BY <1>1 DEF StartPayment, Begin
<1>2. ASSUME NEW i \in Intent, Decline(i) PROVE TypeOK'
  <2>1. intent' \in [Intent -> {"none", "open", "closed", "captured"}]
    BY <1>2 DEF Decline
  <2>2. declines' \in [Intent -> 0..MaxDeclines]
    BY <1>2 DEF Decline
  <2>3. notices' \subseteq Notice
    BY <1>2, TellType DEF Decline
  <2>4. QED  BY <1>2, <2>1, <2>2, <2>3 DEF Decline
<1>3. ASSUME NEW i \in Intent, Capture(i) PROVE TypeOK'
  <2>1. intent' \in [Intent -> {"none", "open", "closed", "captured"}]
    BY <1>3 DEF Capture
  <2>2. notices' \subseteq Notice
    BY <1>3, TellType DEF Capture
  <2>3. QED  BY <1>3, <2>1, <2>2 DEF Capture
<1>4. ASSUME NEW n \in notices, LoseNotice(n) PROVE TypeOK'
  BY <1>4 DEF LoseNotice
<1>5. ASSUME NEW n \in notices, Settle(n) PROVE TypeOK'
  <2>1. payment' \in [Order -> {"pending", "paid", "failed", "refunded"}]
    BY <1>5 DEF Settle, Outcome
  <2>2. txn' \in [Order -> {"none", "pending", "success", "failed"}]
    BY <1>5 DEF Settle
  <2>3. status' \in [Order -> {"pending", "processing", "cancelled"}]
    BY <1>5 DEF Settle
  <2>4. notices' \subseteq Notice
    BY <1>5 DEF Settle
  <2>5. QED  BY <1>5, <2>1, <2>2, <2>3, <2>4 DEF Settle
<1>6. ASSUME NEW o \in Order, ConfirmByHand(o) \/ Cancel(o) PROVE TypeOK'
  BY <1>6 DEF ConfirmByHand, Cancel
<1>7. ASSUME NEW o \in Order, RefundToWallet(o) PROVE TypeOK'
  BY <1>7 DEF RefundToWallet
<1>8. ASSUME NEW o \in Order, RefundToCard(o) PROVE TypeOK'
  BY <1>8 DEF RefundToCard, AsksProvider, Stripe
<1>9. ASSUME NEW o \in Order, RefundUnrecorded(o) PROVE TypeOK'
  BY <1>9 DEF RefundUnrecorded, AsksProvider, Stripe
<1>10. CASE UNCHANGED vars
  BY <1>10 DEF vars
<1>11. QED
  BY <1>1, <1>2, <1>3, <1>4, <1>5, <1>6, <1>7, <1>8, <1>9, <1>10, GatewaysStart, GatewaysSettle DEF Next

\* Payments, transactions and orders only ever take the states they declare.
THEOREM TypeCorrect == Spec => []TypeOK
BY InitTypeOK, NextTypeOK, PTL DEF Spec

-----------------------------------------------------------------------------
(* Paid means captured *)

\* A notice of success is true, and stays true.
NoticesTrue == \A n \in notices : n.succeeded => intent[n.intent] = "captured"

CapturedInv == NoticesTrue /\ PaidMeansCaptured

LEMMA CapturedStep == TypeOK /\ CapturedInv /\ [Next]_vars => CapturedInv'
<1> SUFFICES ASSUME TypeOK, CapturedInv, [Next]_vars PROVE CapturedInv'
  OBVIOUS
<1> USE DEF TypeOK, CapturedInv, NoticesTrue, PaidMeansCaptured
<1>1. ASSUME NEW i \in Intent, StartPayment(i) PROVE CapturedInv'
  BY <1>1 DEF StartPayment, Begin
<1>2. ASSUME NEW i \in Intent, Decline(i) PROVE CapturedInv'
  BY <1>2 DEF Decline, Tell
<1>3. ASSUME NEW i \in Intent, Capture(i) PROVE CapturedInv'
  BY <1>3 DEF Capture, Tell
<1>4. ASSUME NEW n \in notices, LoseNotice(n) PROVE CapturedInv'
  BY <1>4 DEF LoseNotice
<1>5. ASSUME NEW n \in notices, Settle(n) PROVE CapturedInv'
  <2>1. intent' = intent /\ notices' \subseteq notices
    BY <1>5 DEF Settle
  <2>2. NoticesTrue'
    BY <2>1
  <2>3. ASSUME NEW o \in Order, payment'[o] = "paid" \/ txn'[o] = "success"
        PROVE  IntentOf[o] \in Intent /\ intent[IntentOf[o]] = "captured"
    <3>1. CASE o \in ToSettle(n.intent)
      <4>1. IntentOf[o] = n.intent /\ n.intent \in Intent
        BY <3>1 DEF ToSettle
      <4>2. n.succeeded
        BY <1>5, <2>3, <3>1 DEF Settle, Outcome
      <4>3. QED  BY <4>1, <4>2
    <3>2. CASE o \notin ToSettle(n.intent)
      BY <1>5, <2>3, <3>2 DEF Settle
    <3>3. QED  BY <3>1, <3>2
  <2>4. QED  BY <2>1, <2>2, <2>3
<1>6. ASSUME NEW o \in Order, ConfirmByHand(o) \/ Cancel(o) PROVE CapturedInv'
  BY <1>6 DEF ConfirmByHand, Cancel
<1>7. ASSUME NEW o \in Order, RefundToWallet(o) PROVE CapturedInv'
  BY <1>7 DEF RefundToWallet
<1>8. ASSUME NEW o \in Order, RefundToCard(o) PROVE CapturedInv'
  BY <1>8 DEF RefundToCard, AsksProvider
<1>9. ASSUME NEW o \in Order, RefundUnrecorded(o) PROVE CapturedInv'
  BY <1>9 DEF RefundUnrecorded, AsksProvider
<1>10. CASE UNCHANGED vars
  BY <1>10 DEF vars
<1>11. QED
  BY <1>1, <1>2, <1>3, <1>4, <1>5, <1>6, <1>7, <1>8, <1>9, <1>10, GatewaysStart, GatewaysSettle DEF Next

\* However notices are repeated, reordered or lost, the shop never counts an
\* order as paid without the provider having captured its payment.
THEOREM NeverPaidForNothing == Spec => []PaidMeansCaptured
<1>1. Init => CapturedInv
  BY DEF Init, CapturedInv, NoticesTrue, PaidMeansCaptured
<1>2. CapturedInv => PaidMeansCaptured
  BY DEF CapturedInv
<1>3. QED  BY <1>1, <1>2, CapturedStep, TypeCorrect, PTL DEF Spec

-----------------------------------------------------------------------------
(* Notices settle a transaction once *)

SettledKept ==
  \A o \in Order :
    /\ txn[o] \in {"success", "failed"} => txn'[o] = txn[o]
    /\ status[o] = "cancelled" => status'[o] = "cancelled"

StartedInv ==
  \A o \in Order :
    txn[o] # "none" => IntentOf[o] \in Intent /\ intent[IntentOf[o]] # "none"

LEMMA StartedStep == TypeOK /\ StartedInv /\ [Next]_vars => StartedInv'
<1> SUFFICES ASSUME TypeOK, StartedInv, [Next]_vars PROVE StartedInv'
  OBVIOUS
<1> USE DEF TypeOK, StartedInv
<1>1. ASSUME NEW i \in Intent, StartPayment(i) PROVE StartedInv'
  <2>1. PICK method \in Gateway, orders \in SUBSET OrdersOf(i), next \in {"open", "closed"} :
          Begin(i, method, orders, next)
    BY <1>1 DEF StartPayment
  <2>2. \A j \in Intent : intent[j] # "none" \/ j = i => intent'[j] # "none"
    BY <2>1 DEF Begin
  <2>3. \A o \in Order : txn'[o] # "none" => o \in OrdersOf(i) \/ txn[o] # "none"
    BY <2>1 DEF Begin
  <2>4. ASSUME NEW o \in Order, txn'[o] # "none"
        PROVE  IntentOf[o] \in Intent /\ intent'[IntentOf[o]] # "none"
    <3>1. CASE o \in OrdersOf(i)
      BY <2>2, <3>1
    <3>2. CASE txn[o] # "none"
      BY <2>2, <3>2
    <3>3. QED  BY <2>3, <2>4, <3>1, <3>2
  <2> HIDE DEF TypeOK, StartedInv, OrdersOf
  <2>5. QED  BY <2>4 DEF StartedInv
<1>2. ASSUME NEW i \in Intent, Decline(i) \/ Capture(i) PROVE StartedInv'
  <2>1. txn' = txn
    BY <1>2 DEF Decline, Capture
  <2>2. \A j \in Intent : intent[j] # "none" => intent'[j] # "none"
    BY <1>2 DEF Decline, Capture
  <2>3. QED  BY <2>1, <2>2
<1>3. ASSUME NEW n \in notices, LoseNotice(n) \/ Settle(n) PROVE StartedInv'
  BY <1>3 DEF LoseNotice, Settle, ToSettle
<1>4. ASSUME NEW o \in Order,
             \/ ConfirmByHand(o) \/ Cancel(o)
             \/ RefundToWallet(o) \/ RefundToCard(o) \/ RefundUnrecorded(o)
      PROVE  StartedInv'
  BY <1>4 DEF ConfirmByHand, Cancel, RefundToWallet, RefundToCard, RefundUnrecorded,
              AsksProvider
<1>5. CASE UNCHANGED vars
  BY <1>5 DEF vars
<1>6. QED  BY <1>1, <1>2, <1>3, <1>4, <1>5, GatewaysStart, GatewaysSettle DEF Next

LEMMA SettledKeptStep == TypeOK /\ StartedInv /\ [Next]_vars => [SettledKept]_vars
<1> SUFFICES ASSUME TypeOK, StartedInv, Next PROVE SettledKept
  OBVIOUS
<1> USE DEF TypeOK, SettledKept
<1>1. ASSUME NEW i \in Intent, StartPayment(i) PROVE SettledKept
  BY <1>1 DEF StartPayment, Begin, StartedInv
<1>2. ASSUME NEW i \in Intent, Decline(i) \/ Capture(i) PROVE SettledKept
  BY <1>2 DEF Decline, Capture
<1>3. ASSUME NEW n \in notices, LoseNotice(n) PROVE SettledKept
  BY <1>3 DEF LoseNotice
<1>4. ASSUME NEW n \in notices, Settle(n) PROVE SettledKept
  BY <1>4 DEF Settle, ToSettle, Confirms
<1>5. ASSUME NEW o \in Order, ConfirmByHand(o) \/ Cancel(o) PROVE SettledKept
  BY <1>5 DEF ConfirmByHand, Cancel
<1>6. ASSUME NEW o \in Order, RefundToWallet(o) \/ RefundToCard(o) \/ RefundUnrecorded(o)
      PROVE  SettledKept
  BY <1>6 DEF RefundToWallet, RefundToCard, RefundUnrecorded, AsksProvider
<1>7. QED  BY <1>1, <1>2, <1>3, <1>4, <1>5, <1>6, GatewaysStart, GatewaysSettle DEF Next

\* A transaction's outcome is final: no repeated, late or contradicting notice
\* changes it, nor brings a cancelled order back.
THEOREM OutcomeIsFinal == Spec => SettledOnce
<1>1. Init => StartedInv
  BY DEF Init, StartedInv
<1>2. Spec => [][SettledKept]_vars
  BY <1>1, StartedStep, SettledKeptStep, TypeCorrect, PTL DEF Spec
<1>3. QED  BY <1>2 DEF SettledOnce, SettledKept

-----------------------------------------------------------------------------
(* One refund per order, as long as staff wait for the payment's outcome *)

RefundInv ==
  \A o \in Order :
    /\ payment[o] = "refunded" => Settled(o) /\ credited[o] + returned[o] = 1
    /\ payment[o] # "refunded" => credited[o] + returned[o] = 0

LEMMA RefundStep ==
  ASSUME ~EagerRefunds, TypeOK, StartedInv, RefundInv, [Next]_vars
  PROVE  RefundInv'
<1> USE DEF TypeOK, RefundInv, Settled
<1>1. ASSUME NEW i \in Intent, StartPayment(i) PROVE RefundInv'
  BY <1>1 DEF StartPayment, Begin, StartedInv
<1>2. ASSUME NEW i \in Intent, Decline(i) \/ Capture(i) PROVE RefundInv'
  BY <1>2 DEF Decline, Capture
<1>3. ASSUME NEW n \in notices, LoseNotice(n) PROVE RefundInv'
  BY <1>3 DEF LoseNotice
<1>4. ASSUME NEW n \in notices, Settle(n) PROVE RefundInv'
  <2>1. ASSUME NEW o \in Order PROVE RefundInv!(o)'
    <3>1. CASE o \in ToSettle(n.intent)
      <4>1. payment[o] # "refunded"
        BY <3>1 DEF ToSettle
      <4>2. payment'[o] \in {"paid", "failed"}
        BY <1>4, <3>1 DEF Settle, Outcome
      <4>3. QED  BY <1>4, <4>1, <4>2 DEF Settle
    <3>2. CASE o \notin ToSettle(n.intent)
      BY <1>4, <3>2 DEF Settle
    <3>3. QED  BY <3>1, <3>2
  <2>2. QED  BY <2>1
<1>5. ASSUME NEW o \in Order, ConfirmByHand(o) \/ Cancel(o) PROVE RefundInv'
  BY <1>5 DEF ConfirmByHand, Cancel
<1>6. ASSUME NEW o \in Order, RefundToWallet(o) PROVE RefundInv'
  BY <1>6 DEF RefundToWallet, Refundable
<1>7. ASSUME NEW o \in Order, RefundToCard(o) PROVE RefundInv'
  BY <1>7 DEF RefundToCard, AsksProvider, Refundable
<1>8. ASSUME NEW o \in Order, RefundUnrecorded(o) PROVE RefundInv'
  BY <1>8 DEF RefundUnrecorded, AsksProvider
<1>9. CASE UNCHANGED vars
  BY <1>9 DEF vars
<1>10. QED
  BY <1>1, <1>2, <1>3, <1>4, <1>5, <1>6, <1>7, <1>8, <1>9, GatewaysStart, GatewaysSettle DEF Next

\* When staff refund only settled orders, no order is refunded twice, neither
\* to the wallet, nor to the card, nor once to each.
THEOREM NeverRefundedTwice ==
  ASSUME ~EagerRefunds
  PROVE  Spec => []RefundedOnce
<1>1. Init => StartedInv /\ RefundInv
  BY DEF Init, StartedInv, RefundInv
<1>2. TypeOK /\ StartedInv /\ RefundInv /\ [Next]_vars => RefundInv'
  BY RefundStep
<1>3. TypeOK /\ RefundInv => RefundedOnce
  BY DEF TypeOK, RefundInv, RefundedOnce
<1>4. QED  BY <1>1, <1>2, <1>3, StartedStep, TypeCorrect, PTL DEF Spec

-----------------------------------------------------------------------------
(* Inventory: columns written through the services, their locks *)

USE InventoryAssumption DEF Nothing, TransferStatus, Route

Transferring(c) == calls[c] # Idle /\ calls[c].do # "patch"
Moving(c) == calls[c] # Idle /\ calls[c].do = "put"
RouteOf(c) == transfers[calls[c].transfer].route

\* A transfer in hand has been created, between two warehouses.
InHandInv ==
  /\ \A c \in Call : Transferring(c) => transfers[calls[c].transfer].status # "none"
  /\ \A t \in Transfer :
       transfers[t].status # "none" => transfers[t].route.from # transfers[t].route.to

\* The source row of a request that has taken units out stays locked, and so
\* still holds what the request read there.
HeldInv ==
  \A c \in Call : Moving(c) =>
    /\ rowLock[RouteOf(c).from] = c
    /\ quantity[RouteOf(c).from] = calls[c].seen
    /\ calls[c].seen >= RouteOf(c).units

Inv == InventoryTypeOK /\ InHandInv /\ HeldInv /\ LogExplainsStock

\* The four changes of a single row, whatever they write.
OneRow(row) ==
  /\ Unlocked(row)
  /\ quantity' \in [Row -> Nat] /\ reserved' \in [Row -> Nat]
  /\ logged' \in [Row -> Int] /\ promised' \in [Row -> Int]
  /\ \A other \in Row \ {row} :
       /\ quantity'[other] = quantity[other] /\ reserved'[other] = reserved[other]
       /\ logged'[other] = logged[other] /\ promised'[other] = promised[other]
  /\ row \notin Edited =>
       /\ quantity'[row] - logged'[row] = quantity[row] - logged[row]
       /\ reserved'[row] - promised'[row] = reserved[row] - promised[row]
  /\ edits' \in 0..MaxEdits
  /\ UNCHANGED <<transfers, moved, rowLock>>

LEMMA OneRowStep ==
  ASSUME Inv, NEW row \in Row, OneRow(row),
         \A c \in Call : calls'[c] # calls[c] => calls'[c] = Idle,
         calls' \in [Call -> Job \cup {Idle}]
  PROVE  Inv'
<1>1. InventoryTypeOK'
  BY DEF Inv, InventoryTypeOK, OneRow
<1>2. ASSUME NEW c \in Call, Transferring(c)'
      PROVE  calls'[c] = calls[c] /\ Transferring(c) /\ calls[c].transfer \in Transfer
  BY <1>2 DEF Transferring, Inv, InventoryTypeOK, Job
<1>3. InHandInv'
  BY <1>2 DEF Inv, InHandInv, OneRow
<1>4. HeldInv'
  <2> SUFFICES ASSUME NEW c \in Call, Moving(c)'
               PROVE  /\ rowLock'[RouteOf(c)'.from] = c
                      /\ quantity'[RouteOf(c)'.from] = calls'[c].seen
                      /\ calls'[c].seen >= RouteOf(c)'.units
    BY DEF HeldInv
  <2>1. calls'[c] = calls[c] /\ Moving(c) /\ calls[c].transfer \in Transfer
    BY <1>2 DEF Moving, Transferring
  <2>2. RouteOf(c)' = RouteOf(c) /\ RouteOf(c).from \in Row
    BY <2>1 DEF RouteOf, OneRow, Inv, InventoryTypeOK
  <2>3. rowLock[RouteOf(c).from] = c /\ rowLock[row] = NoOne /\ c # NoOne
    BY <2>1 DEF Inv, HeldInv, OneRow, Unlocked
  <2>4. RouteOf(c).from # row
    BY <2>3
  <2>5. QED  BY <2>1, <2>2, <2>3, <2>4 DEF Inv, HeldInv, OneRow
<1>5. LogExplainsStock'
  <2> SUFFICES ASSUME NEW other \in Row \ Edited
               PROVE  /\ quantity'[other] = Stock[other] + logged'[other]
                      /\ reserved'[other] = promised'[other]
    BY DEF LogExplainsStock
  <2>1. /\ quantity[other] = Stock[other] + logged[other]
        /\ reserved[other] = promised[other]
    BY DEF Inv, LogExplainsStock
  <2>2. CASE other # row
    BY <2>1, <2>2 DEF OneRow
  <2>3. CASE other = row
    <3>1. /\ quantity'[row] \in Nat /\ logged'[row] \in Int
          /\ quantity[row] \in Nat /\ logged[row] \in Int /\ Stock[row] \in Nat
          /\ reserved'[row] \in Nat /\ promised'[row] \in Int
          /\ reserved[row] \in Nat /\ promised[row] \in Int
      BY DEF OneRow, Inv, InventoryTypeOK
    <3>2. /\ quantity'[row] - logged'[row] = quantity[row] - logged[row]
          /\ reserved'[row] - promised'[row] = reserved[row] - promised[row]
      BY <2>3 DEF OneRow
    <3>3. QED  BY <2>1, <2>3, <3>1, <3>2
  <2>4. QED  BY <2>2, <2>3
<1>6. QED  BY <1>1, <1>3, <1>4, <1>5 DEF Inv

LEMMA AdjustIsOneRow ==
  ASSUME Inv, NEW row \in Row, NEW delta \in Int, AdjustStock(row, delta)
  PROVE  OneRow(row) /\ calls' = calls
BY DEF Inv, InventoryTypeOK, AdjustStock, OneRow, Edit

LEMMA ReserveIsOneRow ==
  ASSUME Inv, NEW row \in Row, NEW n \in Amounts, ReserveStock(row, n) \/ ReleaseStock(row, n)
  PROVE  OneRow(row) /\ calls' = calls
BY DEF Inv, InventoryTypeOK, ReserveStock, ReleaseStock, Releasable, OneRow, Edit

LEMMA SetIsOneRow ==
  ASSUME Inv, NEW row \in Edited, NEW n \in 0..MaxUnits, SetQuantity(row, n)
  PROVE  OneRow(row) /\ calls' = calls
BY DEF Inv, InventoryTypeOK, SetQuantity, OneRow, Edit

LEMMA SaveIsOneRow ==
  ASSUME Inv, NEW c \in Call, SaveRow(c), calls[c].row \in Edited
  PROVE  OneRow(calls[c].row) /\ calls' = [calls EXCEPT ![c] = Idle]
<1>1. calls[c] \in [do : {"patch"}, row : Row, seen : Nat, seenReserved : Nat]
  BY DEF Inv, InventoryTypeOK, SaveRow, Job
<1>2. QED  BY <1>1 DEF Inv, InventoryTypeOK, SaveRow, OneRow

-----------------------------------------------------------------------------
(* Requests for a stock row or a transfer *)

\* A request that ends without a commit: no column changes.
LEMMA AbandonKeepsInv ==
  ASSUME Inv, NEW c \in Call, Abandon(c)
  PROVE  Inv'
<1>1. InventoryTypeOK'
  BY DEF Inv, InventoryTypeOK, Abandon, ReleaseLocks, columns
<1>2. ASSUME NEW d \in Call, Transferring(d)'
      PROVE  calls'[d] = calls[d] /\ Transferring(d) /\ d # c
  BY <1>2 DEF Transferring, Inv, InventoryTypeOK, Abandon
<1>3. InHandInv'
  BY <1>2 DEF Inv, InHandInv, Abandon, columns
<1>4. HeldInv'
  <2> SUFFICES ASSUME NEW d \in Call, Moving(d)'
               PROVE  /\ rowLock'[RouteOf(d)'.from] = d
                      /\ quantity'[RouteOf(d)'.from] = calls'[d].seen
                      /\ calls'[d].seen >= RouteOf(d)'.units
    BY DEF HeldInv
  <2>1. calls'[d] = calls[d] /\ Moving(d) /\ d # c /\ calls[d].transfer \in Transfer
    BY <1>2 DEF Moving, Transferring, Inv, InventoryTypeOK, Job
  <2>2. RouteOf(d)' = RouteOf(d) /\ RouteOf(d).from \in Row
    BY <2>1 DEF RouteOf, Abandon, columns, Inv, InventoryTypeOK
  <2>3. QED  BY <2>1, <2>2 DEF Inv, HeldInv, Abandon, ReleaseLocks, columns
<1>5. LogExplainsStock'
  BY DEF Inv, LogExplainsStock, Abandon, columns
<1>6. QED  BY <1>1, <1>3, <1>4, <1>5 DEF Inv

\* A request that starts to work on a transfer, or loads a row it may write.
LEMMA LoadTransferKeepsInv ==
  ASSUME Inv, NEW c \in Call, NEW t \in Transfer, NEW do \in {"take", "cancel"},
         LoadTransfer(c, t, do)
  PROVE  Inv'
<1>1. InventoryTypeOK'
  BY DEF Inv, InventoryTypeOK, LoadTransfer, columns, Job
<1>2. ASSUME NEW d \in Call, Moving(d)'
      PROVE  calls'[d] = calls[d] /\ Moving(d)
  BY <1>2 DEF Moving, Inv, InventoryTypeOK, LoadTransfer
<1>3. InHandInv'
  BY DEF Inv, InventoryTypeOK, InHandInv, Transferring, LoadTransfer, StillPending, columns
<1>4. HeldInv'
  BY <1>2 DEF Inv, HeldInv, RouteOf, LoadTransfer, columns
<1>5. LogExplainsStock'
  BY DEF Inv, LogExplainsStock, LoadTransfer, columns
<1>6. QED  BY <1>1, <1>3, <1>4, <1>5 DEF Inv

LEMMA CreateKeepsInv ==
  ASSUME Inv, NEW t \in Transfer, NEW route \in Route, CreateTransfer(t, route)
  PROVE  Inv'
<1>1. InventoryTypeOK'
  BY DEF Inv, InventoryTypeOK, CreateTransfer
<1>2. ASSUME NEW d \in Call, Transferring(d)
      PROVE  calls[d].transfer \in Transfer \ {t}
  BY <1>2 DEF Inv, InHandInv, Transferring, InventoryTypeOK, Job, CreateTransfer
<1>3. InHandInv'
  BY <1>2 DEF Inv, InventoryTypeOK, InHandInv, Transferring, CreateTransfer
<1>4. HeldInv'
  BY <1>2 DEF Inv, InventoryTypeOK, HeldInv, Moving, Transferring, RouteOf, CreateTransfer
<1>5. LogExplainsStock'
  BY DEF Inv, LogExplainsStock, CreateTransfer
<1>6. QED  BY <1>1, <1>3, <1>4, <1>5 DEF Inv

LEMMA CancelKeepsInv ==
  ASSUME Inv, NEW c \in Call, CancelTransfer(c)
  PROVE  Inv'
<1>1. calls[c].transfer \in Transfer
  BY DEF CancelTransfer, Inv, InventoryTypeOK, Job
<1>2. InventoryTypeOK'
  BY <1>1 DEF Inv, InventoryTypeOK, CancelTransfer
<1>3. ASSUME NEW d \in Call, Transferring(d)'
      PROVE  calls'[d] = calls[d] /\ Transferring(d) /\ calls[d].transfer \in Transfer
  BY <1>3 DEF Transferring, Inv, InventoryTypeOK, CancelTransfer, Job
<1>4. \A t \in Transfer : /\ transfers'[t].route = transfers[t].route
                          /\ transfers[t].status # "none" => transfers'[t].status # "none"
  BY <1>1 DEF CancelTransfer, Inv, InventoryTypeOK
<1>5. InHandInv'
  <2>1. transfers[calls[c].transfer].status # "none"
    BY DEF CancelTransfer, Inv, InHandInv, Transferring
  <2>2. \A t \in Transfer : transfers'[t].status # "none" => transfers[t].status # "none"
    BY <1>1, <2>1 DEF CancelTransfer, Inv, InventoryTypeOK
  <2>3. QED  BY <1>3, <1>4, <2>2 DEF Inv, InHandInv
<1>6. HeldInv'
  BY <1>3, <1>4 DEF Inv, HeldInv, Moving, Transferring, RouteOf, CancelTransfer
<1>7. LogExplainsStock'
  BY DEF Inv, LogExplainsStock, CancelTransfer
<1>8. QED  BY <1>2, <1>5, <1>6, <1>7 DEF Inv

LEMMA TakeOutKeepsInv ==
  ASSUME Inv, NEW c \in Call, TakeOut(c)
  PROVE  Inv'
<1> DEFINE from == RouteOf(c).from
<1>1. /\ calls[c] \in [do : {"take", "put", "cancel"}, transfer : Transfer, seen : Int]
      /\ RouteOf(c) \in Route
  BY DEF TakeOut, Inv, InventoryTypeOK, Job, RouteOf
<1>2. /\ calls' = [calls EXCEPT ![c] = [do |-> "put", transfer |-> calls[c].transfer,
                                        seen |-> quantity[from]]]
      /\ rowLock' = [rowLock EXCEPT ![from] = c]
      /\ rowLock[from] = NoOne /\ quantity[from] >= RouteOf(c).units
      /\ UNCHANGED <<columns, edits>>
  BY <1>1 DEF TakeOut, RouteOf, Unlocked
<1>3. InventoryTypeOK'
  BY <1>1, <1>2 DEF Inv, InventoryTypeOK, Job, columns
<1>4. InHandInv'
  <2>1. transfers[calls[c].transfer].status # "none"
    BY DEF TakeOut, Inv, InHandInv, Transferring
  <2>2. QED  BY <1>2, <2>1 DEF Inv, InventoryTypeOK, InHandInv, Transferring, columns
<1>5. HeldInv'
  <2> SUFFICES ASSUME NEW d \in Call, Moving(d)'
               PROVE  /\ rowLock'[RouteOf(d)'.from] = d
                      /\ quantity'[RouteOf(d)'.from] = calls'[d].seen
                      /\ calls'[d].seen >= RouteOf(d)'.units
    BY DEF HeldInv
  <2>1. CASE d = c
    <3>1. RouteOf(c)' = RouteOf(c) /\ calls'[c].seen = quantity[from]
      BY <1>2 DEF RouteOf, columns, Inv, InventoryTypeOK
    <3>2. QED  BY <1>1, <1>2, <2>1, <3>1 DEF Inv, InventoryTypeOK, columns
  <2>2. CASE d # c
    <3>1. calls'[d] = calls[d] /\ Moving(d) /\ RouteOf(d)' = RouteOf(d)
      BY <1>2, <2>2 DEF Moving, RouteOf, columns, Inv, InventoryTypeOK
    <3>2. rowLock[RouteOf(d).from] = d /\ RouteOf(d).from # from
      BY <1>2, <3>1 DEF Inv, HeldInv
    <3>3. QED  BY <1>1, <1>2, <3>1, <3>2 DEF Inv, InventoryTypeOK, HeldInv, columns
  <2>3. QED  BY <2>1, <2>2
<1>6. LogExplainsStock'
  BY <1>2 DEF Inv, LogExplainsStock, columns
<1>7. QED  BY <1>3, <1>4, <1>5, <1>6 DEF Inv

\* The row put in was read and written under its lock, the row taken from has
\* been locked since it was read: both log rows say what really changed.
LEMMA PutInKeepsInv ==
  ASSUME Inv, NEW c \in Call, PutIn(c)
  PROVE  Inv'
<1> DEFINE from == RouteOf(c).from
           to   == RouteOf(c).to
           n    == RouteOf(c).units
<1>1. /\ calls[c] \in [do : {"take", "put", "cancel"}, transfer : Transfer, seen : Int]
      /\ from \in Row /\ to \in Row /\ n \in Nat /\ n > 0
      /\ Moving(c) /\ Transferring(c)
  BY DEF PutIn, Inv, InventoryTypeOK, Job, RouteOf, Moving, Transferring
<1>2. /\ from # to
      /\ rowLock[from] = c /\ quantity[from] = calls[c].seen /\ calls[c].seen >= n
      /\ rowLock[to] = NoOne
  BY <1>1 DEF PutIn, Inv, InHandInv, HeldInv, RouteOf, Unlocked
<1>3. /\ quantity' = [quantity EXCEPT ![from] = quantity[from] - n, ![to] = quantity[to] + n]
      /\ logged' = [logged EXCEPT ![from] = logged[from] - n, ![to] = logged[to] + n]
  BY <1>1, <1>2 DEF PutIn, RouteOf, Inv, InventoryTypeOK
<1>4. InventoryTypeOK'
  <2>1. quantity' \in [Row -> Nat]
    <3>1. quantity[from] - n \in Nat /\ quantity[to] + n \in Nat
      BY <1>1, <1>2 DEF Inv, InventoryTypeOK
    <3> HIDE DEF from, to, n
    <3>2. QED  BY <1>1, <1>3, <3>1 DEF Inv, InventoryTypeOK
  <2>2. logged' \in [Row -> Int]
    BY <1>1, <1>3 DEF Inv, InventoryTypeOK
  <2>3. transfers' \in [Transfer -> [status : TransferStatus, route : Route]]
    BY <1>1 DEF PutIn, Inv, InventoryTypeOK
  <2>4. moved' \in [Transfer -> Nat] /\ rowLock' \in [Row -> Call \cup {NoOne}]
    BY <1>1 DEF PutIn, Inv, InventoryTypeOK, ReleaseLocks
  <2>5. QED  BY <2>1, <2>2, <2>3, <2>4 DEF PutIn, Inv, InventoryTypeOK
<1>5. ASSUME NEW d \in Call, Transferring(d)'
      PROVE  /\ calls'[d] = calls[d] /\ Transferring(d) /\ calls[d].transfer \in Transfer
             /\ d # c
  BY <1>5 DEF Transferring, Inv, InventoryTypeOK, PutIn, Job
<1>6. \A t \in Transfer :
        /\ transfers'[t].route = transfers[t].route
        /\ transfers'[t].status # "none" <=> transfers[t].status # "none"
  <2>1. transfers[calls[c].transfer].status # "none"
    BY <1>1 DEF Inv, InHandInv
  <2>2. QED  BY <1>1, <2>1 DEF PutIn, Inv, InventoryTypeOK
<1>7. InHandInv'
  BY <1>5, <1>6 DEF Inv, InHandInv
<1>8. HeldInv'
  <2> SUFFICES ASSUME NEW d \in Call, Moving(d)'
               PROVE  /\ rowLock'[RouteOf(d)'.from] = d
                      /\ quantity'[RouteOf(d)'.from] = calls'[d].seen
                      /\ calls'[d].seen >= RouteOf(d)'.units
    BY DEF HeldInv
  <2>1. calls'[d] = calls[d] /\ Moving(d) /\ d # c /\ calls[d].transfer \in Transfer
    BY <1>5 DEF Moving, Transferring
  <2>2. RouteOf(d)' = RouteOf(d) /\ RouteOf(d).from \in Row
    BY <1>6, <2>1 DEF RouteOf, Inv, InventoryTypeOK
  <2>3. rowLock[RouteOf(d).from] = d /\ RouteOf(d).from # from /\ RouteOf(d).from # to
    BY <1>2, <2>1 DEF Inv, HeldInv
  <2>4. quantity'[RouteOf(d).from] = quantity[RouteOf(d).from]
    BY <1>3, <2>2, <2>3 DEF Inv, InventoryTypeOK
  <2>5. rowLock'[RouteOf(d).from] = d
    BY <2>1, <2>2, <2>3 DEF PutIn, ReleaseLocks
  <2>6. QED  BY <2>1, <2>2, <2>4, <2>5 DEF Inv, HeldInv
<1>9. LogExplainsStock'
  <2> SUFFICES ASSUME NEW row \in Row \ Edited
               PROVE  quantity'[row] = Stock[row] + logged'[row] /\ reserved'[row] = promised'[row]
    BY DEF LogExplainsStock
  <2>1. /\ quantity[row] \in Nat /\ logged[row] \in Int /\ Stock[row] \in Nat
        /\ quantity[row] = Stock[row] + logged[row] /\ reserved[row] = promised[row]
    BY DEF Inv, InventoryTypeOK, LogExplainsStock
  <2>2. reserved' = reserved /\ promised' = promised
    BY DEF PutIn
  <2> HIDE DEF from, to, n
  <2>3. CASE row = from
    <3>1. quantity'[row] = quantity[row] - n /\ logged'[row] = logged[row] - n
      BY <1>1, <1>2, <1>3, <2>3 DEF Inv, InventoryTypeOK
    <3>2. QED  BY <1>1, <2>1, <2>2, <3>1
  <2>4. CASE row = to
    <3>1. quantity'[row] = quantity[row] + n /\ logged'[row] = logged[row] + n
      BY <1>1, <1>2, <1>3, <2>4 DEF Inv, InventoryTypeOK
    <3>2. QED  BY <1>1, <2>1, <2>2, <3>1
  <2>5. CASE row # from /\ row # to
    BY <1>3, <2>1, <2>2, <2>5 DEF Inv, InventoryTypeOK
  <2>6. QED  BY <2>3, <2>4, <2>5
<1>10. QED  BY <1>4, <1>7, <1>8, <1>9 DEF Inv


-----------------------------------------------------------------------------
(* Stock and its log *)

\* SaveRow writes a row of Edited only: that is what a loaded job names.
PatchInv == \A c \in Call : calls[c] # Idle /\ calls[c].do = "patch" => calls[c].row \in Edited

LEMMA PatchKept ==
  ASSUME Inv, PatchInv, [InventoryNext]_inventoryVars
  PROVE  PatchInv'
<1> SUFFICES ASSUME NEW d \in Call, calls'[d] # Idle, calls'[d].do = "patch",
                    calls'[d] # calls[d]
             PROVE  calls'[d].row \in Edited
  BY DEF PatchInv
<1>1. ASSUME NEW c \in Call, calls' = [calls EXCEPT ![c] = Idle]
      PROVE  FALSE
  BY <1>1 DEF Inv, InventoryTypeOK
<1>2. ASSUME NEW row \in Edited, NEW c \in Call, LoadRow(c, row)
      PROVE  calls'[d].row \in Edited
  BY <1>2 DEF LoadRow, Inv, InventoryTypeOK
<1>3. ASSUME NEW c \in Call, NEW t \in Transfer, NEW do \in {"take", "cancel"},
             LoadTransfer(c, t, do)
      PROVE  FALSE
  BY <1>3 DEF LoadTransfer, Inv, InventoryTypeOK
<1>4. ASSUME NEW c \in Call, TakeOut(c)
      PROVE  FALSE
  <2>1. calls[c] \in [do : {"take", "put", "cancel"}, transfer : Transfer, seen : Int]
    BY <1>4 DEF TakeOut, Inv, InventoryTypeOK, Job
  <2>2. QED  BY <1>4, <2>1 DEF TakeOut, Inv, InventoryTypeOK
<1>5. CASE calls' = calls
  BY <1>5
<1>6. CASE \E c \in Call : Work(c) \/ AbortDeadlocked(c) \/ LoseProcess(c)
  BY <1>6, <1>1, <1>4 DEF Work, PutIn, CancelTransfer, Refuse, SaveRow, AbortDeadlocked,
     LoseProcess, Abandon
<1>7. QED
  BY <1>2, <1>3, <1>5, <1>6
  DEF InventoryNext, inventoryVars, AdjustStock, ReserveStock, ReleaseStock, SetQuantity, CreateTransfer

LEMMA InvHolds == InventorySpec => [](Inv /\ PatchInv)
<1>1. InventoryInit => Inv /\ PatchInv
  <2> SUFFICES ASSUME InventoryInit PROVE Inv /\ PatchInv
    OBVIOUS
  <2>1. SomeRoute \in Route
    <3>1. \E row \in Row, n \in Amounts : [from |-> row, to |-> row, units |-> n] \in Route
      OBVIOUS
    <3>2. QED  BY <3>1 DEF SomeRoute
  <2>2. InventoryTypeOK
    BY <2>1 DEF InventoryInit, InventoryTypeOK
  <2>3. InHandInv /\ HeldInv /\ PatchInv
    BY DEF InventoryInit, InHandInv, HeldInv, PatchInv, Transferring, Moving
  <2>4. LogExplainsStock
    BY DEF InventoryInit, LogExplainsStock
  <2>5. QED  BY <2>2, <2>3, <2>4 DEF Inv
<1>2. Inv /\ PatchInv /\ [InventoryNext]_inventoryVars => (Inv /\ PatchInv)'
  <2> SUFFICES ASSUME Inv, PatchInv, [InventoryNext]_inventoryVars PROVE Inv'
    BY PatchKept
  <2>1. ASSUME NEW row \in Row, OneRow(row), calls' = calls
        PROVE  Inv'
    BY <2>1, OneRowStep DEF Inv, InventoryTypeOK
  <2>2. ASSUME NEW row \in Row, NEW n \in Amounts,
               \/ AdjustStock(row, n) \/ AdjustStock(row, -n)
               \/ ReserveStock(row, n) \/ ReleaseStock(row, n)
        PROVE  Inv'
    <3>1. n \in Int /\ -n \in Int
      OBVIOUS
    <3>2. QED  BY <2>1, <2>2, <3>1, AdjustIsOneRow, ReserveIsOneRow
  <2>3. ASSUME NEW row \in Edited, NEW n \in 0..MaxUnits, SetQuantity(row, n)
        PROVE  Inv'
    BY <2>1, <2>3, SetIsOneRow
  <2>4. ASSUME NEW row \in Edited, NEW c \in Call, LoadRow(c, row)
        PROVE  Inv'
    <3>1. InventoryTypeOK'
      BY <2>4 DEF Inv, InventoryTypeOK, LoadRow, Edit, columns, Job
    <3>2. ASSUME NEW d \in Call, Transferring(d)'
          PROVE  calls'[d] = calls[d] /\ Transferring(d)
      BY <2>4, <3>2 DEF Transferring, Inv, InventoryTypeOK, LoadRow
    <3>3. InHandInv' /\ HeldInv'
      BY <2>4, <3>2 DEF Inv, InHandInv, HeldInv, Moving, Transferring, RouteOf, LoadRow, columns
    <3>4. LogExplainsStock'
      BY <2>4 DEF Inv, LogExplainsStock, LoadRow, columns
    <3>5. QED  BY <3>1, <3>3, <3>4 DEF Inv
  <2>5. ASSUME NEW c \in Call, SaveRow(c)
        PROVE  Inv'
    <3>1. calls[c].row \in Edited
      BY <2>5 DEF PatchInv, SaveRow
    <3>2. OneRow(calls[c].row) /\ calls' = [calls EXCEPT ![c] = Idle]
      BY <2>5, <3>1, SaveIsOneRow
    <3>3. /\ \A d \in Call : calls'[d] # calls[d] => calls'[d] = Idle
          /\ calls' \in [Call -> Job \cup {Idle}]
      BY <3>2 DEF Inv, InventoryTypeOK
    <3>4. calls[c].row \in Row
      BY <3>1
    <3>5. QED  BY <3>2, <3>3, <3>4, OneRowStep
  <2>6. ASSUME NEW c \in Call, Work(c) \/ AbortDeadlocked(c) \/ LoseProcess(c)
        PROVE  Inv'
    BY <2>5, <2>6, TakeOutKeepsInv, PutInKeepsInv, CancelKeepsInv, AbandonKeepsInv
    DEF Work, Refuse, AbortDeadlocked, LoseProcess
  <2>7. ASSUME UNCHANGED inventoryVars
        PROVE  Inv'
    BY <2>7 DEF inventoryVars, columns, Inv, InventoryTypeOK, InHandInv, HeldInv, LogExplainsStock, Transferring,
       Moving, RouteOf
  <2>8. QED
    BY <2>2, <2>3, <2>4, <2>6, <2>7, CreateKeepsInv, LoadTransferKeepsInv DEF InventoryNext
<1>3. QED  BY <1>1, <1>2, PTL DEF InventorySpec

\* Every reachable state has its type: no change of stock, however requests
\* interleave or stop half-way, takes a row below zero (adjust_stock and
\* release_stock in inventory/services.py refuse to).
THEOREM StockCorrect == InventorySpec => []InventoryTypeOK
<1>1. Inv => InventoryTypeOK
  BY DEF Inv
<1>2. QED  BY <1>1, InvHolds, PTL

\* The inventory log is a complete record of every row that only the services
\* write: quantity and reservations are the sums of what was logged.
THEOREM LogIsComplete == InventorySpec => []LogExplainsStock
<1>1. Inv => LogExplainsStock
  BY DEF Inv
<1>2. QED  BY <1>1, InvHolds, PTL

-----------------------------------------------------------------------------
(* Requests on one transfer that follow one another *)

\* A request works on a pending transfer, and no other works on the same.
TurnInv ==
  \A c \in Call : Transferring(c) =>
    /\ StillPending(calls[c].transfer)
    /\ \A d \in Call :
         Transferring(d) /\ calls[d].transfer = calls[c].transfer => d = c

\* Nothing but PutIn and CancelTransfer ends a pending transfer.
LEMMA EndKeepsTurns ==
  ASSUME InventoryTypeOK, TurnInv, MovedAsRecorded, NEW c \in Call, PutIn(c) \/ CancelTransfer(c)
  PROVE  TurnInv' /\ MovedAsRecorded'
<1> DEFINE t == calls[c].transfer
<1>1. t \in Transfer /\ Transferring(c) /\ calls' = [calls EXCEPT ![c] = Idle]
  BY DEF PutIn, CancelTransfer, InventoryTypeOK, Job, Transferring
<1>2. moved[t] = 0
  BY <1>1 DEF TurnInv, MovedAsRecorded, StillPending
<1>3. \A u \in Transfer \ {t} : transfers'[u] = transfers[u] /\ moved'[u] = moved[u]
  BY <1>1 DEF PutIn, CancelTransfer, InventoryTypeOK
<1>4. moved'[t] = IF transfers'[t].status = "completed" THEN 1 ELSE 0
  <2>1. CASE PutIn(c)
    <3>1. moved'[t] = 1
      BY <1>1, <1>2, <2>1 DEF PutIn, InventoryTypeOK
    <3>2. transfers'[t].status = "completed"
      BY <1>1, <2>1 DEF PutIn, InventoryTypeOK
    <3>3. QED  BY <3>1, <3>2
  <2>2. CASE CancelTransfer(c)
    <3>1. moved'[t] = 0
      BY <1>2, <2>2 DEF CancelTransfer
    <3>2. transfers'[t].status = "cancelled"
      BY <1>1, <2>2 DEF CancelTransfer, InventoryTypeOK
    <3>3. QED  BY <3>1, <3>2
  <2>3. QED  BY <2>1, <2>2
<1>5. MovedAsRecorded'
  BY <1>3, <1>4 DEF MovedAsRecorded
<1>6. ASSUME NEW d \in Call, Transferring(d)'
      PROVE  calls'[d] = calls[d] /\ Transferring(d) /\ calls[d].transfer \in Transfer \ {t}
  <2>1. d # c /\ calls'[d] = calls[d] /\ Transferring(d)
    BY <1>1, <1>6 DEF InventoryTypeOK, Transferring
  <2>2. calls[d].transfer \in Transfer
    BY <2>1 DEF InventoryTypeOK, Job, Transferring
  <2>3. QED  BY <1>1, <2>1, <2>2 DEF TurnInv
<1>7. TurnInv'
  BY <1>3, <1>6 DEF TurnInv, StillPending
<1>8. QED  BY <1>5, <1>7

\* The other steps leave transfers that somebody works on as they are.
LEMMA OthersKeepTurns ==
  ASSUME InventoryTypeOK, TurnInv, MovedAsRecorded, UNCHANGED moved,
         \A t \in Transfer : transfers'[t] = transfers[t]
                             \/ /\ transfers[t].status = "none"
                                /\ transfers'[t].status = "pending",
         \A d \in Call : Transferring(d)' =>
           /\ Transferring(d)
           /\ calls'[d].transfer = calls[d].transfer
  PROVE  TurnInv' /\ MovedAsRecorded'
<1>1. \A d \in Call : Transferring(d) => calls[d].transfer \in Transfer
  BY DEF InventoryTypeOK, Job, Transferring
<1>2. TurnInv'
  BY <1>1 DEF TurnInv, StillPending
<1>3. MovedAsRecorded'
  BY DEF MovedAsRecorded
<1>4. QED  BY <1>2, <1>3

LEMMA TurnsKept ==
  ASSUME ~Overlap, InventoryTypeOK, TurnInv, MovedAsRecorded, [InventoryNext]_inventoryVars
  PROVE  TurnInv' /\ MovedAsRecorded'
<1>1. ASSUME NEW c \in Call, NEW t \in Transfer, NEW do \in {"take", "cancel"},
             LoadTransfer(c, t, do)
      PROVE  TurnInv' /\ MovedAsRecorded'
  <2>1. /\ UNCHANGED <<transfers, moved>>
        /\ calls'[c] = [do |-> do, transfer |-> t, seen |-> 0]
        /\ \A d \in Call \ {c} : calls'[d] = calls[d]
    BY <1>1 DEF LoadTransfer, InventoryTypeOK, columns
  <2>2. StillPending(t) /\ \A d \in Call : Transferring(d) => calls[d].transfer # t
    BY <1>1 DEF LoadTransfer, InHand, Transferring
  <2>3. TurnInv'
    BY <2>1, <2>2 DEF TurnInv, Transferring, StillPending
  <2>4. QED  BY <2>1, <2>3 DEF MovedAsRecorded
<1>2. ASSUME NEW c \in Call, TakeOut(c)
      PROVE  TurnInv' /\ MovedAsRecorded'
  <2>1. /\ UNCHANGED <<transfers, moved>>
        /\ Transferring(c)
        /\ calls'[c].transfer = calls[c].transfer
        /\ \A d \in Call \ {c} : calls'[d] = calls[d]
    BY <1>2 DEF TakeOut, InventoryTypeOK, columns, Transferring
  <2>2. QED  BY <2>1, OthersKeepTurns DEF Transferring
<1>3. ASSUME NEW c \in Call, calls' = [calls EXCEPT ![c] = Idle], UNCHANGED <<transfers, moved>>
      PROVE  TurnInv' /\ MovedAsRecorded'
  <2>1. \A d \in Call : Transferring(d)' => calls'[d] = calls[d]
    BY <1>3 DEF InventoryTypeOK, Transferring
  <2>2. QED  BY <1>3, <2>1, OthersKeepTurns DEF Transferring
<1>4. ASSUME NEW c \in Call, NEW row \in Edited, LoadRow(c, row)
      PROVE  TurnInv' /\ MovedAsRecorded'
  <2>1. /\ UNCHANGED <<transfers, moved>>
        /\ \A d \in Call : Transferring(d)' => calls'[d] = calls[d]
    BY <1>4 DEF LoadRow, InventoryTypeOK, columns, Transferring
  <2>2. QED  BY <2>1, OthersKeepTurns DEF Transferring
<1>5. ASSUME UNCHANGED <<calls, moved>>,
             \/ UNCHANGED transfers
             \/ \E t \in Transfer, route \in Route : CreateTransfer(t, route)
      PROVE  TurnInv' /\ MovedAsRecorded'
  <2>1. \A t \in Transfer : transfers'[t] = transfers[t]
                            \/ /\ transfers[t].status = "none"
                               /\ transfers'[t].status = "pending"
    BY <1>5 DEF CreateTransfer, InventoryTypeOK
  <2>2. QED  BY <1>5, <2>1, OthersKeepTurns DEF Transferring
<1>6. ASSUME NEW c \in Call, Work(c) \/ AbortDeadlocked(c) \/ LoseProcess(c)
      PROVE  TurnInv' /\ MovedAsRecorded'
  BY <1>2, <1>3, <1>6, EndKeepsTurns
  DEF Work, Refuse, SaveRow, AbortDeadlocked, LoseProcess, Abandon, columns
<1>7. CASE UNCHANGED inventoryVars
  BY <1>5, <1>7 DEF inventoryVars, columns
<1>8. CASE InventoryNext
  BY <1>8, <1>1, <1>4, <1>5, <1>6
  DEF InventoryNext, AdjustStock, ReserveStock, ReleaseStock, SetQuantity, CreateTransfer
<1>9. QED  BY <1>7, <1>8

\* If the requests on one transfer follow one another, its units are moved
\* exactly once if it is completed and never otherwise, whatever happens to the
\* rows meanwhile: the check of the status that was loaded is then enough.
THEOREM MovedOnce == ~Overlap => (InventorySpec => []MovedAsRecorded)
<1> SUFFICES ASSUME ~Overlap PROVE InventorySpec => []MovedAsRecorded
  OBVIOUS
<1>1. InventoryInit => TurnInv /\ MovedAsRecorded
  BY DEF InventoryInit, TurnInv, MovedAsRecorded, Transferring
<1>2. InventoryTypeOK /\ TurnInv /\ MovedAsRecorded /\ [InventoryNext]_inventoryVars => TurnInv' /\ MovedAsRecorded'
  BY TurnsKept
<1>3. QED  BY <1>1, <1>2, StockCorrect, PTL DEF InventorySpec

=============================================================================
