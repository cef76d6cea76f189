------------------------------ MODULE ChatProofs ------------------------------
(***************************************************************************)
(* Proofs about Chat, for any number of members, messages and overlapping  *)
(* calls.                                                                  *)
(***************************************************************************)
EXTENDS Chat, FiniteSetTheorems, TLAPS

ChatCall ==
  [op : {"none", "update", "delete", "archive", "send", "add", "remove", "leave", "read"},
   at : {"idle", "saving", "adding", "storing", "reading", "paging", "sending", "counting"},
   by : Person \cup {None}, of : Person \cup {None}, msg : 0..MaxMessages,
   status : ChatStatus, members : SUBSET Person, row : PersonRow, before : SUBSET Message]

ChatTypes ==
  /\ chat \in ChatStatus
  /\ people \in [Person -> PersonRow]
  /\ sent \in 0..MaxMessages
  /\ chatting \in [Call -> ChatCall]
  /\ counted \in [Person -> SUBSET (1..sent)]
  /\ asked \in [Person -> SUBSET (1..sent)]
  /\ dropped \in [Person -> Nat]

\* What a call carries: the badge in a copy of a member's row counts what was counted when it
\* was read and came after the member last asked.
Sound(j, stored, pages, lost) ==
  /\ (j.at = "saving" /\ j.op = "send") \/ j.at = "counting" => j.msg \in 1..stored
  /\ j.at = "adding" => j.of \in Person
  /\ j.at \in {"paging", "reading"} => j.by \in Person /\ j.of = j.by
  /\ j.at = "reading" => j.op = "leave" \/ j.before \subseteq pages[j.by]
  /\ j.at = "storing" =>
       /\ j.of \in Person
       /\ Cardinality(j.before \ pages[j.of]) <= j.row.unread + lost[j.of]

CallsAreSound == \A c \in Call : Sound(chatting[c], sent, asked, dropped)

\* The badge of everybody, member or not.
BadgesCount == \A p \in Person : Cardinality(counted[p] \ asked[p]) <= people[p].unread + dropped[p]

ChatInv == ChatTypes /\ CallsAreSound /\ BadgesCount

-----------------------------------------------------------------------------
(* Sets of messages *)

LEMMA MessagesAreFinite ==
  ASSUME NEW A \in SUBSET Message
  PROVE  IsFiniteSet(A) /\ Cardinality(A) \in Nat
<1>1. IsFiniteSet(Message)
  BY MessagesAreCounted, FS_Interval DEF Message
<1>2. IsFiniteSet(A)
  BY <1>1, FS_Subset
<1> QED BY <1>2, FS_CardinalityType

LEMMA FewerMessages ==
  ASSUME NEW A \in SUBSET Message, NEW B \in SUBSET A
  PROVE  Cardinality(B) <= Cardinality(A)
BY MessagesAreFinite, FS_Subset

LEMMA OneMoreMessage ==
  ASSUME NEW A \in SUBSET Message, NEW F, NEW m \in Message
  PROVE  Cardinality((A \cup {m}) \ F) <= Cardinality(A \ F) + 1
<1>1. A \ F \in SUBSET Message /\ (A \ F) \cup {m} \in SUBSET Message
  OBVIOUS
<1>2. IsFiniteSet(A \ F) /\ Cardinality(A \ F) \in Nat
  BY <1>1, MessagesAreFinite
<1>3. Cardinality((A \ F) \cup {m}) \in {Cardinality(A \ F), Cardinality(A \ F) + 1}
  BY <1>2, FS_AddElement
<1>4. (A \cup {m}) \ F \in SUBSET ((A \ F) \cup {m})
  OBVIOUS
<1>5. Cardinality((A \cup {m}) \ F) <= Cardinality((A \ F) \cup {m})
  BY <1>1, <1>4, FewerMessages
<1>6. Cardinality((A \cup {m}) \ F) \in Nat
  <2>1. (A \cup {m}) \ F \in SUBSET Message
    OBVIOUS
  <2> QED BY <2>1, MessagesAreFinite
<1> QED BY <1>2, <1>3, <1>5, <1>6

LEMMA MessagesSince ==
  ASSUME NEW A \in SUBSET Message, NEW B \in SUBSET Message, NEW F
  PROVE  Cardinality(A \ F) <= Cardinality(B \ F) + Cardinality(A \ B)
<1>1. /\ A \ F \in SUBSET Message /\ B \ F \in SUBSET Message /\ A \ B \in SUBSET Message
      /\ (B \ F) \cup (A \ B) \in SUBSET Message /\ (B \ F) \cap (A \ B) \in SUBSET Message
      /\ A \ F \in SUBSET ((B \ F) \cup (A \ B))
  OBVIOUS
<1>2. Cardinality(A \ F) <= Cardinality((B \ F) \cup (A \ B))
  BY <1>1, FewerMessages
<1>3. /\ IsFiniteSet(B \ F) /\ Cardinality(B \ F) \in Nat
      /\ IsFiniteSet(A \ B) /\ Cardinality(A \ B) \in Nat
      /\ Cardinality((B \ F) \cap (A \ B)) \in Nat /\ Cardinality(A \ F) \in Nat
      /\ Cardinality((B \ F) \cup (A \ B)) \in Nat
  BY <1>1, MessagesAreFinite
<1>4. Cardinality((B \ F) \cup (A \ B)) = Cardinality(B \ F) + Cardinality(A \ B) - Cardinality((B \ F) \cap (A \ B))
  BY <1>3, FS_Union
<1> QED BY <1>2, <1>3, <1>4

-----------------------------------------------------------------------------
(* One call takes a step *)

\* What a call carries stays sound while others send, ask for pages and lose messages.
LEMMA SoundStays ==
  ASSUME NEW j \in ChatCall, NEW s \in 0..MaxMessages, NEW t \in 0..MaxMessages, s <= t,
         NEW f \in [Person -> SUBSET Message], NEW g \in [Person -> SUBSET Message],
         NEW d \in [Person -> Nat], NEW e \in [Person -> Nat],
         \A p \in Person : f[p] \subseteq g[p] /\ d[p] <= e[p],
         Sound(j, s, f, d)
  PROVE  Sound(j, t, g, e)
<1>1. j.before \in SUBSET Message /\ j.row.unread \in Nat
  BY DEF ChatCall, PersonRow
<1>2. ASSUME j.at = "storing" PROVE Cardinality(j.before \ g[j.of]) <= j.row.unread + e[j.of]
  <2>1. j.of \in Person /\ Cardinality(j.before \ f[j.of]) <= j.row.unread + d[j.of]
    BY <1>2 DEF Sound
  <2>2. j.before \ f[j.of] \in SUBSET Message /\ j.before \ g[j.of] \in SUBSET (j.before \ f[j.of])
    BY <1>1, <2>1
  <2>3. j.before \ g[j.of] \in SUBSET Message
    BY <1>1
  <2>4. /\ Cardinality(j.before \ g[j.of]) <= Cardinality(j.before \ f[j.of])
        /\ Cardinality(j.before \ g[j.of]) \in Nat /\ Cardinality(j.before \ f[j.of]) \in Nat
    BY <2>2, <2>3, FewerMessages, MessagesAreFinite
  <2>5. d[j.of] \in Nat /\ e[j.of] \in Nat /\ d[j.of] <= e[j.of]
    BY <2>1
  <2> QED BY <1>1, <2>1, <2>4, <2>5
<1>3. ASSUME j.at = "reading" PROVE j.op = "leave" \/ j.before \subseteq g[j.by]
  <2>1. j.by \in Person /\ (j.op = "leave" \/ j.before \subseteq f[j.by])
    BY <1>3 DEF Sound
  <2> QED BY <2>1
<1>4. (j.at = "saving" /\ j.op = "send") \/ j.at = "counting" => j.msg \in 1..t
  BY DEF Sound
<1> QED BY <1>2, <1>3, <1>4 DEF Sound

\* The others keep theirs, the one that takes the step carries r.
LEMMA CallKeeps ==
  ASSUME ChatInv, NEW c \in Call, NEW r \in ChatCall, chatting' = [chatting EXCEPT ![c] = r],
         sent' \in sent..MaxMessages,
         asked' \in [Person -> SUBSET (1..sent')], dropped' \in [Person -> Nat],
         \A p \in Person : asked[p] \subseteq asked'[p] /\ dropped[p] <= dropped'[p],
         Sound(r, sent', asked', dropped')
  PROVE  chatting' \in [Call -> ChatCall] /\ CallsAreSound'
<1>1. chatting \in [Call -> ChatCall] /\ sent \in 0..MaxMessages /\ MaxMessages \in Nat
  BY MessagesAreCounted DEF ChatInv, ChatTypes
<1>2. chatting' \in [Call -> ChatCall] /\ \A d \in Call : chatting'[d] = IF d = c THEN r ELSE chatting[d]
  BY <1>1
<1>3. ASSUME NEW d \in Call PROVE Sound(chatting'[d], sent', asked', dropped')
  <2>1. CASE d = c
    BY <1>2, <2>1
  <2>2. CASE d # c
    <3>1. chatting'[d] = chatting[d] /\ chatting[d] \in ChatCall /\ Sound(chatting[d], sent, asked, dropped)
      BY <1>1, <1>2, <2>2 DEF ChatInv, CallsAreSound
    <3>2. sent \in 0..MaxMessages /\ sent' \in 0..MaxMessages /\ sent <= sent'
      BY <1>1
    <3>3. asked \in [Person -> SUBSET Message] /\ asked' \in [Person -> SUBSET Message]
      <4>1. 1..sent \subseteq Message /\ 1..sent' \subseteq Message
        BY <1>1, <3>2 DEF Message
      <4> QED BY <4>1 DEF ChatInv, ChatTypes
    <3>4. dropped \in [Person -> Nat]
      BY DEF ChatInv, ChatTypes
    <3>5. Sound(chatting[d], sent', asked', dropped')
      BY <3>1, <3>2, <3>3, <3>4, SoundStays
    <3> QED BY <3>1, <3>5
  <2> QED BY <2>1, <2>2
<1> QED BY <1>2, <1>3 DEF CallsAreSound

\* A step that changes nothing but what the call carries.
LEMMA CarryKeeps ==
  ASSUME ChatInv, NEW c \in Call, NEW r \in ChatCall, chatting' = [chatting EXCEPT ![c] = r],
         OnlyChatting, Sound(r, sent, asked, dropped)
  PROVE  ChatInv'
<1>1. UNCHANGED <<chat, people, sent, counted, asked, dropped>>
  BY DEF OnlyChatting, chatHistory
<1>2. sent' \in sent..MaxMessages /\ dropped' \in [Person -> Nat] /\ asked' \in [Person -> SUBSET (1..sent')]
  BY <1>1, MessagesAreCounted DEF ChatInv, ChatTypes
<1>3. \A p \in Person : asked[p] \subseteq asked'[p] /\ dropped[p] <= dropped'[p]
  BY <1>1 DEF ChatInv, ChatTypes
<1>4. Sound(r, sent', asked', dropped')
  BY <1>1
<1>5. chatting' \in [Call -> ChatCall] /\ CallsAreSound'
  BY <1>2, <1>3, <1>4, CallKeeps
<1>6. ChatTypes' /\ BadgesCount'
  BY <1>1, <1>5 DEF ChatInv, ChatTypes, BadgesCount
<1> QED BY <1>5, <1>6 DEF ChatInv

LEMMA SilentIsSound ==
  /\ Silent \in ChatCall
  /\ \A s, f, d : Sound(Silent, s, f, d)
<1>1. Silent \in ChatCall
  <2>1. 0 \in 0..MaxMessages
    BY MessagesAreCounted
  <2> QED BY <2>1 DEF Silent, ChatCall, ChatStatus, Stranger, PersonRow
<1>2. ASSUME NEW s, NEW f, NEW d PROVE Sound(Silent, s, f, d)
  BY DEF Sound, Silent
<1> QED BY <1>1, <1>2

LEMMA ChatInvInit == ChatInit => ChatInv
<1> SUFFICES ASSUME ChatInit PROVE ChatInv
  OBVIOUS
<1>1. people \in [Person -> PersonRow] /\ \A p \in Person : people[p].unread = 0
  BY DEF ChatInit, PersonRow, Stranger
<1>2. chatting \in [Call -> ChatCall] /\ CallsAreSound
  BY SilentIsSound DEF ChatInit, CallsAreSound
<1>3. sent \in 0..MaxMessages
  BY MessagesAreCounted DEF ChatInit
<1>4. ChatTypes
  BY <1>1, <1>2, <1>3 DEF ChatInit, ChatTypes, ChatStatus
<1>5. ASSUME NEW p \in Person PROVE Cardinality(counted[p] \ asked[p]) <= people[p].unread + dropped[p]
  <2>1. counted[p] \ asked[p] = {} /\ dropped[p] = 0
    BY DEF ChatInit
  <2>2. Cardinality(counted[p] \ asked[p]) = 0
    BY <2>1, FS_EmptySet
  <2> QED BY <1>1, <2>1, <2>2
<1> QED BY <1>2, <1>4, <1>5 DEF ChatInv, BadgesCount

-----------------------------------------------------------------------------
(* The calls that only look *)

LEMMA FindKeeps ==
  ASSUME ChatInv, NEW c \in Call, NEW by \in Person, NEW of \in Person,
         \/ FindChat(c, "add", by, of, "adding")
         \/ of = by /\ FindChat(c, "leave", by, of, "reading")
         \/ of = by /\ FindChat(c, "read", by, of, "paging")
  PROVE  ChatInv'
<1>1. PICK op \in {"add", "leave", "read"}, at \in {"adding", "reading", "paging"} :
        /\ chatting' = [chatting EXCEPT ![c] = [Silent EXCEPT !.op = op, !.at = at, !.by = by, !.of = of]]
        /\ at = "adding" \/ of = by
        /\ at = "reading" => op = "leave"
        /\ OnlyChatting
  BY DEF FindChat
<1> DEFINE r == [Silent EXCEPT !.op = op, !.at = at, !.by = by, !.of = of]
<1>2. r \in ChatCall /\ r.op = op /\ r.at = at /\ r.by = by /\ r.of = of
  BY SilentIsSound DEF ChatCall
<1>3. chatting' = [chatting EXCEPT ![c] = r]
  BY <1>1
<1> HIDE DEF r
<1>4. Sound(r, sent, asked, dropped)
  BY <1>1, <1>2 DEF Sound
<1> QED BY <1>1, <1>2, <1>3, <1>4, CarryKeeps

LEMMA LoadKeeps ==
  ASSUME ChatInv, NEW c \in Call, NEW by \in Person, NEW op \in {"update", "delete", "archive", "send"},
         NEW at \in {"saving", "sending"}, NEW status \in ChatStatus, LoadChat(c, op, by, at, status),
         at = "saving" => op # "send"
  PROVE  ChatInv'
<1> DEFINE r == [Silent EXCEPT !.op = op, !.at = at, !.by = IF op = "send" THEN by ELSE None,
                               !.status = status, !.members = Listed]
<1>1. chatting' = [chatting EXCEPT ![c] = r] /\ OnlyChatting
  BY DEF LoadChat
<1>2. r \in ChatCall /\ r.op = op /\ r.at = at /\ r.status = status
  BY SilentIsSound DEF ChatCall, ChatInv, ChatTypes, Listed
<1> HIDE DEF r
<1>3. Sound(r, sent, asked, dropped)
  BY <1>2 DEF Sound
<1> QED BY <1>1, <1>2, <1>3, CarryKeeps

LEMMA StatusKeeps ==
  ASSUME ChatInv, NEW c \in Call, Status(c)
  PROVE  ChatInv'
<1>1. chat \in ChatStatus /\ "deleted" \in ChatStatus
  BY DEF ChatInv, ChatTypes, ChatStatus
<1>2. CASE UpdateChat(c)
  BY <1>1, <1>2, LoadKeeps, OpenerIsAPerson DEF UpdateChat
<1>3. CASE DeleteChat(c)
  BY <1>1, <1>3, LoadKeeps, OpenerIsAPerson DEF DeleteChat
<1>4. CASE \E p \in Person, status \in ChatStatus : ArchiveChat(c, p, status)
  BY <1>4, LoadKeeps DEF ArchiveChat
<1> QED BY <1>2, <1>3, <1>4 DEF Status

LEMMA SendKeeps ==
  ASSUME ChatInv, NEW c \in Call, NEW p \in Person, SendMessage(c, p)
  PROVE  ChatInv'
<1>1. chat \in ChatStatus
  BY DEF ChatInv, ChatTypes
<1> QED BY <1>1, LoadKeeps DEF SendMessage

LEMMA RemoveKeeps ==
  ASSUME ChatInv, NEW c \in Call, NEW p \in Person, RemoveMember(c, p)
  PROVE  ChatInv'
<1> DEFINE r == [Silent EXCEPT !.op = "remove", !.at = "storing", !.by = Opener, !.of = p,
                               !.row = [people[p] EXCEPT !.status = "removed"], !.before = counted[p]]
<1>1. chatting' = [chatting EXCEPT ![c] = r] /\ OnlyChatting
  BY DEF RemoveMember
<1>2. people[p] \in PersonRow /\ counted[p] \in SUBSET Message /\ counted[p] \in SUBSET (1..sent)
  <2>1. 1..sent \subseteq Message
    BY MessagesAreCounted DEF ChatInv, ChatTypes, Message
  <2> QED BY <2>1 DEF ChatInv, ChatTypes
<1>3. /\ [people[p] EXCEPT !.status = "removed"] \in PersonRow
      /\ [people[p] EXCEPT !.status = "removed"].status = "removed"
      /\ [people[p] EXCEPT !.status = "removed"].unread = people[p].unread
  BY <1>2 DEF PersonRow
<1>4. /\ r \in ChatCall /\ r.at = "storing" /\ r.of = p /\ r.before = counted[p]
      /\ r.row.status = "removed" /\ r.row.unread = people[p].unread
  BY <1>2, <1>3, SilentIsSound, OpenerIsAPerson DEF ChatCall
<1> HIDE DEF r
<1>5. Sound(r, sent, asked, dropped)
  BY <1>4 DEF Sound, ChatInv, BadgesCount
<1> QED BY <1>1, <1>4, <1>5, CarryKeeps

LEMMA ReadMemberKeeps ==
  ASSUME ChatInv, NEW c \in Call, ReadMember(c)
  PROVE  ChatInv'
<1> DEFINE j == chatting[c]
           p == j.by
<1>1. /\ j \in ChatCall /\ j.at = "reading" /\ p \in Person /\ j.of = p
      /\ j.op = "leave" \/ j.before \subseteq asked[p]
  BY DEF ReadMember, Chatting, ChatInv, ChatTypes, CallsAreSound, Sound
<1>2. people[p] \in PersonRow /\ counted[p] \in SUBSET Message
  <2>1. 1..sent \subseteq Message
    BY MessagesAreCounted DEF ChatInv, ChatTypes, Message
  <2> QED BY <1>1, <2>1 DEF ChatInv, ChatTypes
<1>3. OnlyChatting
  BY DEF ReadMember
<1>4. CASE j.op = "leave"
  <2> DEFINE row == [people[p] EXCEPT !.status = "left"]
             r == [j EXCEPT !.at = "storing", !.row = row, !.before = counted[p]]
  <2>1. chatting' = [chatting EXCEPT ![c] = r]
    BY <1>4 DEF ReadMember
  <2>2. row \in PersonRow /\ row.status = "left" /\ row.unread = people[p].unread
    BY <1>2 DEF PersonRow
  <2> HIDE DEF row
  <2>3. r \in ChatCall /\ r.at = "storing" /\ r.of = p /\ r.before = counted[p] /\ r.row = row
    BY <1>1, <1>2, <2>2 DEF ChatCall
  <2> HIDE DEF r
  <2>4. Sound(r, sent, asked, dropped)
    BY <1>1, <2>2, <2>3 DEF Sound, ChatInv, BadgesCount
  <2> QED BY <1>3, <2>1, <2>3, <2>4, CarryKeeps
<1>5. CASE j.op # "leave"
  <2> DEFINE row == [people[p] EXCEPT !.unread = 0]
             r == [j EXCEPT !.at = "storing", !.row = row]
  <2>1. chatting' = [chatting EXCEPT ![c] = r]
    BY <1>5 DEF ReadMember
  <2>2. row \in PersonRow /\ row.status = people[p].status /\ row.unread = 0
    BY <1>2 DEF PersonRow
  <2> HIDE DEF row
  <2>3. /\ r \in ChatCall /\ r.at = "storing" /\ r.of = p /\ r.before = j.before
        /\ r.row = row
    BY <1>1, <1>2, <2>2 DEF ChatCall
  <2> HIDE DEF r
  <2>4. Cardinality(r.before \ asked[p]) = 0 /\ dropped[p] \in Nat
    <3>1. r.before \ asked[p] = {}
      BY <1>1, <1>5, <2>3
    <3> QED BY <1>1, <3>1, FS_EmptySet DEF ChatInv, ChatTypes
  <2>5. Sound(r, sent, asked, dropped)
    BY <1>1, <2>2, <2>3, <2>4 DEF Sound
  <2> QED BY <1>3, <2>1, <2>3, <2>5, CarryKeeps
<1> QED BY <1>4, <1>5

LEMMA HangsKeeps ==
  ASSUME ChatInv, NEW c \in Call, Hangs(c)
  PROVE  ChatInv'
BY CarryKeeps, SilentIsSound DEF Hangs, Falls

-----------------------------------------------------------------------------
(* The calls that write *)

\* A call that ends.
LEMMA EndKeeps ==
  ASSUME ChatInv, NEW c \in Call, Falls(c), sent' = sent,
         asked' = asked, dropped' \in [Person -> Nat], \A p \in Person : dropped[p] <= dropped'[p]
  PROVE  chatting' \in [Call -> ChatCall] /\ CallsAreSound'
<1>1. sent' \in sent..MaxMessages /\ asked' \in [Person -> SUBSET (1..sent')]
  BY MessagesAreCounted DEF ChatInv, ChatTypes
<1>2. chatting' = [chatting EXCEPT ![c] = Silent]
  BY DEF Falls
<1> QED BY <1>1, <1>2, CallKeeps, SilentIsSound

LEMMA AddMemberKeeps ==
  ASSUME ChatInv, NEW c \in Call, AddMember(c)
  PROVE  ChatInv'
<1>1. Falls(c) /\ UNCHANGED <<chat, sent, counted, asked, dropped>>
  BY DEF AddMember, chatHistory
<1>2. \A p \in Person : people[p] \in PersonRow /\ dropped[p] \in Nat
  BY DEF ChatInv, ChatTypes
<1>3. chatting' \in [Call -> ChatCall] /\ CallsAreSound'
  BY <1>1, <1>2, EndKeeps DEF ChatInv, ChatTypes
<1>4. people' = people \/ \E q \in Person : people' = [people EXCEPT ![q].status = "active"]
  BY DEF AddMember, Chatting, ChatInv, CallsAreSound, Sound
<1>5. \A row \in PersonRow : LET now == [row EXCEPT !.status = "active"]
                           IN  now \in PersonRow /\ now.unread = row.unread
  BY DEF PersonRow
<1>6. people' \in [Person -> PersonRow] /\ \A p \in Person : people'[p].unread = people[p].unread
  <2>1. CASE people' = people
    BY <2>1 DEF ChatInv, ChatTypes
  <2>2. ASSUME NEW q \in Person, people' = [people EXCEPT ![q].status = "active"]
        PROVE  people' \in [Person -> PersonRow] /\ \A p \in Person : people'[p].unread = people[p].unread
    <3>1. \A p \in Person : people'[p] = IF p = q THEN [people[p] EXCEPT !.status = "active"] ELSE people[p]
      BY <2>2 DEF ChatInv, ChatTypes
    <3>2. people' = [p \in Person |-> people'[p]]
      BY <2>2 DEF ChatInv, ChatTypes
    <3>3. \A p \in Person : people'[p] \in PersonRow /\ people'[p].unread = people[p].unread
      BY <1>2, <1>5, <3>1
    <3> QED BY <3>2, <3>3
  <2> QED BY <1>4, <2>1, <2>2
<1>7. ChatTypes' /\ BadgesCount'
  BY <1>1, <1>3, <1>6 DEF ChatInv, ChatTypes, BadgesCount
<1> QED BY <1>3, <1>7 DEF ChatInv

LEMMA StoreMemberKeeps ==
  ASSUME ChatInv, NEW c \in Call, StoreMember(c)
  PROVE  ChatInv'
<1> DEFINE j == chatting[c]
           q == j.of
           missed == Cardinality(counted[q] \ j.before)
<1>1. /\ j \in ChatCall /\ j.at = "storing" /\ q \in Person /\ j.row \in PersonRow /\ j.before \in SUBSET Message
      /\ Cardinality(j.before \ asked[q]) <= j.row.unread + dropped[q]
  BY DEF StoreMember, Chatting, ChatInv, ChatTypes, CallsAreSound, Sound, ChatCall
<1>2. /\ Falls(c) /\ UNCHANGED <<chat, sent, counted, asked>>
      /\ people' = [people EXCEPT ![q] = j.row]
      /\ dropped' = [dropped EXCEPT ![q] = @ + missed]
  BY DEF StoreMember
<1>3. \A p \in Person : counted[p] \in SUBSET Message /\ people[p] \in PersonRow /\ dropped[p] \in Nat
  <2>1. 1..sent \subseteq Message
    BY MessagesAreCounted DEF ChatInv, ChatTypes, Message
  <2> QED BY <2>1 DEF ChatInv, ChatTypes
<1>4. missed \in Nat
  <2>1. counted[q] \ j.before \in SUBSET Message
    BY <1>1, <1>3
  <2> QED BY <2>1, MessagesAreFinite
<1>5. Cardinality(counted[q] \ asked[q]) <= j.row.unread + dropped[q] + missed
  <2>1. Cardinality(counted[q] \ asked[q]) <= Cardinality(j.before \ asked[q]) + missed
    BY <1>1, <1>3, MessagesSince
  <2>2. /\ counted[q] \ asked[q] \in SUBSET Message /\ j.before \ asked[q] \in SUBSET Message
    BY <1>1, <1>3
  <2>3. Cardinality(counted[q] \ asked[q]) \in Nat /\ Cardinality(j.before \ asked[q]) \in Nat
    BY <2>2, MessagesAreFinite
  <2>4. j.row.unread \in Nat /\ dropped[q] \in Nat
    BY <1>1, <1>3 DEF PersonRow
  <2> QED BY <1>1, <1>4, <2>1, <2>3, <2>4
<1> HIDE DEF missed
<1>6. \A p \in Person : /\ people'[p] = IF p = q THEN j.row ELSE people[p]
                       /\ dropped'[p] = IF p = q THEN dropped[p] + missed ELSE dropped[p]
  BY <1>2 DEF ChatInv, ChatTypes
<1>7. people' \in [Person -> PersonRow]
  BY <1>1, <1>2 DEF ChatInv, ChatTypes
<1>8. dropped' \in [Person -> Nat] /\ \A p \in Person : dropped[p] <= dropped'[p]
  <2>1. dropped' = [p \in Person |-> dropped'[p]]
    BY <1>2 DEF ChatInv, ChatTypes
  <2>2. \A p \in Person : dropped'[p] \in Nat /\ dropped[p] <= dropped'[p]
    BY <1>3, <1>4, <1>6
  <2> QED BY <2>1, <2>2
<1>9. chatting' \in [Call -> ChatCall] /\ CallsAreSound'
  BY <1>2, <1>8, EndKeeps
<1>10. BadgesCount'
  <2> SUFFICES ASSUME NEW p \in Person
               PROVE  Cardinality(counted[p] \ asked[p]) <= people'[p].unread + dropped'[p]
    BY <1>2 DEF BadgesCount
  <2>1. CASE p = q
    <3>1. dropped[q] \in Nat /\ j.row.unread \in Nat
      BY <1>1, <1>3 DEF PersonRow
    <3>2. people'[p].unread + dropped'[p] = j.row.unread + dropped[q] + missed
      BY <1>4, <1>6, <2>1, <3>1
    <3> QED BY <1>5, <2>1, <3>2
  <2>2. CASE p # q
    BY <1>6, <2>2 DEF ChatInv, BadgesCount
  <2> QED BY <2>1, <2>2
<1> QED BY <1>2, <1>7, <1>8, <1>9, <1>10 DEF ChatInv, ChatTypes

LEMMA PageKeeps ==
  ASSUME ChatInv, NEW c \in Call, Page(c)
  PROVE  ChatInv'
<1> DEFINE j == chatting[c]
           q == j.by
           r == [j EXCEPT !.at = "reading", !.before = counted[q]]
<1>1. j \in ChatCall /\ q \in Person /\ j.of = q
  BY DEF Page, Chatting, ChatInv, ChatTypes, CallsAreSound, Sound
<1>2. /\ chatting' = [chatting EXCEPT ![c] = r] /\ UNCHANGED <<chat, people, sent, counted, dropped>>
      /\ asked' = [asked EXCEPT ![q] = 1..sent]
  BY DEF Page
<1>3. sent \in 0..MaxMessages /\ 1..sent \subseteq Message /\ MaxMessages \in Nat
  BY MessagesAreCounted DEF ChatInv, ChatTypes, Message
<1>4. \A p \in Person : counted[p] \in SUBSET (1..sent) /\ asked[p] \in SUBSET (1..sent) /\ dropped[p] \in Nat
                       /\ people[p].unread \in Nat
  BY DEF ChatInv, ChatTypes, PersonRow
<1>5. \A p \in Person : asked'[p] = IF p = q THEN 1..sent ELSE asked[p]
  BY <1>2 DEF ChatInv, ChatTypes
<1>6. asked' \in [Person -> SUBSET (1..sent)] /\ \A p \in Person : asked[p] \subseteq asked'[p]
  <2>1. asked' = [p \in Person |-> asked'[p]]
    BY <1>2 DEF ChatInv, ChatTypes
  <2>2. \A p \in Person : asked'[p] \in SUBSET (1..sent) /\ asked[p] \subseteq asked'[p]
    BY <1>4, <1>5
  <2> QED BY <2>1, <2>2
<1>7. r \in ChatCall /\ r.at = "reading" /\ r.by = q /\ r.of = q /\ r.before = counted[q]
  <2>1. counted[q] \in SUBSET Message
    BY <1>1, <1>3, <1>4
  <2> QED BY <1>1, <2>1 DEF ChatCall
<1> HIDE DEF r
<1>8. Sound(r, sent', asked', dropped')
  <2>1. r.before \subseteq asked'[q]
    BY <1>1, <1>4, <1>5, <1>7
  <2> QED BY <1>1, <1>7, <2>1 DEF Sound
<1>9. sent' \in sent..MaxMessages /\ dropped' \in [Person -> Nat] /\ \A p \in Person : dropped[p] <= dropped'[p]
  BY <1>2, <1>3, <1>4 DEF ChatInv, ChatTypes
<1>10. chatting' \in [Call -> ChatCall] /\ CallsAreSound'
  BY <1>2, <1>6, <1>7, <1>8, <1>9, CallKeeps
<1>11. BadgesCount'
  <2> SUFFICES ASSUME NEW p \in Person
               PROVE  Cardinality(counted[p] \ asked'[p]) <= people[p].unread + dropped[p]
    BY <1>2 DEF BadgesCount
  <2>1. /\ counted[p] \ asked[p] \in SUBSET Message /\ counted[p] \ asked'[p] \in SUBSET Message
        /\ counted[p] \ asked'[p] \in SUBSET (counted[p] \ asked[p])
    BY <1>3, <1>4, <1>6
  <2>2. /\ Cardinality(counted[p] \ asked'[p]) <= Cardinality(counted[p] \ asked[p])
        /\ Cardinality(counted[p] \ asked'[p]) \in Nat /\ Cardinality(counted[p] \ asked[p]) \in Nat
    BY <2>1, FewerMessages, MessagesAreFinite
  <2>3. Cardinality(counted[p] \ asked[p]) <= people[p].unread + dropped[p]
    BY DEF ChatInv, BadgesCount
  <2> QED BY <1>4, <2>2, <2>3
<1> QED BY <1>2, <1>6, <1>10, <1>11 DEF ChatInv, ChatTypes

LEMMA StoreMessageKeeps ==
  ASSUME ChatInv, NEW c \in Call, StoreMessage(c)
  PROVE  ChatInv'
<1> DEFINE j == chatting[c]
           r == [j EXCEPT !.at = "saving", !.msg = sent + 1]
<1>1. j \in ChatCall
  BY DEF StoreMessage, Chatting, ChatInv, ChatTypes, CallsAreSound, Sound
<1>2. /\ chatting' = [chatting EXCEPT ![c] = r] /\ sent' = sent + 1 /\ sent < MaxMessages
      /\ UNCHANGED <<chat, people, counted, asked, dropped>>
  BY DEF StoreMessage, chatHistory
<1>3. sent \in 0..MaxMessages /\ MaxMessages \in Nat
  BY MessagesAreCounted DEF ChatInv, ChatTypes
<1>4. sent' \in sent..MaxMessages /\ sent' \in 0..MaxMessages /\ sent + 1 \in 0..MaxMessages /\ sent + 1 \in 1..sent'
  BY <1>2, <1>3
<1>5. /\ r \in ChatCall /\ r.at = "saving" /\ r.msg = sent + 1
      /\ r.op = j.op /\ r.status = j.status
  BY <1>1, <1>4 DEF ChatCall
<1>6. /\ counted' \in [Person -> SUBSET (1..sent')] /\ asked' \in [Person -> SUBSET (1..sent')]
  <2>1. 1..sent \subseteq 1..sent'
    BY <1>2, <1>3
  <2>2. counted \in [Person -> SUBSET (1..sent)] /\ asked \in [Person -> SUBSET (1..sent)]
    BY DEF ChatInv, ChatTypes
  <2>3. /\ counted = [p \in Person |-> counted[p]] /\ asked = [p \in Person |-> asked[p]]
        /\ \A p \in Person : counted[p] \in SUBSET (1..sent') /\ asked[p] \in SUBSET (1..sent')
    BY <2>1, <2>2
  <2>4. counted \in [Person -> SUBSET (1..sent')] /\ asked \in [Person -> SUBSET (1..sent')]
    BY <2>3
  <2> QED BY <1>2, <2>4
<1> HIDE DEF r
<1>7. Sound(r, sent', asked', dropped')
  BY <1>1, <1>4, <1>5 DEF Sound
<1>8. dropped' \in [Person -> Nat] /\ \A p \in Person : asked[p] \subseteq asked'[p] /\ dropped[p] <= dropped'[p]
  BY <1>2 DEF ChatInv, ChatTypes
<1>9. chatting' \in [Call -> ChatCall] /\ CallsAreSound'
  BY <1>2, <1>4, <1>5, <1>6, <1>7, <1>8, CallKeeps
<1>10. BadgesCount'
  BY <1>2 DEF ChatInv, BadgesCount
<1> QED BY <1>2, <1>4, <1>6, <1>8, <1>9, <1>10 DEF ChatInv, ChatTypes

LEMMA SaveChatKeeps ==
  ASSUME ChatInv, NEW c \in Call, SaveChat(c)
  PROVE  ChatInv'
<1> DEFINE j == chatting[c]
           r == [Silent EXCEPT !.op = "send", !.at = "counting", !.by = j.by, !.msg = j.msg]
<1>1. /\ j \in ChatCall
      /\ j.op = "send" => j.msg \in 1..sent
  BY DEF SaveChat, Chatting, ChatInv, ChatTypes, CallsAreSound, Sound
<1>2. /\ UNCHANGED <<people, sent, counted, asked, dropped>> /\ chat' \in {chat, j.status}
      /\ Falls(c) \/ (j.op = "send" /\ chatting' = [chatting EXCEPT ![c] = r])
  BY DEF SaveChat, chatHistory
<1>3. chat' \in ChatStatus
  BY <1>1, <1>2 DEF ChatInv, ChatTypes, ChatCall
<1>4. /\ sent' \in sent..MaxMessages /\ dropped' \in [Person -> Nat] /\ asked' \in [Person -> SUBSET (1..sent')]
      /\ \A p \in Person : asked[p] \subseteq asked'[p] /\ dropped[p] <= dropped'[p]
  BY <1>2, MessagesAreCounted DEF ChatInv, ChatTypes
<1>5. chatting' \in [Call -> ChatCall] /\ CallsAreSound'
  <2>1. CASE Falls(c)
    BY <1>2, <1>4, <2>1, EndKeeps
  <2>2. CASE j.op = "send" /\ chatting' = [chatting EXCEPT ![c] = r]
    <3>1. r \in ChatCall /\ r.at = "counting" /\ r.msg = j.msg
      BY <1>1, SilentIsSound DEF ChatCall
    <3> HIDE DEF r
    <3>2. Sound(r, sent', asked', dropped')
      BY <1>1, <1>2, <2>2, <3>1 DEF Sound
    <3> QED BY <1>4, <2>2, <3>1, <3>2, CallKeeps
  <2> QED BY <1>2, <2>1, <2>2
<1>6. ChatTypes' /\ BadgesCount'
  BY <1>2, <1>3, <1>5 DEF ChatInv, ChatTypes, BadgesCount
<1> QED BY <1>5, <1>6 DEF ChatInv

LEMMA CountMessageKeeps ==
  ASSUME ChatInv, NEW c \in Call, CountMessage(c)
  PROVE  ChatInv'
<1> DEFINE m == chatting[c].msg
           others == InChat \ {chatting[c].by}
<1>1. m \in 1..sent /\ m \in Message
  <2>1. m \in 1..sent
    BY DEF CountMessage, Chatting, ChatInv, CallsAreSound, Sound
  <2> QED BY <2>1, MessagesAreCounted DEF ChatInv, ChatTypes, Message
<1>2. /\ Falls(c) /\ UNCHANGED <<chat, sent, asked, dropped>>
      /\ people' = [p \in Person |-> IF p \in others THEN [people[p] EXCEPT !.unread = @ + 1] ELSE people[p]]
      /\ counted' = [p \in Person |-> IF p \in others THEN counted[p] \cup {m} ELSE counted[p]]
  BY DEF CountMessage
<1> HIDE DEF m, others
<1>3. \A p \in Person : /\ counted[p] \in SUBSET (1..sent) /\ counted[p] \in SUBSET Message
                       /\ people[p] \in PersonRow /\ people[p].unread \in Nat /\ dropped[p] \in Nat
  <2>1. 1..sent \subseteq Message
    BY MessagesAreCounted DEF ChatInv, ChatTypes, Message
  <2> QED BY <2>1 DEF ChatInv, ChatTypes, PersonRow
<1>4. \A row \in PersonRow : LET now == [row EXCEPT !.unread = @ + 1]
                           IN  now \in PersonRow /\ now.unread = row.unread + 1
  BY DEF PersonRow
<1>5. \A p \in Person : /\ people'[p] \in PersonRow
                       /\ people'[p].unread = IF p \in others THEN people[p].unread + 1 ELSE people[p].unread
  <2>1. \A p \in Person : people'[p] = IF p \in others THEN [people[p] EXCEPT !.unread = @ + 1] ELSE people[p]
    BY <1>2
  <2> QED BY <1>3, <1>4, <2>1
<1>6. people' \in [Person -> PersonRow]
  <2>1. people' = [p \in Person |-> people'[p]]
    BY <1>2
  <2> QED BY <1>5, <2>1
<1>7. counted' \in [Person -> SUBSET (1..sent)]
  BY <1>1, <1>2, <1>3
<1>8. \A p \in Person : dropped'[p] = dropped[p]
  BY <1>2
<1>9. chatting' \in [Call -> ChatCall] /\ CallsAreSound'
  BY <1>2, EndKeeps DEF ChatInv, ChatTypes
<1>10. BadgesCount'
  <2> SUFFICES ASSUME NEW p \in Person
               PROVE  Cardinality(counted'[p] \ asked[p]) <= people'[p].unread + dropped[p]
    BY <1>2 DEF BadgesCount
  <2>1. Cardinality(counted[p] \ asked[p]) <= people[p].unread + dropped[p]
    BY DEF ChatInv, BadgesCount
  <2>2. counted'[p] = IF p \in others THEN counted[p] \cup {m} ELSE counted[p]
    BY <1>2
  <2>3. CASE p \in others
    <3>1. Cardinality((counted[p] \cup {m}) \ asked[p]) <= Cardinality(counted[p] \ asked[p]) + 1
      BY <1>1, <1>3, OneMoreMessage
    <3>2. (counted[p] \cup {m}) \ asked[p] \in SUBSET Message /\ counted[p] \ asked[p] \in SUBSET Message
      BY <1>1, <1>3
    <3>3. Cardinality((counted[p] \cup {m}) \ asked[p]) \in Nat /\ Cardinality(counted[p] \ asked[p]) \in Nat
      BY <3>2, MessagesAreFinite
    <3>4. people'[p].unread = people[p].unread + 1 /\ counted'[p] = counted[p] \cup {m}
      BY <1>5, <2>2, <2>3
    <3> QED BY <1>3, <2>1, <3>1, <3>3, <3>4
  <2>4. CASE p \notin others
    BY <1>5, <2>1, <2>2, <2>4
  <2> QED BY <2>3, <2>4
<1> QED BY <1>2, <1>6, <1>7, <1>9, <1>10 DEF ChatInv, ChatTypes

LEMMA ChatInvStutter ==
  ASSUME ChatInv, UNCHANGED chatVars
  PROVE  ChatInv'
BY DEF ChatInv, chatVars, ChatTypes, CallsAreSound, BadgesCount

LEMMA ChatInvStep == ChatInv /\ [ChatNext]_chatVars => ChatInv'
<1> SUFFICES ASSUME ChatInv, [ChatNext]_chatVars PROVE ChatInv'
  OBVIOUS
<1>1. ASSUME NEW c \in Call, ChatStep(c) PROVE ChatInv'
  <2>1. CASE Adding(c)
    BY <2>1, FindKeeps, AddMemberKeeps, OpenerIsAPerson DEF Adding
  <2>2. CASE Members(c)
    BY <2>2, FindKeeps, RemoveKeeps, PageKeeps, ReadMemberKeeps, StoreMemberKeeps DEF Members
  <2>3. CASE Messages(c)
    BY <2>3, SendKeeps, StoreMessageKeeps, SaveChatKeeps, CountMessageKeeps, HangsKeeps DEF Messages
  <2> QED BY <1>1, <2>1, <2>2, <2>3, StatusKeeps DEF ChatStep
<1> QED BY <1>1, ChatInvStutter DEF ChatNext

LEMMA ChatAlways == ChatSpec => []ChatInv
BY ChatInvInit, ChatInvStep, PTL DEF ChatSpec

-----------------------------------------------------------------------------
(* The theorems *)

\* Badges of active members count what came after they last asked for a page (chat.service.ts
\* increments them in SQL), but for what was counted while a copy of their row was being saved.
THEOREM BadgesAlwaysCount == ChatSpec => []BadgeCounts
<1>1. ChatInv => BadgeCounts
  BY DEF ChatInv, BadgesCount, BadgeCounts, InChat
<1> QED BY <1>1, ChatAlways, PTL
=============================================================================
