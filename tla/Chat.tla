---------------------------------- MODULE Chat ----------------------------------
(***************************************************************************)
(* One group chat (src/api/src/chat/chat.service.ts): members come and go, *)
(* messages are sent and counted on the others' badges, reading the        *)
(* messages clears one's own.  Nothing is locked, and a chat is saved with *)
(* the list of members it was loaded with: TypeORM then tries to unlink    *)
(* the members it does not find in that list, whose chat_id may not be     *)
(* NULL, so that the save fails.                                           *)
(*                                                                         *)
(* message_read_status.organization_id is NOT NULL and never set: nothing  *)
(* is ever stored by markMessagesAsDelivered and markMessagesAsRead, which *)
(* are left out, and getMessages ends in that error after what it saves    *)
(* here.  Deletion of messages, attachments and mentions are left out.     *)
(***************************************************************************)
EXTENDS Server

CONSTANTS
  Person, Opener,  \* users of the organization, and the one who opened the group
  MaxMessages      \* bound: messages sent

ASSUME OpenerIsAPerson == Opener \in Person
ASSUME MessagesAreCounted == MaxMessages \in Nat

VARIABLES
  chat,      \* chats.status
  people,    \* the chat_members row of each person: status and unread_count
  sent,      \* messages stored
  chatting,  \* what each call has read and where it stands
  counted,   \* history: the messages counted on each person's badge
  asked,     \* history: the messages stored when a person last asked for a page of them
  dropped    \* history: messages counted while a copy of the row was about to be saved

chatVars == <<chat, people, sent, chatting, counted, asked, dropped>>
chatHistory == <<counted, asked, dropped>>

Message == 1..MaxMessages
ChatStatus == {"active", "archived", "deleted"}
PersonRow == [status : {"none", "active", "left", "removed"}, unread : Nat]
Stranger == [status |-> "none", unread |-> 0]

\* `by` calls about `of`; `status` and `members` are those of the copy of the chat, `row` the
\* copy of a member's row, `before` what had been counted when it was read.
Silent == [op |-> "none", at |-> "idle", by |-> None, of |-> None, msg |-> 0,
           status |-> "active", members |-> {}, row |-> Stranger, before |-> {}]

InChat == {p \in Person : people[p].status = "active"}
Listed == {p \in Person : people[p].status # "none"}

\* createChat: the creator, and whoever is added at once.
ChatInit ==
  /\ chat = "active"
  /\ \E first \in SUBSET Person :
       people = [p \in Person |-> IF p \in first \cup {Opener}
                                  THEN [status |-> "active", unread |-> 0] ELSE Stranger]
  /\ sent = 0
  /\ chatting = [c \in Call |-> Silent]
  /\ counted = [p \in Person |-> {}] /\ asked = [p \in Person |-> {}]
  /\ dropped = [p \in Person |-> 0]

-----------------------------------------------------------------------------
OnlyChatting == UNCHANGED <<chat, people, sent, chatHistory>>

Chatting(c, at) == chatting[c].at = at
Falls(c) == chatting' = [chatting EXCEPT ![c] = Silent]

\* findOne: the chat, in whatever status, for an active member.
FindChat(c, op, by, of, at) ==
  /\ chatting[c] = Silent /\ by \in InChat
  /\ chatting' = [chatting EXCEPT ![c] = [Silent EXCEPT !.op = op, !.at = at, !.by = by, !.of = of]]
  /\ OnlyChatting

\* A call that will save the chat, with the list of members it was loaded with.
LoadChat(c, op, by, at, status) ==
  /\ chatting[c] = Silent /\ by \in InChat
  /\ chatting' = [chatting EXCEPT ![c] =
       [Silent EXCEPT !.op = op, !.at = at, !.by = IF op = "send" THEN by ELSE None,
                      !.status = status, !.members = Listed]]
  /\ OnlyChatting

\* updateChat and deleteChat are for the owner, archiveChat for every member.
UpdateChat(c) == LoadChat(c, "update", Opener, "saving", chat)
DeleteChat(c) == LoadChat(c, "delete", Opener, "saving", "deleted")
ArchiveChat(c, by, status) == status # "deleted" /\ LoadChat(c, "archive", by, "saving", status)

SaveChat(c) ==
  LET j == chatting[c]
  IN  /\ Chatting(c, "saving")
      /\ IF j.members # Listed THEN Falls(c) /\ UNCHANGED chat
         ELSE /\ chat' = j.status
              /\ IF j.op # "send" THEN Falls(c)
                 ELSE chatting' = [chatting EXCEPT ![c] = [Silent EXCEPT !.op = "send", !.at = "counting",
                                                                         !.by = j.by, !.msg = j.msg]]
      /\ UNCHANGED <<people, sent, chatHistory>>

-----------------------------------------------------------------------------
(* Members *)

\* addMembers inserts a row for whoever was not an active member; the unique index on
\* (chat_id, user_id) refuses it for one who has been a member.
AddMember(c) ==
  LET p == chatting[c].of
  IN  /\ Chatting(c, "adding")
      /\ people' = IF people[p].status = "none" THEN [people EXCEPT ![p].status = "active"] ELSE people
      /\ Falls(c)
      /\ UNCHANGED <<chat, sent, chatHistory>>

\* removeMember has read the row with the chat; leaveChat and getMessages read it later.
RemoveMember(c, p) ==
  /\ chatting[c] = Silent /\ Opener \in InChat /\ p \in Listed \ {Opener}
  /\ chatting' = [chatting EXCEPT ![c] =
       [Silent EXCEPT !.op = "remove", !.at = "storing", !.by = Opener, !.of = p,
                      !.row = [people[p] EXCEPT !.status = "removed"], !.before = counted[p]]]
  /\ OnlyChatting

ReadMember(c) ==
  LET j == chatting[c]
      row == people[j.by]
  IN  /\ Chatting(c, "reading")
      /\ chatting' = [chatting EXCEPT ![c] =
           IF j.op = "leave"
           THEN [j EXCEPT !.at = "storing", !.row = [row EXCEPT !.status = "left"], !.before = counted[j.by]]
           ELSE [j EXCEPT !.at = "storing", !.row = [row EXCEPT !.unread = 0]]]
      /\ OnlyChatting

StoreMember(c) ==
  LET j == chatting[c]
  IN  /\ Chatting(c, "storing")
      /\ people' = [people EXCEPT ![j.of] = j.row]
      /\ dropped' = [dropped EXCEPT ![j.of] = @ + Cardinality(counted[j.of] \ j.before)]
      /\ Falls(c)
      /\ UNCHANGED <<chat, sent, counted, asked>>

-----------------------------------------------------------------------------
(* Messages *)

\* getMessages: a page, of the newest messages or of some older ones, and then the badge,
\* which is cleared whatever the page holds.
Page(c) ==
  LET j == chatting[c]
  IN  /\ Chatting(c, "paging")
      /\ asked' = [asked EXCEPT ![j.by] = 1..sent]
      /\ chatting' = [chatting EXCEPT ![c] = [@ EXCEPT !.at = "reading", !.before = counted[j.by]]]
      /\ UNCHANGED <<chat, people, sent, counted, dropped>>

\* sendMessage: the message, the chat's last message, the badges.
SendMessage(c, by) == sent < MaxMessages /\ LoadChat(c, "send", by, "sending", chat)

StoreMessage(c) ==
  /\ Chatting(c, "sending")
  /\ sent < MaxMessages
  /\ sent' = sent + 1
  /\ chatting' = [chatting EXCEPT ![c] = [@ EXCEPT !.at = "saving", !.msg = sent + 1]]
  /\ UNCHANGED <<chat, people, chatHistory>>

\* Mutant: whoever writes is taken to have read everything.
CountAndClear(c) ==
  LET j == chatting[c]
      others == InChat \ {j.by}
  IN  /\ Chatting(c, "counting")
      /\ people' = [p \in Person |-> IF p \in others THEN [people[p] EXCEPT !.unread = @ + 1]
                                     ELSE IF p = j.by THEN [people[p] EXCEPT !.unread = 0] ELSE people[p]]
      /\ counted' = [p \in Person |-> IF p \in others THEN counted[p] \cup {j.msg} ELSE counted[p]]
      /\ Falls(c)
      /\ UNCHANGED <<chat, sent, asked, dropped>>

\* One UPDATE ... SET unread_count = unread_count + 1.
CountMessage(c) ==
  LET j == chatting[c]
      others == InChat \ {j.by}
  IN  /\ Chatting(c, "counting")
      /\ people' = [p \in Person |-> IF p \in others THEN [people[p] EXCEPT !.unread = @ + 1] ELSE people[p]]
      /\ counted' = [p \in Person |-> IF p \in others THEN counted[p] \cup {j.msg} ELSE counted[p]]
      /\ Falls(c)
      /\ UNCHANGED <<chat, sent, asked, dropped>>

-----------------------------------------------------------------------------
\* An error or a restart ends a call where it stands.
Hangs(c) == chatting[c] # Silent /\ Falls(c) /\ OnlyChatting

\* Its name and its status; its members and their badges; its messages.
Status(c) ==
  \/ UpdateChat(c) \/ DeleteChat(c)
  \/ \E p \in Person, status \in ChatStatus : ArchiveChat(c, p, status)

Adding(c) == (\E p \in Person \ InChat : FindChat(c, "add", Opener, p, "adding")) \/ AddMember(c)

Members(c) ==
  \/ \E p \in Person :
       \/ RemoveMember(c, p)
       \/ p # Opener /\ FindChat(c, "leave", p, p, "reading")
       \/ FindChat(c, "read", p, p, "paging")
  \/ Page(c) \/ ReadMember(c) \/ StoreMember(c)

Messages(c) ==
  \/ \E p \in Person : SendMessage(c, p)
  \/ StoreMessage(c) \/ SaveChat(c) \/ CountMessage(c) \/ Hangs(c)

ChatStep(c) == Status(c) \/ Adding(c) \/ Members(c) \/ Messages(c)
ChatNext == \E c \in Call : ChatStep(c)
ChatSpec == ChatInit /\ [][ChatNext]_chatVars

-----------------------------------------------------------------------------
(* Properties *)

\* The badge counts every message that was counted and that came after its reader last
\* asked for a page, except those counted while a copy of the reader's row was about to be
\* saved. (Older ones are off the badge although they may have been on no page.)
BadgeCounts ==
  \A p \in InChat : Cardinality(counted[p] \ asked[p]) <= people[p].unread + dropped[p]
=============================================================================
