------------------------------ MODULE Directory ------------------------------
(***************************************************************************)
(* Channels and their members: as Slack has them, and as the mirror's      *)
(* tables show them, which backfill, live events and requests that create  *)
(* channels write (upsert_channel and the member functions in core/db.py,  *)
(* _apply_event in service/processor.py, backfill_users_and_channels in    *)
(* sync/backfill.py, create_channel in service/app.py).                    *)
(*                                                                         *)
(* Every writer writes every column, with what it knows.  Events are       *)
(* applied in the order Slack sent them; what goes wrong with that is the  *)
(* subject of EventPipeline.  Users' rows are written by backfill only.    *)
(***************************************************************************)
EXTENDS Naturals, FiniteSets, Sequences

CONSTANTS
    Channels, Kind,   \* conversations, and the kind of each
    Users,
    Unlisted,         \* no row
    MaxChanges        \* bound: what happens at Slack, requests and backfills

ASSUME DirectoryAssumption ==
    /\ IsFiniteSet(Channels) /\ IsFiniteSet(Users)
    /\ Kind \in [Channels -> {"public", "private", "im"}]
    /\ MaxChanges \in Nat

VARIABLES
    name,             \* each channel's name at Slack, as a version; 0 before it exists
    joined,           \* who is in which channel, once it exists
    feed,             \* events stored and not yet applied
    rows,             \* the channels table
    members,          \* the channel_members table
    listing,          \* what a backfill has fetched and not yet written
    creation,         \* the request that creates a channel
    changes,          \* bound
    overtaken,        \* history: who left while a request was about to write that they joined
    untold,           \* history: members whom nothing has told the mirror of
    backfilled        \* history: channels whose row a backfill has written

historyVars == <<overtaken, untold, backfilled>>
directoryVars == <<name, joined, feed, rows, members, listing, creation, changes, historyVars>>

Row(title, kind) == [title |-> title, kind |-> kind]
NoRequest == [at |-> "none", channel |-> Unlisted, invited |-> {}]
Exists(c) == name[c] # 0

(* Direct messages are there from the start, other channels may be.  They  *)
(* have members then, and a channel that is made has its founders: of them *)
(* no event tells, and backfill asks for channels, not for their members.  *)
DirectoryInit ==
    /\ name \in [Channels -> {0, 1}] /\ \A c \in Channels : Kind[c] = "im" => Exists(c)
    /\ joined \in SUBSET (Channels \X Users) /\ untold = joined
    /\ members = {} /\ overtaken = {} /\ backfilled = {}
    /\ feed = <<>>
    /\ rows = [c \in Channels |-> Unlisted]
    /\ listing = [c \in Channels |-> Unlisted]
    /\ creation = NoRequest
    /\ changes = 0

Change ==
    /\ changes < MaxChanges
    /\ changes' = changes + 1

Event(type, c, u, title) == [type |-> type, channel |-> c, user |-> u, title |-> title]

-----------------------------------------------------------------------------
(* At Slack *)

Post(c) ==
    /\ Exists(c) /\ Change
    /\ feed' = Append(feed, Event("message", c, "nobody", 0))
    /\ UNCHANGED <<name, joined, rows, members, listing, creation, historyVars>>

(* The creation of a private channel is not announced.                     *)
Announced(c) ==
    IF Kind[c] = "public" THEN Append(feed, Event("channel_created", c, "nobody", 1)) ELSE feed

Found(c) ==
    /\ ~Exists(c) /\ Change
    /\ name' = [name EXCEPT ![c] = 1]
    /\ feed' = Announced(c)
    /\ UNCHANGED <<joined, rows, members, listing, creation, historyVars>>

RenameAtSlack(c) ==
    /\ Exists(c) /\ Kind[c] # "im" /\ Change
    /\ name' = [name EXCEPT ![c] = @ + 1]
    /\ feed' = Append(feed, Event("channel_rename", c, "nobody", name'[c]))
    /\ UNCHANGED <<joined, rows, members, listing, creation, historyVars>>

Join(c, u) ==
    /\ Exists(c) /\ <<c, u>> \notin joined /\ Change
    /\ joined' = joined \union {<<c, u>>}
    /\ feed' = Append(feed, Event("member_joined_channel", c, u, 0))
    /\ UNCHANGED <<name, rows, members, listing, creation, historyVars>>

Leave(c, u) ==
    /\ Exists(c) /\ <<c, u>> \in joined /\ Change
    /\ joined' = joined \ {<<c, u>>} /\ untold' = untold \ {<<c, u>>}
    /\ feed' = Append(feed, Event("member_left_channel", c, u, 0))
    /\ UNCHANGED <<name, rows, members, listing, creation, overtaken, backfilled>>

-----------------------------------------------------------------------------
(* Live events *)

(* An event that tells no name leaves the channel with its id for one, and *)
(* none of them tells its kind: what is not told is public.                *)
RowOf(e) ==
    CASE e.type \in {"message", "member_joined_channel"} -> Row(0, "public")
      [] e.type \in {"channel_created", "channel_rename"} -> Row(e.title, "public")
      [] OTHER -> rows[e.channel]

MembersAfter_joinsOnly(e) ==
    IF e.type = "member_joined_channel" THEN members \union {<<e.channel, e.user>>} ELSE members

MembersAfter(e) ==
    IF e.type = "member_joined_channel" THEN members \union {<<e.channel, e.user>>}
    ELSE IF e.type = "member_left_channel" THEN members \ {<<e.channel, e.user>>}
    ELSE members

ApplyNext ==
    /\ feed # <<>>
    /\ LET e == Head(feed) IN
       /\ rows' = [rows EXCEPT ![e.channel] = RowOf(e)]
       /\ members' = MembersAfter(e)
       /\ overtaken' = IF e.type = "member_left_channel" /\ creation.channel = e.channel
                            /\ e.user \in creation.invited
                       THEN overtaken \union {<<e.channel, e.user>>} ELSE overtaken
    /\ feed' = Tail(feed)
    /\ UNCHANGED <<name, joined, listing, creation, changes, untold, backfilled>>

-----------------------------------------------------------------------------
(* Backfill *)

FetchListing ==
    /\ \A c \in Channels : listing[c] = Unlisted
    /\ Change
    /\ listing' = [c \in Channels |-> IF Exists(c) THEN Row(name[c], Kind[c]) ELSE Unlisted]
    /\ UNCHANGED <<name, joined, feed, rows, members, creation, historyVars>>

WriteListed(c) ==
    /\ listing[c] # Unlisted
    /\ rows' = [rows EXCEPT ![c] = listing[c]]
    /\ listing' = [listing EXCEPT ![c] = Unlisted]
    /\ backfilled' = backfilled \union {c}
    /\ UNCHANGED <<name, joined, feed, members, creation, changes, overtaken, untold>>

-----------------------------------------------------------------------------
(* Requests *)

(* The name asked for is c's, private or public.  A row that has it and is *)
(* of another kind refuses the request; a name that the rows do not have   *)
(* is made at Slack, which refuses one it has.                             *)
FoundByName(c) == rows[c] # Unlisted /\ rows[c].title = name[c] /\ Exists(c)

CreateChannel(c, invited) ==
    /\ creation = NoRequest /\ Kind[c] # "im" /\ Change
    /\ IF FoundByName(c)
       THEN rows[c].kind = Kind[c] /\ UNCHANGED <<name, rows, feed>>
       ELSE /\ ~Exists(c)
            /\ name' = [name EXCEPT ![c] = 1]
            /\ rows' = [rows EXCEPT ![c] = Row(1, Kind[c])]
            /\ feed' = Announced(c)
    /\ creation' = [at |-> "invite", channel |-> c, invited |-> invited]
    /\ UNCHANGED <<joined, members, listing, historyVars>>

Invite ==
    LET c == creation.channel
        fresh == {u \in creation.invited : <<c, u>> \notin joined}
    IN /\ creation.at = "invite"
       /\ joined' = joined \union {<<c, u>> : u \in fresh}
       /\ \E order \in {s \in [1 .. Cardinality(fresh) -> fresh] :
                          \A u \in fresh : \E i \in DOMAIN s : s[i] = u} :
            feed' = feed \o [i \in DOMAIN order |->
                               Event("member_joined_channel", c, order[i], 0)]
       /\ creation' = [creation EXCEPT !.at = "write"]
       /\ UNCHANGED <<name, rows, members, listing, changes, historyVars>>

(* The members it invited are written after Slack answered.                *)
WriteInvited ==
    /\ creation.at = "write"
    /\ IF creation.invited = {}
       THEN creation' = NoRequest /\ UNCHANGED <<members, untold>>
       ELSE \E u \in creation.invited :
              /\ members' = members \union {<<creation.channel, u>>}
              /\ untold' = untold \ {<<creation.channel, u>>}
              /\ creation' = [creation EXCEPT !.invited = @ \ {u}]
    /\ UNCHANGED <<name, joined, feed, rows, listing, changes, overtaken, backfilled>>

(* Slack refuses the invitation, or the request ends.                      *)
CreationFails ==
    /\ creation.at # "none"
    /\ creation' = NoRequest
    /\ UNCHANGED <<name, joined, feed, rows, members, listing, changes, historyVars>>

DirectoryNext ==
    \/ \E c \in Channels :
         \/ Post(c) \/ Found(c) \/ RenameAtSlack(c) \/ WriteListed(c)
         \/ \E u \in Users : Join(c, u) \/ Leave(c, u)
         \/ \E invited \in SUBSET Users : CreateChannel(c, invited)
    \/ ApplyNext \/ FetchListing \/ Invite \/ WriteInvited \/ CreationFails

DirectorySpec == DirectoryInit /\ [][DirectoryNext]_directoryVars

-----------------------------------------------------------------------------
(* Properties *)

Rows == [title : 0 .. MaxChanges + 1, kind : {"public", "private", "im"}] \union {Unlisted}

DirectoryTypeOK ==
    /\ name \in [Channels -> 0 .. MaxChanges + 1]
    /\ joined \subseteq Channels \X Users /\ members \subseteq Channels \X Users
    /\ overtaken \subseteq Channels \X Users /\ untold \subseteq joined
    /\ backfilled \subseteq Channels
    /\ rows \in [Channels -> Rows] /\ listing \in [Channels -> Rows]
    /\ creation.at \in {"none", "invite", "write"} /\ creation.invited \subseteq Users
    /\ changes \in 0 .. MaxChanges

Settled == feed = <<>> /\ creation = NoRequest /\ \A c \in Channels : listing[c] = Unlisted

(* Once every event is applied, the members table has just those who are   *)
(* in a channel, whether they joined or were invited by a request, but for *)
(* two: members from before the mirror and founders are not in it until an *)
(* event or a request tells of them, and whoever left again before a       *)
(* request wrote what Slack had answered it may stay                       *)
(* (create_channel, upsert_channel_member, backfill_users_and_channels).   *)
MembersFollow ==
    Settled => members \ overtaken = (joined \ untold) \ overtaken

(* What conversations.list offers to find: a conversation that has been    *)
(* backfilled is listed as what it is, once every event is applied         *)
(* (docs/API_MCP_CONTRACT.md).                                             *)
ListedAsWhatItIs ==
    Settled => \A c \in backfilled : rows[c].kind = Kind[c]
=============================================================================
