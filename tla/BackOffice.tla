----------------------------- MODULE BackOffice -----------------------------
(***************************************************************************)
(* What the administration of a shop changes: themes, orders, and here its *)
(* sales channels and the stock at a location.                             *)
(*                                                                         *)
(* The routes of a sales channel read the row, update it and read it       *)
(* again.  The workflow that brings in stock reads the levels of the       *)
(* location, creates those that are missing and updates the others; both   *)
(* are the framework's, all or nothing, and a create is undone when a      *)
(* later step fails.                                                       *)
(***************************************************************************)
EXTENDS Themes, Orders

CONSTANTS
  Channels, ChannelCalls,
  Items, SyncCalls,
  Workloads   \* bound: what happens in one behaviour

VARIABLES
  channel,      \* sales_channel
  channelCall,
  asked,        \* who was the last to change the name and the state of each
  stock,        \* inventory_level of the location: who wrote it last
  sync,
  workload

channelVars == <<channel, channelCall, asked>>
stockVars == <<stock, sync>>
vars == <<themeVars, orderVars, channelVars, stockVars, workload>>

ASSUME NullAssumption == None \notin ChannelCalls \cup SyncCalls
ASSUME WorkloadAssumption == Workloads \subseteq SUBSET {"themes", "orders", "channels", "stock"}

NoChannel == [name |-> None, state |-> None, deleted |-> FALSE]
Channel == [name : ChannelCalls, state : ChannelCalls, deleted : BOOLEAN]
Fields == {"name", "state"}
ChannelCall == [pc : {"new", "answered", "refused", "crashed"}]
               \cup [pc : {"update"}, channel : Channels, fields : SUBSET Fields, seen : Channel]
               \cup [pc : {"reread", "delete"}, channel : Channels]
Sync == [pc : {"new", "answered", "failed"}, levels : SUBSET Items]
        \cup [pc : {"create", "update"}, levels : SUBSET Items, creates : SUBSET Items]

Init == /\ workload \in Workloads
        /\ ThemesInit /\ OrdersInit
        /\ channel = [c \in Channels |-> NoChannel]
        /\ channelCall = [r \in ChannelCalls |-> [pc |-> "new"]]
        /\ asked = [c \in Channels |-> [name |-> None, state |-> None]]
        /\ stock = [i \in Items |-> None]
        /\ sync = [r \in SyncCalls |-> [pc |-> "new", levels |-> {}]]
-----------------------------------------------------------------------------
(* Sales channels.                                                         *)

PutChannelCall(r, q) == channelCall' = [channelCall EXCEPT ![r] = q]
Listed == {c \in Channels : channel[c] # NoChannel /\ ~channel[c].deleted}
GetTenantChannel(c) == IF c \in Listed THEN channel[c] ELSE NoChannel

\* The idempotency key is required and not looked at.
CreateChannel(r) ==
  /\ channelCall[r].pc = "new"
  /\ \E c \in Channels :
       /\ channel[c] = NoChannel
       /\ channel' = [channel EXCEPT ![c] = [name |-> r, state |-> r, deleted |-> FALSE]]
       /\ asked' = [asked EXCEPT ![c] = [name |-> r, state |-> r]]
       /\ PutChannelCall(r, [pc |-> "reread", channel |-> c])

\* Nothing to change, or an empty name, is refused after the row was found.
FindChannel(r) ==
  /\ channelCall[r].pc = "new"
  /\ \E c \in Channels, fields \in SUBSET Fields, delete \in BOOLEAN :
       PutChannelCall(r, IF GetTenantChannel(c) = NoChannel \/ (fields = {} /\ ~delete) THEN [pc |-> "refused"]
                         ELSE IF delete THEN [pc |-> "delete", channel |-> c]
                         ELSE [pc |-> "update", channel |-> c, fields |-> fields, seen |-> channel[c]])
  /\ UNCHANGED <<channel, asked>>

\* Only the fields of the body are written - to a deleted row as well.
Changed(r, q) == [channel[q.channel] EXCEPT !.name = IF "name" \in q.fields THEN r ELSE @,
                                            !.state = IF "state" \in q.fields THEN r ELSE @]

UpdateChannel(r) ==
  /\ channelCall[r].pc = "update"
  /\ LET q == channelCall[r] IN
     /\ channel' = [channel EXCEPT ![q.channel] = Changed(r, q)]
     /\ asked' = [asked EXCEPT ![q.channel] = [x \in Fields |-> IF x \in q.fields THEN r ELSE @[x]]]
     /\ PutChannelCall(r, [pc |-> "reread", channel |-> q.channel])

\* A channel that is gone by now has no name to answer with.
RereadChannel(r) ==
  /\ channelCall[r].pc = "reread"
  /\ PutChannelCall(r, [pc |-> IF GetTenantChannel(channelCall[r].channel) # NoChannel THEN "answered" ELSE "crashed"])
  /\ UNCHANGED <<channel, asked>>

DeleteChannel(r) ==
  /\ channelCall[r].pc = "delete"
  /\ channel' = [channel EXCEPT ![channelCall[r].channel].deleted = TRUE]
  /\ PutChannelCall(r, [pc |-> "answered"])
  /\ UNCHANGED asked

ChannelsNext == \E r \in ChannelCalls :
  CreateChannel(r) \/ FindChannel(r) \/ UpdateChannel(r) \/ RereadChannel(r) \/ DeleteChannel(r)
-----------------------------------------------------------------------------
(* syncInventoryByLocationWorkflow.                                        *)

PutSync(r, q) == sync' = [sync EXCEPT ![r] = q]
Write(r, items) == stock' = [i \in Items |-> IF i \in items THEN r ELSE stock[i]]
SyncDone(r, pc) == PutSync(r, [pc |-> pc, levels |-> sync[r].levels])

\* What the route lets through: one level at least.
Levels == SUBSET Items \ {{}}

SplitLevels(r) ==
  /\ sync[r].pc = "new"
  /\ \E levels \in Levels :
       PutSync(r, [pc |-> "create", levels |-> levels, creates |-> {i \in levels : stock[i] = None}])
  /\ UNCHANGED stock

\* One level per item and location: a create of one that has come since fails.
CreateLevels(r) ==
  /\ sync[r].pc = "create"
  /\ IF \A i \in sync[r].creates : stock[i] = None
     THEN Write(r, sync[r].creates) /\ PutSync(r, [sync[r] EXCEPT !.pc = "update"])
     ELSE SyncDone(r, "failed") /\ UNCHANGED stock

\* Variant: what was created stays when an update fails.
Undone_Kept(r) == {}
Undone(r) == sync[r].creates

\* The update of a level that is gone fails, or fails for its own reasons.
UpdateLevels(r) ==
  /\ sync[r].pc = "update"
  /\ LET updates == sync[r].levels \ sync[r].creates IN
     \/ /\ \A i \in updates : stock[i] # None
        /\ Write(r, updates) /\ SyncDone(r, "answered")
     \/ /\ updates # {}
        /\ stock' = [i \in Items |-> IF i \in Undone(r) THEN None ELSE stock[i]]
        /\ SyncDone(r, "failed")

StockNext == \E r \in SyncCalls : SplitLevels(r) \/ CreateLevels(r) \/ UpdateLevels(r)
-----------------------------------------------------------------------------
Next ==
  \/ "themes" \in workload /\ ThemesNext /\ UNCHANGED <<orderVars, channelVars, stockVars, workload>>
  \/ "orders" \in workload /\ OrdersNext /\ UNCHANGED <<themeVars, channelVars, stockVars, workload>>
  \/ "channels" \in workload /\ ChannelsNext /\ UNCHANGED <<themeVars, orderVars, stockVars, workload>>
  \/ "stock" \in workload /\ StockNext /\ UNCHANGED <<themeVars, orderVars, channelVars, workload>>

Spec == Init /\ [][Next]_vars
-----------------------------------------------------------------------------
\* The type invariant: rows and requests are what the code builds.
TypeOK ==
  /\ theme \in [ThemeCalls -> Theme] /\ config \in [ThemeCalls -> ThemeCalls \cup {None}]
  /\ publish \in [ThemeCalls -> Publish] /\ themeCall \in [ThemeCalls -> ThemeCall]
  /\ fulfillments \in [Rows -> Fulfillment] /\ returns \in [Rows -> Return]
  /\ refunds \in [Rows -> Refund]
  /\ channel \in [Channels -> Channel \cup {NoChannel}] /\ channelCall \in [ChannelCalls -> ChannelCall]
  /\ stock \in [Items -> SyncCalls \cup {None}] /\ sync \in [SyncCalls -> Sync]

\* From the first theme on the storefront shows one, with settings, whatever
\* upload is cut short or refused; and two themes of a tenant are active
\* only when their uploads overlapped.
OneThemeShown ==
  /\ Stored # {} => StorefrontConfig.theme # None /\ StorefrontConfig.config # None
  /\ \A x, y \in Active : x = y \/ <<x, y>> \in overlapped \/ <<y, x>> \in overlapped

\* An edit of the active theme changes what the storefront shows, unless an
\* upload is committed while it runs or more than one theme is active.
EditIsShown ==
  [][\A r \in ThemeCalls :
       LET q == themeCall[r] IN
       q.pc = "edit" /\ q.default /\ themeCall'[r].pc = "done"
         => q.moved \/ Cardinality(Active) > 1 \/ StorefrontConfig'.config = r]_vars

Types(events) == {events[k].type : k \in 1..Len(events)}
Listing(events, type, id) == \E k \in 1..Len(events) : events[k].type = type /\ events[k].id = id

\* A timeline has everything that had happened to the order when it was
\* asked for, although its tables are read at different times.
HasAll(t, events) ==
  /\ Listing(events, "order.created", 0)
  /\ \A f \in Existing(t["fulfillment"]) :
       /\ Listing(events, "fulfillment.created", f)
       /\ t["fulfillment"][f].tracked => Listing(events, "fulfillment.shipped", f)
  /\ \A x \in Existing(t["refund"]) : Listing(events, "refund.created", x)
  /\ \A x \in Existing(t["return"]) : Listing(events, "return.created", x)

\* The newest event comes first, and nothing comes after the order's
\* creation but what happened at the same time.
InOrder(events) ==
  /\ \A m, n \in 1..Len(events) : m < n => events[m].at >= events[n].at
  /\ events[Len(events)].at = order.created

\* A timeline read while the order changes is complete and in order.
TimelineIsTrue ==
  \A q \in Readers : timeline[q].pc = "answered" =>
    HasAll(timeline[q].before, timeline[q].events) /\ InOrder(timeline[q].events)

\* Edits of different fields of a channel both survive, and a sync that has
\* failed leaves none of its quantities behind.
RowsAsAnswered ==
  /\ \A c \in Channels : asked[c] = [name |-> channel[c].name, state |-> channel[c].state]
  /\ \A i \in Items, r \in SyncCalls : sync[r].pc = "failed" => stock[i] # r
=============================================================================
