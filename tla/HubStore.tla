------------------------------- MODULE HubStore -------------------------------
(***************************************************************************)
(* The hub, channel and member tables of PostgreSQL, and what each         *)
(* statement of HubRepository does to them: one operator per statement,    *)
(* each a transaction of its own.  A statement that a constraint or a      *)
(* trigger refuses raises in the code and changes nothing here; its        *)
(* condition is an operator of its own.                                    *)
(***************************************************************************)
EXTENDS Maps, FiniteSets, Integers

CONSTANTS Hubs, Channels, Users,
          Names,                               \* of hubs and channels, seeds and channel types
          MaxHubsPerOwner, MaxChannelsPerHub   \* the limits of the schema's triggers

\* The schema's default seed, and the default channel of a new hub.
ASSUME NamesAssumption == {"Felix", "general", "text", "home"} \subseteq Names

Roles == {"OWNER", "ADMIN", "USER"}

-----------------------------------------------------------------------------
(* What the schema refuses                                                 *)

HubsOwnedBy(db, u) == {h \in DOMAIN db.hubs : db.hubs[h].owner = u}

\* idx_hubs_owner_name_unique
HubNameFree(db, u, name, self) == \A g \in HubsOwnedBy(db, u) \ self : db.hubs[g].name # name

\* enforce_max_hubs_per_owner
BelowHubLimit(db, u) == Cardinality(HubsOwnedBy(db, u)) < MaxHubsPerOwner

ChannelsOf(db, h) == {c \in DOMAIN db.channels : db.channels[c].hub = h}

\* idx_channels_hub_name_unique
ChannelNameFree(db, h, name, self) == \A d \in ChannelsOf(db, h) \ self : db.channels[d].name # name

\* enforce_max_channels_per_hub
BelowChannelLimit(db, h) == Cardinality(ChannelsOf(db, h)) < MaxChannelsPerHub

\* prevent_invalid_owner_role
OwnerRoleValid(db, h, u, role) == role = "OWNER" => db.hubs[h].owner = u

-----------------------------------------------------------------------------
(* The statements                                                          *)

\* ensure_owner_membership runs in the transaction that inserts the hub.
WithOwnerMembership(db, h, u) == [db EXCEPT !.members = Put(@, <<h, u>>, "OWNER")]

CreateHubRow(db, h, u, name) ==
    WithOwnerMembership([db EXCEPT !.hubs = Put(@, h, [owner |-> u, name |-> name, seed |-> "Felix"]),
                                   !.issued = @ \cup {h}], h, u)

\* The foreign key on the hub, and the role trigger.
CanAddMember(db, h, u, role) == h \in DOMAIN db.hubs /\ OwnerRoleValid(db, h, u, role)

\* ON CONFLICT DO UPDATE: a second insert changes the role.
AddMemberRow(db, h, u, role) == [db EXCEPT !.members = Put(@, <<h, u>>, role)]

RemoveMemberRow(db, h, u) == [db EXCEPT !.members = Erase(@, <<h, u>>)]

RenameHubRow(db, h, name) == [db EXCEPT !.hubs[h].name = name]

UpdateHubSeedRow(db, h, seed) == [db EXCEPT !.hubs[h].seed = seed]

\* The row goes only for its owner.
DeletesHub(db, h, u) == h \in DOMAIN db.hubs /\ db.hubs[h].owner = u

\* ON DELETE CASCADE takes the channels and the members along.
DeleteHubRow(db, h) ==
    [db EXCEPT !.hubs = Erase(@, h),
               !.channels = Restrict(@, DOMAIN @ \ ChannelsOf(db, h)),
               !.members = Restrict(@, {p \in DOMAIN @ : p[1] # h})]

CreateChannelRow(db, c, h, name, type) ==
    [db EXCEPT !.channels = Put(@, c, [hub |-> h, name |-> name, type |-> type]),
               !.issued = @ \cup {c}]

RenameChannelRow(db, c, name) == [db EXCEPT !.channels[c].name = name]

\* WHERE id = ... AND hub_id = ...
DeletesChannel(db, c, h) == c \in ChannelsOf(db, h)

DeleteChannelRow(db, c) == [db EXCEPT !.channels = Erase(@, c)]

-----------------------------------------------------------------------------
(* The queries                                                             *)

RowsOf(db, hs) == Restrict(db.hubs, hs \cap DOMAIN db.hubs)

HubsOfUser(db, u) == {h \in DOMAIN db.hubs : <<h, u>> \in DOMAIN db.members}

MembersOf(db, h) == {u \in Users : <<h, u>> \in DOMAIN db.members}

RolesIn(db, h) == [u \in MembersOf(db, h) |-> db.members[<<h, u>>]]

ChannelRows(db, cs) == Restrict(db.channels, cs \cap DOMAIN db.channels)

=============================================================================
