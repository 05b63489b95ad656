---------------------------- MODULE RankingIndex ----------------------------
(***************************************************************************)
(* The Redis index of one leaderboard window and generation, as one user   *)
(* is seen in it: the user's entry with its revision or tombstone, and the *)
(* hot snapshot that anonymous readers get.  Each Lua script is one step.  *)
(***************************************************************************)
EXTENDS Integers

VARIABLES
    member,    \* versions and users: the entry of the user
    changes,   \* revision of the index: scripts that changed it
    dirty,     \* the window has changed since it was last published
    hot        \* the published snapshot

index == <<member, changes, dirty, hot>>

NoMember == [revision |-> -1, listed |-> FALSE, tokens |-> 0]
NoHot == [changes |-> 0, member |-> NoMember]

IgnoredNever(row) == FALSE   \* mutant: revisions are not compared

\* A late or repeated row: older than the entry, or of its revision unless it is a
\* removal of what is still listed.
Ignored(row) ==
    \/ row.revision < member.revision
    \/ row.revision = member.revision /\ (row.listed \/ ~member.listed)

\* applyScript
Apply(row) ==
    \/ /\ Ignored(row)
       /\ UNCHANGED index
    \/ /\ ~Ignored(row)
       /\ member' = [revision |-> row.revision, listed |-> row.listed,
                     tokens |-> IF row.listed THEN row.tokens ELSE 0]
       /\ changes' = changes + 1
       /\ dirty' = TRUE
       /\ UNCHANGED hot

\* captureScript: what is in the index and its revision, in one read.
Captured == [changes |-> changes, member |-> member]

StaleNever(snapshot) == FALSE   \* mutant: any complete snapshot is taken

\* publishScript refuses a snapshot older than the published one.
StaleSnapshot(snapshot) == snapshot.changes < hot.changes

\* publishScript; a refused publication sets the window dirty again if it was.
Publish(snapshot, wasDirty) ==
    /\ \/ StaleSnapshot(snapshot) /\ dirty' = (dirty \/ wasDirty) /\ UNCHANGED hot
       \/ ~StaleSnapshot(snapshot) /\ hot' = snapshot /\ UNCHANGED dirty
    /\ UNCHANGED <<member, changes>>

InitIndex == member = NoMember /\ changes = 0 /\ dirty = FALSE /\ hot = NoHot

=============================================================================
