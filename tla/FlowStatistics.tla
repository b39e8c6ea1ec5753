--------------------------- MODULE FlowStatistics ---------------------------
(***************************************************************************)
(* FastPath with a tally of what happens to the entries of the flow table, *)
(* kept from what is seen of them and not from where the code counts.      *)
(***************************************************************************)
EXTENDS FastPath

VARIABLES
    known,              \* the entries classified since they were made or last closed
    classifications,    \* how often an entry became one of them
    forgotten,          \* the entries evicted or cleaned up so far, ...
    forgottenBlocked    \* ... and those of them that were blocked

statisticsVars == <<known, classifications, forgotten, forgottenBlocked>>

NothingTallied == /\ known = {} /\ classifications = 0
                  /\ forgotten = 0 /\ forgottenBlocked = 0

SInit == Init /\ NothingTallied

(* The entry of p's flow before p, and behind two stages of processPacket(). *)
EntryBefore(p)  == IF p.tuple \in DOMAIN table THEN table[p.tuple] ELSE NewConnection(now)
EntryTracked(p) == TrackTCP(UpdateConnection(EntryBefore(p), now), p)
EntrySeen(p)    == Inspected(EntryTracked(p), p)

StillKnown(p) == known \ {t \in {p.tuple} : EntryTracked(p).state = "CLOSED"}
Learns(p)     == EntrySeen(p).state = "CLASSIFIED" /\ p.tuple \notin StillKnown(p)

BlockedEntries == {t \in DOMAIN table : table[t].state = "BLOCKED"}

(* A step that looked up or made the entries of touched. *)
Forget(touched) ==
    /\ forgotten' = forgotten + Cardinality((DOMAIN table \cup touched) \ DOMAIN table')
    /\ forgottenBlocked' = forgottenBlocked + Cardinality(BlockedEntries \ DOMAIN table')

(* The tally of a packet, and of a cleanup or any other step. *)
TallyPacket(p) ==
    /\ \/ /\ IsBlocked(p.tuple)
          /\ known' = known \cap DOMAIN table'
          /\ UNCHANGED classifications
       \/ /\ ~IsBlocked(p.tuple)
          /\ known' = (StillKnown(p) \cup {t \in {p.tuple} : Learns(p)}) \cap DOMAIN table'
          /\ classifications' = classifications + Count(Learns(p))
    /\ Forget({p.tuple})

TallyCleanup == /\ known' = known \cap DOMAIN table'
                /\ UNCHANGED classifications
                /\ Forget({})

SProcessPacket(p) == ProcessPacket(p) /\ TallyPacket(p)

SIdleCleanup == IdleCleanup /\ TallyCleanup

STick == Tick /\ UNCHANGED statisticsVars

SNext == (\E p \in Packets : SProcessPacket(p)) \/ SIdleCleanup \/ STick

SSpec == SInit /\ [][SNext]_<<vars, statisticsVars>>

-----------------------------------------------------------------------------
(* The statistics of connection_tracker.h:165 count entries, one by one,   *)
(* although they are evicted, cleaned up and made again: every entry seen  *)
(* is in the table or was forgotten, every one blocked is blocked there or *)
(* was when it was forgotten, and an entry counts as classified once, and  *)
(* once more each time it was closed and is classified again (so that more *)
(* can be classified than were seen, against connection_tracker.cpp:192,   *)
(* "Only classify once").  No name is a hit without that its entry was     *)
(* classified by it.                                                       *)
CountersAgree ==
    /\ totalSeen = Cardinality(DOMAIN table) + forgotten
    /\ blocked = Cardinality(BlockedEntries) + forgottenBlocked
    /\ classified = classifications
    /\ hits <= classified
=============================================================================
