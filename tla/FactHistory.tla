----------------------------- MODULE FactHistory -----------------------------
(* The history of one fact, an (entityType, entityId, key): the two routes of *)
(* routes/control-plane/kb.ts that read knowledge_base and archive, and the   *)
(* page of TemporalHistory.tsx, while Iranti moves versions of the fact from  *)
(* the one table to the other.  Time is a counter; a version without          *)
(* validFrom is valid from 0, one without validUntil for ever.                *)
EXTENDS Naturals, FiniteSets

CONSTANT MaxTime     \* a bound: the last moment

VARIABLES now,
          kb,        \* the rows of knowledge_base for the fact: none or one
          archive,   \* those of archive
          hist,      \* GET .../history/:key
          asOf,      \* GET .../query/:key
          picked     \* the moment in the picker, Never when it is empty

vars == <<now, kb, archive, hist, asOf, picked>>

Ever == MaxTime + 1
Never == Ever
\* A version is known by the moment it was written; a rejected one was never
\* in force: its row in archive has no validUntil.
Version(w, f, u, r) == [written |-> w, from |-> f, until |-> u, rejected |-> r]
NoHist == [at |-> "idle", scoped |-> FALSE, current |-> {}, history |-> {}, before |-> {}]
NoAsOf == [at |-> "idle", t |-> 0, fact |-> {}, right |-> {}]

InForce(v, t) == ~v.rejected /\ v.from <= t /\ t < v.until
Versions == kb \union archive
Written(S) == {v.written : v \in S}

Init == /\ now = 0 /\ kb \in {{}, {Version(0, 0, Ever, FALSE)}} /\ archive = {}
        /\ hist = NoHist /\ asOf = NoAsOf /\ picked = Never
------------------------------------------------------------------------------
(* External: Iranti, one transaction each.  The clock passes with each. *)

\* A newer write supersedes the version in force, which is archived.
Supersede == /\ now < MaxTime /\ now' = now + 1
             /\ archive' = archive \union {[v EXCEPT !.until = now'] : v \in kb}
             /\ kb' = {Version(now', now', Ever, FALSE)}
             /\ UNCHANGED <<hist, asOf, picked>>
\* The Archivist archives it, and nothing takes its place.
Decay == /\ now < MaxTime /\ now' = now + 1 /\ kb # {}
         /\ archive' = archive \union {[v EXCEPT !.until = now'] : v \in kb}
         /\ kb' = {} /\ UNCHANGED <<hist, asOf, picked>>
\* A write that loses a conflict goes to the archive at once.
Reject == /\ now < MaxTime /\ now' = now + 1 /\ kb # {}
          /\ archive' = archive \union {Version(now', now', Ever, TRUE)}
          /\ UNCHANGED <<kb, hist, asOf, picked>>
------------------------------------------------------------------------------
(* GET .../history/:key: both queries at once.  The pool of a scoped request  *)
(* has one connection, so there they run in the order they were made; the     *)
(* shared pool may run them in any order.                                     *)

AskHistory == /\ hist.at \in {"idle", "done"}
              /\ \E s \in BOOLEAN : hist' = [NoHist EXCEPT !.at = "asked", !.scoped = s, !.before = Written(Versions)]
              /\ UNCHANGED <<now, kb, archive, asOf, picked>>
ReadCurrent == /\ hist.at \in {"asked", "archiveRead"}
               /\ hist' = [hist EXCEPT !.current = kb, !.at = IF @ = "asked" THEN "kbRead" ELSE "done"]
               /\ UNCHANGED <<now, kb, archive, asOf, picked>>
ArchiveReadable(h) == h.at = "kbRead" \/ (h.at = "asked" /\ ~h.scoped)
ReadArchive == /\ ArchiveReadable(hist)
               /\ hist' = [hist EXCEPT !.history = archive,
                                       !.at = IF @ = "asked" THEN "archiveRead" ELSE "done"]
               /\ UNCHANGED <<now, kb, archive, asOf, picked>>
------------------------------------------------------------------------------
(* GET .../query/:key?asOf: the archive only when knowledge_base has nothing. *)

Latest(S) == {CHOOSE v \in S : \A w \in S : w.from <= v.from}
Pick(t) == /\ t <= now /\ picked' = t
           /\ asOf' = [NoAsOf EXCEPT !.at = "asked", !.t = t,
                                     !.right = {v.written : v \in {v \in Versions : InForce(v, t)}}]
           /\ UNCHANGED <<now, kb, archive, hist>>
handlePickerClear == /\ picked # Never /\ picked' = Never /\ asOf' = NoAsOf
                     /\ UNCHANGED <<now, kb, archive, hist>>
AsOfCurrentAnyTime == \* mutant: validFrom is not compared
    /\ asOf.at = "asked"
    /\ LET S == {v \in kb : v.until > asOf.t}
       IN  asOf' = IF S = {} THEN [asOf EXCEPT !.at = "kbRead"]
                   ELSE [asOf EXCEPT !.at = "done", !.fact = Latest(S)]
    /\ UNCHANGED <<now, kb, archive, hist, picked>>
AsOfCurrent == /\ asOf.at = "asked"
               /\ LET S == {v \in kb : v.from <= asOf.t /\ v.until > asOf.t}
                  IN  asOf' = IF S = {} THEN [asOf EXCEPT !.at = "kbRead"]
                              ELSE [asOf EXCEPT !.at = "done", !.fact = Latest(S)]
               /\ UNCHANGED <<now, kb, archive, hist, picked>>
AsOfArchive == /\ asOf.at = "kbRead"
               /\ LET S == {v \in archive : v.from <= asOf.t /\ v.until # Ever /\ v.until > asOf.t}
                  IN  asOf' = [asOf EXCEPT !.at = "done", !.fact = IF S = {} THEN {} ELSE Latest(S)]
               /\ UNCHANGED <<now, kb, archive, hist, picked>>
------------------------------------------------------------------------------
(* The page. *)

\* findMatchingIntervalId: the current version first, then the archive from the
\* newest; the mark of a picked moment until the server's answer is there.
Intervals(h) == h.current \union h.history
findMatchingIntervalId(h, t) == {v \in Intervals(h) : v.from <= t /\ t < v.until}
Marked == IF picked = Never THEN {}
          ELSE IF asOf.at = "done" THEN Written(asOf.fact)
          ELSE LET S == findMatchingIntervalId(hist, picked)
                   C == S \intersect hist.current
               IN  IF S = {} THEN {} ELSE Written(IF C # {} THEN C ELSE Latest(S))

Next == \/ Supersede \/ Decay \/ Reject
        \/ AskHistory \/ ReadCurrent \/ ReadArchive
        \/ AsOfCurrent \/ AsOfArchive \/ handlePickerClear \/ \E t \in 0..MaxTime : Pick(t)
Spec == Init /\ [][Next]_vars
------------------------------------------------------------------------------
(* Properties. *)

\* The answer to a picked moment is the version that was in force then, however
\* many times it is superseded or archived while the two tables are read: rows
\* only move to the archive, which is read last.
AsOfFindsFact == asOf.at = "done" => Written(asOf.fact) = asOf.right

\* A history read over a connection of its own lacks no version that existed
\* when it was asked for.
HistoryIsWhole == hist.at = "done" /\ hist.scoped => hist.before \subseteq Written(Intervals(hist))

\* While nothing is written the mark of the page is the version in force, with
\* and without the server's answer, unless the archive has a rejected version.
MarkIsInForce ==
    /\ hist.at = "done" /\ Intervals(hist) = Versions
    /\ asOf.at # "idle" /\ ~\E v \in archive : v.rejected
    => Marked = {v.written : v \in {v \in Versions : InForce(v, picked)}}
===============================================================================
