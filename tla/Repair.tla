------------------------------- MODULE Repair ----------------------------------
(* The repair of one bound project: the doctor and the repairs of             *)
(* routes/control-plane/repair.ts over lib/project-integration.ts, the drawer *)
(* of DoctorDrawer.tsx, and the scaffold of claude-integration.ts with the    *)
(* panel that starts it.  CLAUDE.md is a sequence of pieces: "text", which    *)
(* does not speak of Iranti, and the markers "start" and "end", which do.     *)
(* People edit the files too.                                                 *)
EXTENDS Naturals, FiniteSets, SequencesExt

CONSTANTS Documents,    \* the CLAUDE.md contents people write
          MaxEdits,     \* edits by people and scaffolds, a bound
          MaxRepairs    \* repairs started, a bound

VARIABLES md,           \* CLAUDE.md, or None
          servers,      \* config file |-> the servers it registers, {} when there is none
          edits,        \* edits and scaffolds so far
          doctor,       \* "closed", "asked" or "open", the drawer
          offered,      \* the kinds it offers to repair
          loading,      \* the repair the drawer waits for, 0 when not repairLoading
          repairs,      \* the repairs started: [kind, at, seen], seen is what readFile gave
          settled,      \* kinds whose file nobody edited since a repair wrote it
          scaffold      \* of the panel: "idle", "confirming", "sent", "forced"

files == <<md, servers>>
drawer == <<doctor, offered, loading>>
vars == <<files, edits, drawer, repairs, settled, scaffold>>

None == <<"ENOENT">>
Configs == {".mcp.json", ".vscode/mcp.json"}
Kinds == {"mcp-json", "claude-md"}
Block == <<"start", "text", "end">>     \* buildIrantiBlock

Init == /\ md \in Documents \cup {None}
        /\ servers = [c \in Configs |-> {}]
        /\ edits = 0 /\ doctor = "closed" /\ offered = {} /\ loading = 0 /\ repairs = <<>>
        /\ settled = {} /\ scaffold = "idle"
------------------------------------------------------------------------------
(* lib/project-integration.ts *)

\* hasIrantiServer: an entry of that name, or the address of one ("url").
HasIrantiServer(c) == servers[c] # {} /\ servers[c] \cap {"iranti", "url"} # {}
ClaudeMdHasIranti == md # None /\ {"start", "end"} \cap Range(md) # {}

\* doctorProjectChecks: the kinds of repair the checks that do not pass offer.
Offered == (IF \E c \in Configs : HasIrantiServer(c) THEN {} ELSE {"mcp-json"})
           \cup (IF ClaudeMdHasIranti THEN {} ELSE {"claude-md"})
------------------------------------------------------------------------------
(* The drawer and the doctor. *)

\* Every other check is answered or times out before the project is read.
handleRunDoctor == doctor # "asked" /\ doctor' = "asked" /\ UNCHANGED <<files, edits, offered, loading, repairs, settled, scaffold>>
DoctorAnswers == /\ doctor = "asked" /\ doctor' = "open" /\ offered' = Offered
                 /\ UNCHANGED <<files, edits, loading, repairs, settled, scaffold>>
DoctorLost == doctor = "asked" /\ doctor' = "closed" /\ UNCHANGED <<files, edits, offered, loading, repairs, settled, scaffold>>

\* A click beside the drawer closes it, though a repair runs.
CloseDrawer == /\ doctor = "open" /\ doctor' = "closed" /\ offered' = {} /\ loading' = 0
               /\ UNCHANGED <<files, edits, repairs, settled, scaffold>>

\* handleRepairConfirm: the checks shown stay those the doctor gave.
handleRepairConfirm(k) ==
    /\ doctor = "open" /\ k \in offered /\ loading = 0 /\ Len(repairs) < MaxRepairs
    /\ repairs' = Append(repairs, [kind |-> k, at |-> "sent", seen |-> None])
    /\ loading' = Len(repairs') /\ UNCHANGED <<files, edits, doctor, offered, settled, scaffold>>

\* The answer to repair r ends the drawer's wait for it.
Answer(r, at) == /\ repairs' = [repairs EXCEPT ![r].at = at, ![r].seen = None]
                 /\ loading' = IF loading = r THEN 0 ELSE loading

\* The project is no longer bound, or its directory is not writable.
Refuse(r) == /\ repairs[r].at = "sent" /\ Answer(r, "failed")
             /\ UNCHANGED <<files, edits, doctor, offered, settled, scaffold>>

\* POST repair/mcp-json: the file is written anew, whatever it registered.
RepairMcpJson(r) ==
    /\ repairs[r].kind = "mcp-json" /\ repairs[r].at = "sent" /\ Answer(r, "ok")
    /\ servers' = [servers EXCEPT ![".mcp.json"] = {"iranti"}] /\ settled' = settled \cup {"mcp-json"}
    /\ UNCHANGED <<md, edits, doctor, offered, scaffold>>

\* POST repair/claude-md up to its readFile, and the rest.
ReadClaudeMd(r) == /\ repairs[r].kind = "claude-md" /\ repairs[r].at = "sent"
                   /\ repairs' = [repairs EXCEPT ![r].at = "read", ![r].seen = md]
                   /\ UNCHANGED <<files, edits, drawer, settled, scaffold>>

Has(doc, marker) == marker \in Range(doc)
\* IRANTI_BLOCK_RE: from the first start with an end behind it to the first such end.
Starts(doc) == {i \in 1..Len(doc) : doc[i] = "start" /\ \E j \in i..Len(doc) : doc[j] = "end"}
Ends(doc, i) == CHOOSE j \in i..Len(doc) : doc[j] = "end" /\ \A l \in i..(j-1) : doc[l] # "end"
Least(S) == CHOOSE i \in S : \A j \in S : i <= j
Replaced(doc) == IF Starts(doc) = {} THEN doc
                 ELSE LET i == Least(Starts(doc))
                      IN  SubSeq(doc, 1, i - 1) \o Block \o SubSeq(doc, Ends(doc, i) + 1, Len(doc))
RepairedAlways(doc) == IF doc = None THEN Block ELSE doc \o Block \* mutant: appends without looking
Repaired(doc) == IF doc = None THEN Block
                 ELSE IF Has(doc, "start") THEN Replaced(doc) ELSE doc \o Block
Malformed(doc) == doc # None /\ Has(doc, "start") # Has(doc, "end")

RepairClaudeMd(r) ==
    /\ repairs[r].at = "read"
    /\ IF Malformed(repairs[r].seen) THEN Answer(r, "failed") /\ UNCHANGED <<md, settled>>
       ELSE /\ Answer(r, "ok") /\ md' = Repaired(repairs[r].seen)
            /\ settled' = settled \cup {"claude-md"}
    /\ UNCHANGED <<servers, edits, doctor, offered, scaffold>>
------------------------------------------------------------------------------
(* The panel of the integration and its scaffold. *)

FilesExist == \E c \in Configs : servers[c] # {}
handleScaffoldClick == /\ scaffold = "idle" /\ scaffold' = (IF FilesExist THEN "confirming" ELSE "sent")
                       /\ edits < MaxEdits /\ edits' = edits + 1 /\ UNCHANGED <<files, drawer, repairs, settled>>
ConfirmScaffold == /\ scaffold = "confirming" /\ scaffold' \in {"forced", "idle"}
                   /\ UNCHANGED <<files, edits, drawer, repairs, settled>>

\* External: iranti claude-setup writes the files it does not find, and
\* with --force the ones it does; it may fail after any of them.
Written(c) == IF servers[c] = {} THEN {"iranti"}
              ELSE IF scaffold = "forced" THEN servers[c] \cup {"iranti"} ELSE servers[c]
ClaudeSetup ==
    /\ scaffold \in {"sent", "forced"} /\ scaffold' = "idle"
    /\ \E done \in SUBSET Configs : servers' = [c \in Configs |-> IF c \in done THEN Written(c) ELSE servers[c]]
    /\ UNCHANGED <<md, edits, drawer, repairs, settled>>

\* getCapabilityDescriptors: the tool access of the panel needs an entry of the
\* name (extractIrantiMcpEntry), not an address.
ToolAccess == \E c \in Configs : servers[c] # {} /\ "iranti" \in servers[c]
------------------------------------------------------------------------------
\* People edit CLAUDE.md and the configuration of their editors.
EditClaudeMd == /\ edits < MaxEdits /\ edits' = edits + 1 /\ md' \in (Documents \cup {None}) \ {md}
                /\ settled' = settled \ {"claude-md"}
                /\ UNCHANGED <<servers, drawer, repairs, scaffold>>
EditConfig(c) == /\ edits < MaxEdits /\ edits' = edits + 1
                 /\ \E s \in {{}, {"other"}, {"url"}} \ {servers[c]} : servers' = [servers EXCEPT ![c] = s]
                 /\ settled' = settled \ {"mcp-json"}
                 /\ UNCHANGED <<md, drawer, repairs, scaffold>>

Next == \/ handleRunDoctor \/ DoctorAnswers \/ DoctorLost \/ CloseDrawer
        \/ \E k \in Kinds : handleRepairConfirm(k)
        \/ \E r \in 1..Len(repairs) : Refuse(r) \/ RepairMcpJson(r) \/ ReadClaudeMd(r) \/ RepairClaudeMd(r)
        \/ handleScaffoldClick \/ ConfirmScaffold \/ ClaudeSetup
        \/ EditClaudeMd \/ \E c \in Configs : EditConfig(c)

\* The requests are answered.
Repairing(r) == r <= Len(repairs) /\ (RepairMcpJson(r) \/ ReadClaudeMd(r) \/ RepairClaudeMd(r))
Fairness == /\ WF_vars(DoctorAnswers)
            /\ \A r \in 1..MaxRepairs : WF_vars(Repairing(r))
Spec == Init /\ [][Next]_vars /\ Fairness
------------------------------------------------------------------------------
(* Properties. *)

\* A repair that was answered with ok helps: until somebody edits its file, the
\* doctor would pass the check and the panel would report tool access.
RepairHelps == /\ settled \cap Offered = {}
               /\ "mcp-json" \in settled => ToolAccess

\* Repairs never pile up blocks: where people write at most one block there is
\* at most one, however repairs, edits and stale results interleave.
OneBlock == md # None => \A i, j \in 1..Len(md) : md[i] = "start" /\ md[j] = "start" => i = j

\* The text of people outside the block stands: a repair that writes back what
\* it still finds there changes nothing before the first block or behind its
\* end (reference/api.md:1035: "Preserves all user-authored content outside").
Before(doc) == IF Starts(doc) = {} THEN doc ELSE SubSeq(doc, 1, Least(Starts(doc)) - 1)
Behind(doc) == IF Starts(doc) = {} THEN <<>>
               ELSE LET rest == SubSeq(doc, Least(Starts(doc)), Len(doc))
                    IN  SubSeq(rest, Least({j \in 1..Len(rest) : rest[j] = "end"}) + 1, Len(rest))
OutsideIsKept ==
    \A r \in 1..Len(repairs) : repairs[r].at = "read" /\ repairs'[r].at = "ok" /\ repairs[r].seen = md
                               /\ md # None => Before(md') = Before(md) /\ Behind(md') = Behind(md)

\* What comes to an end: the wait for the doctor, and a repair the drawer shows.
Waits == (IF doctor = "asked" THEN {1} ELSE {}) \union (IF loading # 0 THEN {loading + 1} ELSE {})
================================================================================
