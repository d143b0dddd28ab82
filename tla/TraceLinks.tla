----------------------------- MODULE TraceLinks -----------------------------
(***************************************************************************)
(* skills/aspice_link_manager: every requirement, design and test is a     *)
(* Markdown file with its links in front, and a link from one document to  *)
(* another has a backlink in the other.  `aspice update-all` writes the    *)
(* missing backlinks of all documents in a pool of threads, and `aspice    *)
(* link` those of one.  A backlink is added by reading a file and then     *)
(* writing it whole, and nothing is held in between.                       *)
(*                                                                         *)
(* The ids of documents are taken to be distinct, the files to fit one     *)
(* write, and their authors to keep away while an update runs.             *)
(***************************************************************************)
CONSTANTS
    Docs,           \* ids of documents; each has a file of its own
    LinkWorkers,    \* the threads of the pool: 4 in the code
    Libraries,      \* what authors may have written into the files
    NoFrontmatter   \* a file without links that can be read: empty, torn

VARIABLES
    docs,           \* the file of every document
    authored,       \* the files as their authors wrote them (history)
    scope,          \* the documents the update was asked to process
    waiting,        \* those no thread has taken yet
    linker,         \* what every thread is at
    failed,         \* documents whose result has success = False
    raced           \* files that a thread found, or left, under another's
                    \* hands during this update (history)

linkVars == <<docs, authored, scope, waiting, linker, failed, raced>>

LinkFields == {"refinedIn", "refinedFrom", "validatedBy", "validates"}
Frontmatter == [LinkFields -> SUBSET Docs]

ASSUME LinkAssumption ==
    /\ Libraries \subseteq [Docs -> Frontmatter \cup {NoFrontmatter}]
    /\ NoFrontmatter \notin Frontmatter

Resting == [pc |-> "idle"]

LinksInit ==
    /\ authored \in Libraries
    /\ docs = authored
    /\ scope = {} /\ waiting = {} /\ failed = {} /\ raced = {}
    /\ linker = [w \in LinkWorkers |-> Resting]

(* parse_document gives nothing for such a file; find_document looks for   *)
(* the id in every file it can parse.                                      *)
Parses(d) == docs[d] # NoFrontmatter

AtRest == waiting = {} /\ \A w \in LinkWorkers : linker[w] = Resting

(***************************************************************************)
(* update_bidirectional_links of d: the backlinks its links call for, each *)
(* the other document and the field, in three groups.                      *)
(***************************************************************************)
Backlinks(links) ==
    [refinedFrom |-> links["refinedIn"], refinedIn |-> links["refinedFrom"],
     validates |-> links["validatedBy"]]

Pending(todo) == {b \in {"refinedFrom", "refinedIn", "validates"} \X Docs :
                     b[2] \in todo[b[1]]}

NextBacklinks(todo) ==
    {b \in Pending(todo) :
        /\ b[1] = "refinedIn" => todo["refinedFrom"] = {}
        /\ b[1] = "validates" => todo["refinedFrom"] \cup todo["refinedIn"] = {}}

Update(d, todo) ==
    IF Pending(todo) = {} THEN Resting ELSE [pc |-> "find", doc |-> d, todo |-> todo]

Done(op) == Update(op.doc, [op.todo EXCEPT ![op.field] = @ \ {op.target}])

Run(w, op) == linker' = [linker EXCEPT ![w] = op]

Touching(d) == {w \in LinkWorkers : linker[w].pc \in {"empty", "write"} /\ linker[w].target = d}

Races(w, d) == raced' = IF Touching(d) \ {w} = {} THEN raced ELSE raced \cup {d}

StartUpdate ==
    /\ AtRest
    /\ \E s \in {Docs} \cup {{d} : d \in Docs} : scope' = s /\ waiting' = s
    /\ failed' = {} /\ raced' = {}
    /\ UNCHANGED <<docs, authored, linker>>

TakeDocument(w) ==
    /\ linker[w] = Resting
    /\ \E d \in waiting :
          /\ waiting' = waiting \ {d}
          /\ IF Parses(d)
             THEN Run(w, Update(d, Backlinks(docs[d]))) /\ UNCHANGED failed
             ELSE failed' = failed \cup {d} /\ UNCHANGED linker
    /\ UNCHANGED <<docs, authored, scope, raced>>

(* A test that is not found is no error.                                   *)
FindTarget(w) ==
    LET op == linker[w] IN
    /\ op.pc = "find"
    /\ \E b \in NextBacklinks(op.todo) :
          LET next == [pc |-> "read", doc |-> op.doc, todo |-> op.todo,
                       field |-> b[1], target |-> b[2]] IN
          /\ Run(w, IF Parses(b[2]) THEN next ELSE Done(next))
          /\ failed' = IF Parses(b[2]) \/ b[1] = "validates" THEN failed
                       ELSE failed \cup {op.doc}
          /\ Races(w, b[2])
    /\ UNCHANGED <<docs, authored, scope, waiting>>

(* Mutant of WithBacklink: a file without front matter is given one.       *)
WithFreshFrontmatter(file, field, d) ==
    IF file = NoFrontmatter
    THEN {[f \in LinkFields |-> IF f = field THEN {d} ELSE {}]}
    ELSE IF d \in file[field] THEN {} ELSE {[file EXCEPT ![field] = @ \cup {d}]}

(* Mutant of WithBacklink: the backlink is told by the other field.        *)
WithBacklinkAnywhere(file, field, d) ==
    IF file = NoFrontmatter \/ \E f \in LinkFields : d \in file[f] THEN {}
    ELSE {[file EXCEPT ![field] = @ \cup {d}]}

(* _add_backlink: what it will write, if anything.  That it could not read *)
(* the file is not an error of the update.                                 *)
WithBacklink(file, field, d) ==
    IF file = NoFrontmatter \/ d \in file[field] THEN {}
    ELSE {[file EXCEPT ![field] = @ \cup {d}]}

ReadTarget(w) ==
    LET op == linker[w]
        written == WithBacklink(docs[op.target], op.field, op.doc) IN
    /\ op.pc = "read"
    /\ \/ written = {} /\ Run(w, Done(op))
       \/ \E file \in written :
             Run(w, [pc |-> "empty", doc |-> op.doc, todo |-> op.todo,
                     field |-> op.field, target |-> op.target, file |-> file])
    /\ Races(w, op.target)
    /\ UNCHANGED <<docs, authored, scope, waiting, failed>>

(* write_text empties the file, and writes it when it closes it.           *)
EmptyTarget(w) ==
    LET op == linker[w] IN
    /\ op.pc = "empty"
    /\ docs' = [docs EXCEPT ![op.target] = NoFrontmatter]
    /\ Run(w, [op EXCEPT !.pc = "write"])
    /\ UNCHANGED <<authored, scope, waiting, failed, raced>>

WriteTarget(w) ==
    LET op == linker[w] IN
    /\ op.pc = "write"
    /\ docs' = [docs EXCEPT ![op.target] = op.file]
    /\ Run(w, Done(op))
    /\ UNCHANGED <<authored, scope, waiting, failed, raced>>

(* The command is killed: nothing was asked of what is left.               *)
UpdateDies ==
    /\ ~AtRest
    /\ linker' = [w \in LinkWorkers |-> Resting]
    /\ scope' = {} /\ waiting' = {} /\ failed' = {} /\ raced' = {}
    /\ UNCHANGED <<docs, authored>>

LinksNext ==
    \/ StartUpdate \/ UpdateDies
    \/ \E w \in LinkWorkers : \/ TakeDocument(w) \/ FindTarget(w) \/ ReadTarget(w)
                             \/ EmptyTarget(w) \/ WriteTarget(w)

LinksSpec == LinksInit /\ [][LinksNext]_linkVars

-----------------------------------------------------------------------------
(* Properties *)

(* Files, threads and the update have their shapes. *)
LinksTypeOK ==
    /\ docs \in [Docs -> Frontmatter \cup {NoFrontmatter}]
    /\ authored \in Libraries
    /\ waiting \subseteq scope /\ scope \subseteq Docs
    /\ failed \subseteq scope /\ raced \subseteq Docs
    /\ \A w \in LinkWorkers :
          LET op == linker[w] IN
          \/ op = Resting
          \/ /\ op.pc \in {"find", "read", "empty", "write"}
             /\ op.doc \in scope \ waiting
             /\ Pending(op.todo) # {}

(* verify_links, of what is about documents and not about source files.    *)
LinkVerified(d, forward, t, back) ==
    t \in docs[d][forward] => Parses(t) /\ d \in docs[t][back]

(* The backlinks of threads that write one file overwrite each other, but  *)
(* whatever the order and whenever the update dies: a file that can be     *)
(* read has every link its author wrote, and any other link in it answers  *)
(* one that an author wrote into the document it names.                    *)
AuthoredLinksKept ==
    \A d \in Docs : Parses(d) =>
        /\ authored[d] # NoFrontmatter
        /\ \A f \in LinkFields :
              /\ authored[d][f] \subseteq docs[d][f]
              /\ \A s \in docs[d][f] \ authored[d][f] :
                    /\ f # "validatedBy"
                    /\ authored[s] # NoFrontmatter
                    /\ d \in Backlinks(authored[s])[f]

(* A document that an update reports no error about passes verify_links    *)
(* when it is over, except for its tests that do not exist and the files   *)
(* two threads met at: a torn file is skipped without an error, a backlink *)
(* overwritten without a trace.                                            *)
UpdatedLinksVerify ==
    AtRest => \A d \in scope \ failed : \A t \in Docs \ raced :
        /\ Parses(d)
        /\ LinkVerified(d, "refinedIn", t, "refinedFrom")
        /\ LinkVerified(d, "refinedFrom", t, "refinedIn")
        /\ Parses(t) => LinkVerified(d, "validatedBy", t, "validates")
=============================================================================
