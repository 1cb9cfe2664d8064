------------------------------- MODULE Lexicon -------------------------------
(***************************************************************************)
(* The pronunciation lexicon from its edits to the servers that speak with *)
(* it: the REPL's :pron saves the home file by rename and pushes it to the *)
(* droplet, the user edits it in place, runs of sync_lexicon.sh copy it    *)
(* with rsync --inplace, and the Lexicon object of each server reloads its *)
(* file when the mtime has changed.                                        *)
(*                                                                         *)
(* An entry is its word.  An mtime matters only by being the recorded one  *)
(* or not, every write giving the file a new one.  A missing file is an    *)
(* empty map.  There is one REPL: two would share the temporary file.      *)
(***************************************************************************)
CONSTANTS
    Word,        \* words that may have an entry
    Copy         \* bound: runs of sync_lexicon.sh under way at once

VARIABLES
    file,        \* the lexicon file each server reads
    hand,        \* an edit in place: "none", "open", "orphan" (of a replaced file)
    edit,        \* the REPL's :pron: "none", "save", "push"
    draft,       \* the mapping it has changed
    copy,        \* each run: "off", "started", "read", "writing", "mixed"
    payload,     \* what its rsync read of the home file
    known,       \* Lexicon._mtime is the file's
    seen,        \* _refresh() between stat and load: "none", "same", "older" mtime
    lookup       \* Lexicon._lookup

homeVars == <<hand, edit, draft>>
copyVars == <<copy, payload>>
serverVars == <<known, seen, lookup>>
vars == <<file, homeVars, copyVars, serverVars>>

Server == {"home", "droplet"}

\* A file in the middle of a write does not parse.
Content == [ok : BOOLEAN, words : SUBSET Word]
Whole(m) == [ok |-> TRUE, words |-> m]
Torn == [ok |-> FALSE, words |-> {}]

TypeOK ==
    /\ file \in [Server -> Content]
    /\ hand \in {"none", "open", "orphan"}
    /\ edit \in {"none", "save", "push"}
    /\ draft \subseteq Word
    /\ copy \in [Copy -> {"off", "started", "read", "writing", "mixed"}]
    /\ payload \in [Copy -> Content]
    /\ known \in [Server -> BOOLEAN]
    /\ seen \in [Server -> {"none", "same", "older"}]
    /\ lookup \in [Server -> SUBSET Word]

\* Files of any content; servers that have yet to look at them.
Init ==
    /\ file \in [Server -> {Whole(m) : m \in SUBSET Word}]
    /\ hand = "none"
    /\ edit = "none"
    /\ draft = {}
    /\ copy = [c \in Copy |-> "off"]
    /\ payload = [c \in Copy |-> Whole({})]
    /\ known = [s \in Server |-> FALSE]
    /\ seen = [s \in Server |-> "none"]
    /\ lookup = [s \in Server |-> {}]

-----------------------------------------------------------------------------
(* Writes                                                                  *)

\* A fault: two writes within one tick of the file system's clock.
SameTick(s) == UNCHANGED <<known, seen>>

\* The file gets an mtime that no server has seen.
NewMtime(s) ==
    /\ known' = [known EXCEPT ![s] = FALSE]
    /\ seen' = [seen EXCEPT ![s] = IF @ = "same" THEN "older" ELSE @]

Write(s, content) ==
    /\ file' = [file EXCEPT ![s] = content]
    /\ NewMtime(s)
    /\ UNCHANGED lookup

-----------------------------------------------------------------------------
(* The REPL's :pron                                                        *)

\* load_map and the change, add_entry's or remove_entry's; removing what is
\* not there writes nothing.  A file that does not parse ends the session.
LoadMap(w) ==
    /\ edit = "none"
    /\ file["home"].ok
    /\ \/ draft' = file["home"].words \cup {w}
       \/ w \in file["home"].words /\ draft' = file["home"].words \ {w}
    /\ edit' = "save"
    /\ UNCHANGED <<file, hand, copyVars, serverVars>>

\* A fault: save_map writes the file itself, and may die half-way.
SaveInPlace ==
    /\ edit = "save"
    /\ \/ Write("home", Whole(draft)) /\ edit' = "push"
       \/ Write("home", Torn) /\ edit' = "none"
    /\ draft' = {}
    /\ UNCHANGED <<hand, copyVars>>

\* save_map: the temporary file is renamed over the lexicon; an edit in
\* place goes on in the file that was there.
SaveMap ==
    /\ edit = "save"
    /\ Write("home", Whole(draft))
    /\ hand' = IF hand = "open" THEN "orphan" ELSE hand
    /\ draft' = {}
    /\ edit' = "push"
    /\ UNCHANGED copyVars

\* The session ends, the temporary file cannot be written, or there is no
\* script to push with.
Abandon ==
    /\ edit # "none"
    /\ edit' = "none"
    /\ draft' = {}
    /\ UNCHANGED <<file, hand, copyVars, serverVars>>

\* _push_lexicon: run the script.  The REPL waits for it or gives up after
\* 15 s; its rsync goes on either way, so the wait itself changes nothing.
Push(c) ==
    /\ edit = "push"
    /\ copy[c] = "off"
    /\ copy' = [copy EXCEPT ![c] = "started"]
    /\ edit' = "none"
    /\ UNCHANGED <<file, hand, draft, payload, serverVars>>

-----------------------------------------------------------------------------
(* Edits in place, with whatever editor                                    *)

HandOpen ==
    /\ hand = "none"
    /\ Write("home", Torn)
    /\ hand' = "open"
    /\ UNCHANGED <<edit, draft, copyVars>>

HandSave ==
    /\ hand = "open"
    /\ \E m \in SUBSET Word : Write("home", Whole(m))
    /\ hand' = "none"
    /\ UNCHANGED <<edit, draft, copyVars>>

\* The file it was about has been replaced: the edit is lost.
HandLost ==
    /\ hand = "orphan"
    /\ hand' = "none"
    /\ UNCHANGED <<file, edit, draft, copyVars, serverVars>>

-----------------------------------------------------------------------------
(* sync_lexicon.sh                                                         *)

\* The path unit fires, or the user runs it.
SyncRun(c) ==
    /\ copy[c] = "off"
    /\ copy' = [copy EXCEPT ![c] = "started"]
    /\ UNCHANGED <<file, homeVars, payload, serverVars>>

ReadSource(c) ==
    /\ copy[c] = "started"
    /\ payload' = [payload EXCEPT ![c] = file["home"]]
    /\ copy' = [copy EXCEPT ![c] = "read"]
    /\ UNCHANGED <<file, homeVars, serverVars>>

\* rsync --inplace writes into the file that the container has mounted, and
\* into that of another run that is at it.
WriteInPlace(c) ==
    /\ copy[c] = "read"
    /\ Write("droplet", Torn)
    /\ LET others == {d \in Copy : copy[d] \in {"writing", "mixed"}}
       IN  copy' = [d \in Copy |->
                      IF d = c
                        THEN IF others = {} THEN "writing" ELSE "mixed"
                        ELSE IF d \in others THEN "mixed" ELSE copy[d]]
    /\ UNCHANGED <<homeVars, payload>>

Finish(c) ==
    /\ \/ copy[c] \in {"writing", "mixed"} /\ Write("droplet", payload[c])
       \/ copy[c] = "mixed" /\ Write("droplet", Torn)
    /\ copy' = [copy EXCEPT ![c] = "off"]
    /\ payload' = [payload EXCEPT ![c] = Whole({})]
    /\ UNCHANGED homeVars

\* The droplet cannot be reached, or no longer.
SyncFails(c) ==
    /\ copy[c] # "off"
    /\ copy' = [copy EXCEPT ![c] = "off"]
    /\ payload' = [payload EXCEPT ![c] = Whole({})]
    /\ UNCHANGED <<file, homeVars, serverVars>>

-----------------------------------------------------------------------------
(* Lexicon._refresh(), for a request                                       *)

\* A fault: a lexicon once loaded is kept.
StatUnlessLoaded(s) ==
    /\ seen[s] = "none"
    /\ ~known[s]
    /\ lookup[s] = {}
    /\ seen' = [seen EXCEPT ![s] = "same"]
    /\ UNCHANGED <<file, homeVars, copyVars, known, lookup>>

\* The mtime is not the recorded one.  (If it is, nothing changes.)
Stat(s) ==
    /\ seen[s] = "none"
    /\ ~known[s]
    /\ seen' = [seen EXCEPT ![s] = "same"]
    /\ UNCHANGED <<file, homeVars, copyVars, known, lookup>>

\* The mtime is recorded, then the file is loaded; if it does not parse the
\* request fails and the old map stays.
Load(s) ==
    /\ seen[s] # "none"
    /\ known' = [known EXCEPT ![s] = (seen[s] = "same")]
    /\ seen' = [seen EXCEPT ![s] = "none"]
    /\ lookup' = [lookup EXCEPT ![s] = IF file[s].ok THEN file[s].words ELSE @]
    /\ UNCHANGED <<file, homeVars, copyVars>>

-----------------------------------------------------------------------------
EditNext ==
    \/ \E w \in Word : LoadMap(w)
    \/ SaveMap
    \/ Abandon
    \/ \E c \in Copy : Push(c)
    \/ HandOpen \/ HandSave \/ HandLost

SyncNext ==
    \E c \in Copy :
        SyncRun(c) \/ ReadSource(c) \/ WriteInPlace(c) \/ Finish(c) \/ SyncFails(c)

ServerNext == \E s \in Server : Stat(s) \/ Load(s)

Next == EditNext \/ SyncNext \/ ServerNext

\* Requests keep coming, to both servers.  Nothing is assumed of the edits
\* and the pushes.
Fairness == \A s \in Server : WF_vars(Stat(s)) /\ WF_vars(Load(s))

Spec == Init /\ [][Next]_vars /\ Fairness

-----------------------------------------------------------------------------
\* A server that finds its recorded mtime speaks with what the file holds,
\* whatever was written between its stat and its load, and whether an earlier
\* load found the file in the middle of a write.
Coherent ==
    \A s \in Server :
        seen[s] = "none" /\ known[s] /\ file[s].ok => lookup[s] = file[s].words

\* The REPL saves all or nothing: the home file is in pieces only while
\* somebody edits it in place, and a save mends it.
HomeSavedWhole ==
    ~file["home"].ok => hand = "open"

\* An edit reaches the speech of each server whose file it reaches, with
\* failed loads, edits under way and overlapping pushes in between.
CatchesUp ==
    \A s \in Server :
        lookup[s] # file[s].words ~> (lookup[s] = file[s].words \/ ~file[s].ok)
=============================================================================
