------------------------------- MODULE Config -------------------------------
(***************************************************************************)
(* CConfig of common/sys/config.cpp (the build without WIN32): Load reads   *)
(* an ini file into m_ConfigMap, WriteProfileString changes one setting in  *)
(* the map and edits the file, which other rows and comments are to         *)
(* survive.  The process may stop and start again between any two steps,    *)
(* and somebody may edit the file by hand.                                  *)
(*                                                                         *)
(* A file is a sequence of rows: the head of a section, a key with a value, *)
(* a note (a comment or an empty row), or a row at which Load gives up: a   *)
(* head without its bracket, or text without '='.  Rows are trimmed text in *)
(* the code and are searched with find: Embeds and a row's mentions say     *)
(* which heads, as "[s]", and keys occur in it.  A value holds no brackets, *)
(* a key neither '=' nor '#'.                                               *)
(***************************************************************************)
EXTENDS Naturals, Sequences, SequencesExt

CONSTANTS Sections, Keys, Values,
          Long,        \* sections whose head is longer than 99 characters
          Cut,         \* what _ParseValue makes of a value: it ends at a '#'
          Places,      \* settings in use: pairs of a section and a key
          Embeds,      \* <<n, k>>: the name or value n has the key k as a substring
          Notes,       \* sets of names a note, or a malformed row, may mention
          Files,       \* files made by hand
          Edits,       \* those that a file may be replaced by under the program
          MaxWrites,   \* bound: calls of WriteProfileString
          MaxEdits     \* bound: such replacements

NoValue == "no value"

\* Blanks inside the brackets hide a head from find.
SectionRow(s) == [type |-> "section", name |-> s, value |-> NoValue, mentions |-> {s}]
SpacedRow(s) == [type |-> "section", name |-> s, value |-> NoValue, mentions |-> {}]
Pair(k, v) == [type |-> "pair", name |-> k, value |-> v, mentions |-> {}]
Note(m) == [type |-> "note", name |-> NoValue, value |-> NoValue, mentions |-> m]
BadRow(m) == [type |-> "bad", name |-> NoValue, value |-> NoValue, mentions |-> m]

Row == {SectionRow(s) : s \in Sections} \cup {SpacedRow(s) : s \in Sections}
       \cup {Pair(k, v) : k \in Keys, v \in Values}
       \cup {Note(m) : m \in Notes} \cup {BadRow(m) : m \in Notes}
       \cup {BadRow({s}) : s \in Long}
Map == [Places -> Values \cup {NoValue}]
Nothing == [p \in Places |-> NoValue]

VARIABLES file,      \* the rows on disk
          path,      \* the object has no path, a path, or has loaded the file
          config,    \* m_ConfigMap
          content,   \* rows that WriteProfileString is about to write
          writing,   \* it has emptied the file and not written it yet
          writes,    \* calls so far
          edits,     \* edits by hand so far
          stale,     \* history: settings read or written before the last edit
          saved      \* history: values given to WriteProfileString since the
                     \* file was last edited, or lost by a crash

vars == <<file, path, config, content, writing, writes, edits, stale, saved>>

TypeOK ==
    /\ file \in Seq(Row) /\ content \in Seq(Row)
    /\ path \in {"none", "named", "loaded"}
    /\ config \in Map /\ saved \in Map /\ stale \subseteq Places
    /\ writing \in BOOLEAN
    /\ writes \in 0 .. MaxWrites /\ edits \in 0 .. MaxEdits

-----------------------------------------------------------------------------
(* Load *)

\* Load returns with an error at the first row that it cannot read.
Read(f) ==
    LET bad == SelectInSeq(f, LAMBDA r : r.type = "bad")
    IN  IF bad = 0 THEN f ELSE SubSeq(f, 1, bad - 1)

\* The section that row i of f belongs to, by the index of its head; 0 if none.
HeadOf(f, i) == SelectLastInSubSeq(f, 1, i, LAMBDA r : r.type = "section")

\* The text that the rows f have for setting p: insert keeps the first one.
Text(f, p) ==
    LET rows == {i \in DOMAIN f : /\ f[i].type = "pair" /\ f[i].name = p[2]
                                  /\ HeadOf(f, i) # 0
                                  /\ f[HeadOf(f, i)].name = p[1]}
    IN  IF rows = {} THEN NoValue ELSE f[Min(rows)].value

\* What a text is to _ParseValue.
AsRead(v) == IF v = NoValue THEN NoValue ELSE Cut[v]

\* The value that Load finds for setting p in file f.
LoadedValue(f, p) == AsRead(Text(Read(f), p))

\* Load asserts that no value comes before the first section.
Loadable(f) == \A i \in DOMAIN Read(f) : f[i].type = "pair" =>
                   HeadOf(f, i) # 0 /\ <<f[HeadOf(f, i)].name, f[i].name>> \in Places

ASSUME ConfigBounds ==
    /\ Places \subseteq Sections \X Keys /\ Long \subseteq Sections
    /\ Embeds \subseteq (Sections \cup Keys \cup Values) \X Keys
    /\ Notes \subseteq SUBSET (Sections \cup Keys)
    /\ NoValue \notin Sections \cup Keys \cup Values
    /\ Cut \in [Values -> Values] /\ \A v \in Values : Cut[Cut[v]] = Cut[v]
    /\ Edits \subseteq Files /\ MaxWrites \in Nat /\ MaxEdits \in Nat
    /\ \A f \in Files : f \in Seq(Row) /\ Loadable(f)

\* An object without a path, or with a path and not loaded yet.
Init ==
    /\ file \in Files /\ path \in {"none", "named"}
    /\ config = Nothing /\ content = <<>> /\ writing = FALSE
    /\ writes = 0 /\ edits = 0 /\ stale = {} /\ saved = Nothing

\* insert leaves the values that are there already.
Load ==
    /\ ~ writing
    /\ path' = "loaded"
    /\ config' = [p \in Places |-> IF config[p] # NoValue THEN config[p]
                                   ELSE LoadedValue(file, p)]
    /\ stale' = {p \in stale : config[p] # NoValue}
    /\ UNCHANGED <<file, content, writing, writes, edits, saved>>

-----------------------------------------------------------------------------
(* WriteProfileString *)

\* strRow.find on a row: the head of section s, or the key k, occurs in it.
HasSection(r, s) == s \in r.mentions
HasKey(r, k) == \/ r.name = k \/ k \in r.mentions
                \/ <<r.name, k>> \in Embeds \/ <<r.value, k>> \in Embeds

\* The head as it is written: a long one is cut off, and with it its bracket.
HeadRow(s) == IF s \in Long THEN BadRow({s}) ELSE SectionRow(s)

\* Faulty variant: a new key goes to the end of the file.
WithNewKeyLast(f, sec, k, v) == Append(f, Pair(k, v))

\* A key that was not found goes right after the head of its section.
WithNewKey(f, sec, k, v) == InsertAt(f, sec + 1, Pair(k, v))

\* Faulty variant: the value is left as it is in the row.
WithKeyKept(f, i, k, v) == f

\* Faulty variant: the value gets lost.
WithKeyEmptied(f, i, k, v) ==
    IF f[i].type = "pair" /\ f[i].name = k THEN ReplaceAt(f, i, Pair(k, NoValue)) ELSE f


\* The first row after the head in which the key occurs gets the new value if
\* the key is really its own.
WithKey(f, i, k, v) ==
    IF f[i].type = "pair" /\ f[i].name = k THEN ReplaceAt(f, i, Pair(k, v)) ELSE f

\* The rows of file f after the setting <<s, k>> was given the value v: the first
\* row that holds the section's head becomes that head, the key is searched
\* from there to the end of the file, and a new section goes to the end.
Rewritten(f, s, k, v) ==
    LET sec == SelectInSeq(f, LAMBDA r : HasSection(r, s))
        headed == ReplaceAt(f, sec, HeadRow(s))
        key == SelectInSubSeq(headed, sec + 1, Len(f), LAMBDA r : HasKey(r, k))
    IN  IF sec = 0 THEN f \o <<HeadRow(s), Pair(k, v)>>
        ELSE IF key = 0 THEN WithNewKey(headed, sec, k, v)
        ELSE WithKey(headed, key, k, v)

\* m_ConfigMap with the setting p put in or changed.
SetCfgToMap(p, v) == [config EXCEPT ![p] = v]

\* _SetCfgToMap, the new rows, and fopen with "w", which empties the file; an
\* error, and nothing else, without a path.
WriteProfileString(p, v) ==
    IF path = "none" THEN UNCHANGED vars
    ELSE /\ ~ writing /\ writes < MaxWrites
         /\ config' = SetCfgToMap(p, v)
         /\ content' = Rewritten(file, p[1], p[2], v)
         /\ file' = <<>> /\ writing' = TRUE /\ writes' = writes + 1
         /\ stale' = stale \ {p} /\ saved' = [saved EXCEPT ![p] = v]
         /\ UNCHANGED <<path, edits>>

\* fwrite and fclose
WriteEnd ==
    /\ writing
    /\ file' = content /\ content' = <<>> /\ writing' = FALSE
    /\ UNCHANGED <<path, config, writes, edits, stale, saved>>

-----------------------------------------------------------------------------
(* Outside the program *)

\* The process ends, be it inside WriteProfileString with the file empty, and a
\* new one makes its object.
Restart ==
    /\ path' \in {"none", "named"} /\ config' = Nothing /\ stale' = {}
    /\ content' = <<>> /\ writing' = FALSE
    /\ saved' = IF writing THEN Nothing ELSE saved
    /\ UNCHANGED <<file, writes, edits>>

\* Somebody replaces the file under the program.
Edit(f) ==
    /\ ~ writing /\ edits < MaxEdits
    /\ file' = f /\ edits' = edits + 1 /\ stale' = Places /\ saved' = Nothing
    /\ UNCHANGED <<path, config, content, writing, writes>>

Next ==
    \/ Load \/ WriteEnd \/ Restart
    \/ \E p \in Places, v \in Values : WriteProfileString(p, v)
    \/ \E f \in Edits : Edit(f)

Spec == Init /\ [][Next]_vars

-----------------------------------------------------------------------------

\* The settings that WriteProfileString can find: their keys belong to one
\* section and occur in no other name, in no value and in no note.
Clear(p) == /\ p[2] \notin Sections
            /\ \A n \in Sections \cup Keys \cup Values : <<n, p[2]>> \notin Embeds
            /\ \A m \in Notes : p[2] \notin m
            /\ \A q \in Places : q[2] = p[2] => q = p

\* Load and find see the same heads of the setting's section, and Load comes to
\* the end of the file.
Tidy(f, p) ==
    \A i \in DOMAIN f : /\ f[i].type # "bad"
                        /\ f[i].type = "section" /\ f[i].name = p[1] => HasSection(f[i], p[1])

\* Memory and a tidy file agree on every clear setting whenever no write is under
\* way, up to what follows a '#': a write, be it to an object that has not been
\* loaded or to a file that was edited meanwhile, reaches its own setting, and
\* no write, not even one of a key that is found in the wrong row, disturbs
\* another.  Settings that somebody has edited since are excepted.
FileMatchesMap ==
    ~ writing => \A p \in Places \ stale :
        Clear(p) /\ Tidy(file, p) /\ (path = "loaded" \/ config[p] # NoValue) =>
            LoadedValue(file, p) = AsRead(config[p])

\* A clear setting that was written is what later processes load from a tidy
\* file, cut at a '#', through any further writes, loads and restarts, until the
\* file is edited or a process dies between emptying it and writing it.
SettingsSurvive ==
    ~ writing => \A p \in Places :
        Clear(p) /\ Tidy(file, p) /\ saved[p] # NoValue =>
            LoadedValue(file, p) = AsRead(saved[p])

=============================================================================
