------------------------------ MODULE ConfigFile ------------------------------
(***************************************************************************)
(* tools/config/ConfigFile in one thread: the items that load() has read,   *)
(* and the file, which somebody else edits.  A file is a sequence of lines, *)
(* a line a sequence of characters.  What get makes of an item's text (a    *)
(* number, a bool) is left out.                                             *)
(***************************************************************************)
EXTENDS SequencesExt

CONSTANTS Files,           \* the contents a file may have
          NoFile           \* it is not there or cannot be read

VARIABLES file,
          m_configItemStore,   \* a function of the names of the items
          loaded               \* history: the contents the last load() read

vars == <<file, m_configItemStore, loaded>>

Init == file \in Files \union {NoFile} /\ m_configItemStore = <<>> /\ loaded = NoFile

trim_space(s) == LET inked == {i \in DOMAIN s : s[i] # " "}
                 IN  IF inked = {} THEN <<>> ELSE SubSeq(s, Min(inked), Max(inked))

\* An empty line, a comment, the head of a group, or a line without "=".
Skipped(line) == \/ line = <<>>
                 \/ line[1] \in {"#", "[", "\t", "\r", "\n"}
                 \/ ~Contains(line, "=")

ItemOf(line) == LET index == SelectInSeq(line, LAMBDA ch : ch = "=")
                IN  [name |-> trim_space(SubSeq(line, 1, index - 1)),
                     content |-> trim_space(SubSeq(line, index + 1, Len(line)))]

\* map::insert leaves an item that is there as it is.
Insert(store, item) == store @@ (item.name :> item.content)

Items(lines) == LET kept == SelectSeq(lines, LAMBDA line : ~Skipped(line))
                IN  [i \in DOMAIN kept |-> ItemOf(kept[i])]

load == /\ file # NoFile
        /\ m_configItemStore' = FoldLeft(Insert, m_configItemStore, Items(file))
        /\ loaded' = file
        /\ UNCHANGED file

\* What get returns, or throws for.
Found(name) == name \in DOMAIN m_configItemStore
get(name) == m_configItemStore[name]

Edit == /\ file' \in (Files \union {NoFile}) \ {file}
        /\ UNCHANGED <<m_configItemStore, loaded>>

Next == load \/ Edit

Spec == Init /\ [][Next]_vars
-----------------------------------------------------------------------------
\* Loading the file again takes over what was edited: after load(), get returns
\* for each item of the file what a line of the file says.  It does not: insert
\* in load() keeps the item of an earlier load.
ReloadTakesEffect ==
    loaded # NoFile => \A item \in Range(Items(loaded)) :
        /\ Found(item.name)
        /\ \E other \in Range(Items(loaded)) :
              other.name = item.name /\ get(item.name) = other.content
=============================================================================
