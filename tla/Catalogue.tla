----------------------------- MODULE Catalogue -----------------------------
(***************************************************************************)
(* The catalogues that say what an agent is and where it names its model   *)
(* (topgent-collect/src: signatures.rs, model.rs). They are data, refused  *)
(* as a whole when one definition is unsafe, and consulted in their order: *)
(* the first family that matches is the answer.                            *)
(*                                                                         *)
(* Names are sequences of characters in lower case.                        *)
(***************************************************************************)
EXTENDS Naturals, Sequences, TLAPS

CONSTANTS Char, Nothing

StartsWith(name, part) == Len(part) <= Len(name) /\ \A k \in 1..Len(part) : name[k] = part[k]

Pattern == [match : {"exact", "prefix"}, value : Seq(Char)]

(* A family has executables, a sequence of patterns; markers, of which one *)
(* has to be in the path; and the names of images and of extensions.       *)
Matches(p, name) ==
  IF p.match = "exact" THEN name = p.value ELSE StartsWith(name, p.value)

NameMatches(family, name) == \E k \in DOMAIN family.executables : Matches(family.executables[k], name)

(* An executable is a name and the markers that are in its path.           *)
PathMatches(family, path) == family.markers = {} \/ family.markers \cap path # {}

-----------------------------------------------------------------------------
(* The first family of a catalogue that has a property.                    *)
First(c, Has(_)) ==
  IF \E i \in DOMAIN c : Has(c[i])
  THEN c[CHOOSE i \in DOMAIN c : Has(c[i]) /\ \A j \in DOMAIN c : Has(c[j]) => i <= j].id
  ELSE Nothing

RecogniseIn(c, name, path) ==
  LET Has(family) == NameMatches(family, name) /\ PathMatches(family, path) IN First(c, Has)

(* A command that is declared has no path.                                 *)
RecogniseDeclared(c, name) ==
  LET Has(family) == NameMatches(family, name) IN First(c, Has)

(* The tag and the digest of an image are not its name.                    *)
RecogniseImage(c, image) ==
  LET Has(family) == image.repository \in family.images IN First(c, Has)

RecogniseExtension(c, extension) ==
  LET Has(family) == extension \in family.extensions IN First(c, Has)

-----------------------------------------------------------------------------
(* Whether two patterns can be of one name.                                *)
Overlap(p, q) ==
  CASE p.match = "exact" /\ q.match = "exact" -> p.value = q.value
    [] p.match = "prefix" /\ q.match = "exact" -> StartsWith(q.value, p.value)
    [] p.match = "exact" /\ q.match = "prefix" -> StartsWith(p.value, q.value)
    [] OTHER -> StartsWith(p.value, q.value) \/ StartsWith(q.value, p.value)

Complete(family) ==
  /\ family.executables # <<>> \/ family.images # {} \/ family.extensions # {}
  /\ \A k \in DOMAIN family.executables : family.executables[k].value # <<>>

(* No two families have an id, an image, an extension or a name in common, *)
(* and no two patterns of one family overlap either.                       *)
Validate(c) ==
  /\ \A i \in DOMAIN c : Complete(c[i])
  /\ \A i, j \in DOMAIN c :
       i # j => /\ c[i].id # c[j].id
                /\ c[i].images \cap c[j].images = {}
                /\ c[i].extensions \cap c[j].extensions = {}
  /\ \A i, j \in DOMAIN c : \A k \in DOMAIN c[i].executables, l \in DOMAIN c[j].executables :
       <<i, k>> # <<j, l>> => ~Overlap(c[i].executables[k], c[j].executables[l])

(* A catalogue that is refused recognises nothing.                         *)
Builtin(c) == IF Validate(c) THEN c ELSE <<>>

-----------------------------------------------------------------------------
(* Where a family's model is read: a flag of its command line, or a key of *)
(* a file whose path is a sequence of segments, of which "/" stands for a  *)
(* path that is not relative.                                              *)
CheckPath(path) ==
  /\ path # <<>>
  /\ \A k \in DOMAIN path : path[k] \notin {"", "..", "/"}

ValidSource(s) ==
  IF s.kind = "argv" THEN s.flag /\ s.path = <<>> /\ ~s.key
  ELSE s.key /\ ~s.flag /\ CheckPath(s.path)

(* expand: the directories that a path leads to from the home, where a "*" *)
(* is any one entry. A place is the sequence of names below the root.      *)
Expand(home, path, entries) ==
  LET Into(places, segment) ==
        UNION {CASE segment = "*"  -> {Append(place, e) : e \in entries}
                 [] segment = ".." -> {SubSeq(place, 1, Len(place) - 1)}
                 [] segment = ""   -> {place}
                 [] segment = "/"  -> {<<>>}
                 [] OTHER          -> {Append(place, segment)} : place \in places}
      reached[n \in 0..Len(path)] == IF n = 0 THEN {home} ELSE Into(reached[n - 1], path[n])
  IN  reached[Len(path)]

-----------------------------------------------------------------------------
(* signatures.rs:209-213: a catalogue that is accepted attributes no name, *)
(* image or extension to two families, so that its order is of no matter.  *)
Unambiguous(c, names, images, extensions) ==
  Validate(c) =>
    \A i, j \in DOMAIN c : i # j =>
      /\ \A name \in names : ~(NameMatches(c[i], name) /\ NameMatches(c[j], name))
      /\ \A image \in images : ~(image \in c[i].images /\ image \in c[j].images)
      /\ \A e \in extensions : ~(e \in c[i].extensions /\ e \in c[j].extensions)

(* What is refused for its patterns is so because some name has both, and  *)
(* what is recognised of a path is what the command alone would be.        *)
RefusedWithCause(c, names, paths) ==
  /\ \A i, j \in DOMAIN c : \A k \in DOMAIN c[i].executables, l \in DOMAIN c[j].executables :
       LET p == c[i].executables[k]
           q == c[j].executables[l]
       IN  Overlap(p, q) => \E name \in names : Matches(p, name) /\ Matches(q, name)
  /\ \A name \in names, path \in paths :
       LET found == RecogniseIn(Builtin(c), name, path)
       IN  found # Nothing => found = RecogniseDeclared(Builtin(c), name)

(* model.rs:266-290, 374-377: a source that is accepted reads below the    *)
(* home and no deeper than its path says.                                  *)
StaysHome(s, home, entries) ==
  (ValidSource(s) /\ s.kind # "argv") =>
    \A place \in Expand(home, s.path, entries) :
      StartsWith(place, home) /\ Len(place) = Len(home) + Len(s.path)

-----------------------------------------------------------------------------
(* A catalogue that is accepted is unambiguous, whatever the characters,   *)
(* however many the families, and however long the names.                  *)
Definition ==
  [id : STRING, executables : Seq(Pattern), markers : SUBSET STRING,
   images : SUBSET STRING, extensions : SUBSET STRING]

-----------------------------------------------------------------------------
(* Of two starts of one name one is a start of the other.                  *)
LEMMA StartsAreOrdered ==
  ASSUME NEW name \in Seq(Char), NEW a \in Seq(Char), NEW b \in Seq(Char),
         StartsWith(name, a), StartsWith(name, b)
  PROVE  StartsWith(a, b) \/ StartsWith(b, a)
<1>1. Len(a) \in Nat /\ Len(b) \in Nat /\ Len(name) \in Nat
  OBVIOUS
<1>2. CASE Len(b) <= Len(a)
  <2>1. \A k \in 1..Len(b) : a[k] = b[k]
    BY <1>1, <1>2 DEF StartsWith
  <2> QED BY <1>2, <2>1 DEF StartsWith
<1>3. CASE Len(a) <= Len(b)
  <2>1. \A k \in 1..Len(a) : b[k] = a[k]
    BY <1>1, <1>3 DEF StartsWith
  <2> QED BY <1>3, <2>1 DEF StartsWith
<1> QED BY <1>1, <1>2, <1>3

(* Two patterns of one name overlap (signatures.rs:284-299).               *)
LEMMA CommonNameOverlaps ==
  ASSUME NEW p \in Pattern, NEW q \in Pattern, NEW name \in Seq(Char),
         Matches(p, name), Matches(q, name)
  PROVE  Overlap(p, q)
<1>1. /\ p.match \in {"exact", "prefix"} /\ p.value \in Seq(Char)
      /\ q.match \in {"exact", "prefix"} /\ q.value \in Seq(Char)
  BY DEF Pattern
<1>2. CASE p.match = "exact" /\ q.match = "exact"
  BY <1>2 DEF Matches, Overlap
<1>3. CASE p.match = "prefix" /\ q.match = "exact"
  BY <1>3 DEF Matches, Overlap
<1>4. CASE p.match = "exact" /\ q.match = "prefix"
  BY <1>4 DEF Matches, Overlap
<1>5. CASE p.match = "prefix" /\ q.match = "prefix"
  <2>1. StartsWith(name, p.value) /\ StartsWith(name, q.value)
    BY <1>5 DEF Matches
  <2>2. StartsWith(p.value, q.value) \/ StartsWith(q.value, p.value)
    BY <1>1, <2>1, StartsAreOrdered
  <2> QED BY <1>5, <2>2 DEF Overlap
<1> QED BY <1>1, <1>2, <1>3, <1>4, <1>5

-----------------------------------------------------------------------------
(* signatures.rs:209-213: a catalogue that Validate accepts attributes no  *)
(* executable, image or extension to two families.                         *)
THEOREM AcceptedIsUnambiguous ==
  ASSUME NEW c \in Seq(Definition), NEW images, NEW extensions
  PROVE  Unambiguous(c, Seq(Char), images, extensions)
<1> SUFFICES ASSUME Validate(c),
                    NEW i \in DOMAIN c, NEW j \in DOMAIN c, i # j
             PROVE  /\ \A name \in Seq(Char) : ~(NameMatches(c[i], name) /\ NameMatches(c[j], name))
                    /\ \A image \in images : ~(image \in c[i].images /\ image \in c[j].images)
                    /\ \A e \in extensions : ~(e \in c[i].extensions /\ e \in c[j].extensions)
  BY Zenon DEF Unambiguous
<1>1. c[i] \in Definition /\ c[j] \in Definition
  OBVIOUS
<1>2. ASSUME NEW name \in Seq(Char), NameMatches(c[i], name), NameMatches(c[j], name)
      PROVE  FALSE
  <2>1. PICK k \in DOMAIN c[i].executables : Matches(c[i].executables[k], name)
    BY <1>2 DEF NameMatches
  <2>2. PICK l \in DOMAIN c[j].executables : Matches(c[j].executables[l], name)
    BY <1>2 DEF NameMatches
  <2>3. c[i].executables[k] \in Pattern /\ c[j].executables[l] \in Pattern
    <3>1. c[i].executables \in Seq(Pattern) /\ c[j].executables \in Seq(Pattern)
      BY <1>1 DEF Definition
    <3> QED BY <3>1
  <2>4. Overlap(c[i].executables[k], c[j].executables[l])
    BY <1>2, <2>1, <2>2, <2>3, CommonNameOverlaps
  <2>5. <<i, k>> # <<j, l>>
    OBVIOUS
  <2> QED BY <2>4, <2>5 DEF Validate
<1>3. c[i].images \cap c[j].images = {} /\ c[i].extensions \cap c[j].extensions = {}
  BY DEF Validate
<1> QED BY <1>2, <1>3
=============================================================================
