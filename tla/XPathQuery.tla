----------------------------- MODULE XPathQuery -----------------------------
(***************************************************************************)
(* The simplified XPath of lib/parsers/xpath.ts, beside what XPath itself  *)
(* means by the same path.                                                 *)
(*                                                                         *)
(* A document is the sequence of its elements, depth first, siblings of    *)
(* one name side by side; parent 0 is the document.  text and attr are     *)
(* sets of at most one content: none is the empty set.  The parser of the  *)
(* code keeps elements of one name under one parent in an array if there   *)
(* are several, and as the element itself if there is one; it makes an     *)
(* element with nothing in it the empty string.                            *)
(*                                                                         *)
(* A path is [anywhere, parts, final]: whether it begins with "//", its    *)
(* element names, each with the set of values the attribute is compared to *)
(* (none or one), and "element", "text" or "attribute" for how it ends.    *)
(* A predicate is legible if it fits the pattern of the code: its names    *)
(* are of word characters only, with no "-", "." or ":", and its value is  *)
(* not empty.                                                              *)
(*                                                                         *)
(* Left out: more than one text or attribute in an element, texts of white *)
(* space alone, numbers too large for JavaScript, names every object or    *)
(* array has anyway, "/" in a value, and "//" but at the beginning.        *)
(***************************************************************************)
EXTENDS Naturals, FiniteSets, Sequences, SequencesExt

(* A string is the set of the words it includes.  A content is text in the *)
(* document, and the code writes what its parser made of that: without the *)
(* white space around it, and for a text that reads as a number, the       *)
(* number, 2.5 for "2.50", 7 for "007" and 1000 for "1e3".  An attribute   *)
(* loses but the white space.                                              *)
Content == [text : SUBSET STRING, written : SUBSET STRING]

Texts(contents) == {c.text : c \in contents}

Writings(contents) == {c.written : c \in contents}

Element == [parent : Nat, name : STRING, text : SUBSET Content, attr : SUBSET Content]

IsDocument(doc) == doc \in Seq(Element) /\ \A n \in DOMAIN doc : doc[n].parent < n

Part == [name : STRING, value : SUBSET SUBSET STRING, legible : BOOLEAN]

IsPath(path) ==
    /\ path.anywhere \in BOOLEAN
    /\ path.parts \in Seq(Part) \ {<<>>}
    /\ path.final \in {"element", "text", "attribute"}

Markup == {"markup"}  \* an element, or an array of them, put into JSON

(* A set of numbers in their order.                                        *)
InOrder(S) ==
    [i \in 1..Cardinality(S) |-> CHOOSE n \in S : Cardinality({m \in S : m <= n}) = i]

(* Of the sets given for some elements, the strings of those that are not  *)
(* empty, in the order of the elements.                                    *)
Strings(sets) ==
    LET present == InOrder({n \in DOMAIN sets : sets[n] # {}})
    IN  [i \in DOMAIN present |-> CHOOSE v \in sets[present[i]] : TRUE]

-----------------------------------------------------------------------------
(* The elements called name below element i: one, or an array.             *)
GetElements(doc, i, name) ==
    {n \in DOMAIN doc : doc[n].parent = i /\ doc[n].name = name}

(* One element has children and text, an array of several has no property  *)
(* of any name.                                                            *)
Alone(current) == {n \in current : current = {n}}

(* One part of a path from what the last one gave.  A predicate takes the  *)
(* first element that satisfies it; one that is not legible is taken for a *)
(* part of the name, and nothing has that name.                            *)
GetElement(doc, current, part) ==
    LET named == UNION {GetElements(doc, i, part.name) : i \in Alone(current)}
        fit == {n \in named : part.legible /\ part.value = Writings(doc[n].attr)}
    IN  IF part.value = {} THEN named ELSE {n \in fit : \A m \in fit : n <= m}

(* Bare: with nothing but a text, if that, and so a string, a number or a  *)
(* boolean to the parser and no object.                                    *)
Bare(doc, n) == doc[n].attr = {} /\ \A m \in DOMAIN doc : doc[m].parent # n

Empty(doc, n) == Bare(doc, n) /\ doc[n].text = {}

IsTruthValue(doc, n) ==
    Bare(doc, n) /\ Writings(doc[n].text) \in {{{"true"}}, {{"false"}}}

Text(doc, n) == IF Empty(doc, n) THEN {{}} ELSE Writings(doc[n].text)

(* How the path ends: an array has no text, and is one value as a whole.   *)
(* text() takes a string, a number or an object, and no boolean.           *)
PathEnd(doc, current, final) ==
    LET texts == Strings([n \in Alone(current) |-> Text(doc, n)])
    IN  CASE final = "attribute" -> Strings([n \in current |-> Writings(doc[n].attr)])
          [] final = "text" ->
                IF \E n \in Alone(current) : IsTruthValue(doc, n) THEN <<>> ELSE texts
          [] final = "element" -> IF current = {} \/ texts # <<>> THEN texts ELSE <<Markup>>

ExecuteSimplifiedXPath(doc, from, parts, final) ==
    LET current[i \in 0..Len(parts)] ==
            IF i = 0 THEN {from} ELSE GetElement(doc, current[i - 1], parts[i])
    IN  PathEnd(doc, current[Len(parts)], final)

(* "//name": the elements of that name under each element in turn, whatever *)
(* the predicate on it says, and the rest of the path from each of them.   *)
FindAllElements(doc, name) ==
    FlattenSeq([n \in 1..(Len(doc) + 1) |-> InOrder(GetElements(doc, n - 1, name))])

QueryXPath(doc, path) ==
    IF ~path.anywhere
    THEN ExecuteSimplifiedXPath(doc, 0, path.parts, path.final)
    ELSE LET found == FindAllElements(doc, Head(path.parts).name)
         IN  FlattenSeq([n \in DOMAIN found |->
                 ExecuteSimplifiedXPath(doc, found[n], Tail(path.parts), path.final)])

-----------------------------------------------------------------------------
(* What XPath means: a chain of elements, one for each part.               *)
Selects(doc, path, n) ==
    \E chain \in [1..Len(path.parts) -> DOMAIN doc] :
        /\ chain[Len(path.parts)] = n
        /\ ~path.anywhere => doc[chain[1]].parent = 0
        /\ \A i \in DOMAIN chain :
            /\ i > 1 => doc[chain[i]].parent = chain[i - 1]
            /\ doc[chain[i]].name = path.parts[i].name
            /\ path.parts[i].value \in {{}, Texts(doc[chain[i]].attr)}

(* The values that gives, in document order.                               *)
XPathValues(doc, path) ==
    LET nodes == {n \in DOMAIN doc : Selects(doc, path, n)}
        texts == [n \in nodes |-> Texts(doc[n].text)]
    IN  CASE path.final = "attribute" -> Strings([n \in nodes |-> Texts(doc[n].attr)])
          [] path.final = "text" -> Strings(texts)
          [] path.final = "element" ->
                Strings([n \in nodes |-> IF texts[n] = {} THEN {Markup} ELSE texts[n]])

(* The documents and paths for which the simplification changes at most    *)
(* the order of the values: no element shares its name with a sibling or   *)
(* is empty, what is written is the text, text() is not asked of a         *)
(* boolean, each predicate is legible and "//" has none.                   *)
Plain(doc, path) ==
    /\ \A m, n \in DOMAIN doc :
        doc[m].parent = doc[n].parent /\ doc[m].name = doc[n].name => m = n
    /\ \A n \in DOMAIN doc :
        /\ ~Empty(doc, n)
        /\ \A c \in doc[n].text \cup doc[n].attr : c.written = c.text
        /\ path.final = "text" => ~IsTruthValue(doc, n)
    /\ \A i \in 1..Len(path.parts) : path.parts[i].value # {} => path.parts[i].legible
    /\ path.anywhere => Head(path.parts).value = {}
=============================================================================
