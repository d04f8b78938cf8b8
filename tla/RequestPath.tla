----------------------------- MODULE RequestPath -----------------------------
(***************************************************************************)
(* From the target of a request to what it asks for.  The escapes of a     *)
(* target are undone character by character, so targets are sequences of   *)
(* characters here, and a character is its code.                           *)
(*                                                                         *)
(* Paths of files are absolute: the sequence of their names.  No file is a *)
(* symbolic link.                                                          *)
(***************************************************************************)
EXTENDS Integers, SequencesExt

CONSTANTS
    Files,    \* the files, by their paths
    Locked,   \* those that cannot be opened
    Root      \* static_path_

Blank == 32
Percent == 37
Plus == 43
Minus == 45
Dot == 46
Slash == 47

\* Every path names a file or a directory, not both, and the root is there.
ASSUME FilesAssumption ==
    /\ Locked \subseteq Files
    /\ \A f, g \in Files : ~IsStrictPrefix(f, g)
    /\ \E f \in Files : IsStrictPrefix(Root, f)

\* "/api/", "/api/v1/maps" and "index.html".
Api   == <<47, 97, 112, 105, 47>>
Maps  == Api \o <<118, 49, 47, 109, 97, 112, 115>>
Index == <<105, 110, 100, 101, 120, 46, 104, 116, 109, 108>>
-----------------------------------------------------------------------------
(* RequestHandler::ParseURL.                                               *)

HexDigits == (48 .. 57) \cup (65 .. 70) \cup (97 .. 102)

HexValue(c) == IF c <= 57 THEN c - 48 ELSE IF c <= 70 THEN c - 55 ELSE c - 87

NoNumber == -1

\* std::stoi with base 16, of at most two characters: a sign or a blank may lead,
\* what follows the digits is ignored, and without a digit it throws.
Stoi(s) ==
    IF s = <<>> THEN NoNumber
    ELSE IF s[1] \in HexDigits
    THEN IF Len(s) = 2 /\ s[2] \in HexDigits
         THEN 16 * HexValue(s[1]) + HexValue(s[2]) ELSE HexValue(s[1])
    ELSE IF Len(s) = 2 /\ s[1] \in {Blank, Plus, Minus} /\ s[2] \in HexDigits
    THEN (IF s[1] = Minus THEN 256 - HexValue(s[2]) ELSE HexValue(s[2])) % 256
    ELSE NoNumber

\* substr ends with the string.
UpTo2(s, i) == SubSeq(s, i, IF i < Len(s) THEN i + 1 ELSE Len(s))

\* Slip: i is not advanced past the digits.
AfterEscapeNot(i) == i + 1

AfterEscape(i) == i + 3

\* The characters that the target stands for, NoNumber where stoi throws.
ParseURL(target) ==
    LET from[i \in 1 .. Len(target) + 3] ==
            IF i > Len(target) THEN <<>>
            ELSE IF target[i] = Percent
            THEN <<Stoi(UpTo2(target, i + 1))>> \o from[AfterEscape(i)]
            ELSE <<IF target[i] = Plus THEN Blank ELSE target[i]>> \o from[i + 1]
    IN  from[1]

Throws(query) == \E k \in DOMAIN query : query[k] = NoNumber
-----------------------------------------------------------------------------
(* ApiRequestParser::ParseQueryMapName.                                    *)

IsApi(query) == IsPrefix(Api, query)

\* The character after the prefix is skipped whatever it is.
ParseQueryMapName(query) ==
    LET name == SubSeq(query, Len(Maps) + 2, Len(query))
    IN  IF \E k \in DOMAIN name : name[k] = Slash THEN <<>> ELSE name
-----------------------------------------------------------------------------
(* StaticRequestParser: the file a query asks for.                         *)

\* The names between the slashes.
Names(text) ==
    FoldLeft(LAMBDA names, c : IF c = Slash THEN Append(names, <<>>)
                ELSE [names EXCEPT ![Len(names)] = Append(@, c)],
             << <<>> >>, text)

\* weakly_canonical: the path from "start" on.
Canonical(start, names) ==
    FoldLeft(LAMBDA path, name :
                IF name \in {<<>>, <<Dot>>} THEN path
                ELSE IF name # <<Dot, Dot>> THEN Append(path, name)
                ELSE IF path = <<>> THEN path ELSE Front(path),
             start, names)

\* A path and whether it can only be a directory's.  What is left of the query
\* without its first character replaces the root if it begins with a slash.
GetFilePath(query) ==
    IF query \in {<<Slash>>, Index}
    THEN [path |-> Append(Root, Index), dir |-> FALSE]
    ELSE LET rest  == Tail(query)
             names == Names(rest)
         IN  [path |-> Canonical(IF IsPrefix(<<Slash>>, rest) THEN <<>> ELSE Root,
                                 names),
              dir |-> Last(names) \in {<<>>, <<Dot>>, <<Dot, Dot>>}]

\* Slip: the walk ends with the shorter of the two paths.
IsSubPathOrAbove(path, base) ==
    \A k \in (DOMAIN path) \cap (DOMAIN base) : path[k] = base[k]

IsSubPath(path, base) == IsPrefix(base, path)

IsDirectory(path) == \E f \in Files : IsStrictPrefix(path, f)

Exists(file) ==
    IsDirectory(file.path) \/ (file.path \in Files /\ ~file.dir)
=============================================================================
