------------------------------- MODULE Naming -------------------------------
(***************************************************************************)
(* The naming rules every tier shares (common/naming.py): the slug derived *)
(* from a site's name, the check of a slug, the canonical form of a path   *)
(* and its parts.  They are pure functions; the state is the text somebody *)
(* types or sends, one character after the other.                          *)
(*                                                                         *)
(* A character stands for a class the rules tell apart.                    *)
(***************************************************************************)
EXTENDS Naturals, Sequences, SequencesExt

CONSTANTS
    Chars,             \* the characters in use, of the classes below
    SlugMaxLength,     \* SLUG_MAX_LENGTH
    PathMaxLength,     \* PATH_MAX_LENGTH, in characters
    SegmentMaxBytes,   \* SEGMENT_MAX_BYTES, in bytes of UTF-8
    MaxText            \* bound: the longest text

\* "BS" is a backslash, "NL" a newline.
Classes == {"a", "A", "e", "e'", "W", "-", ".", "/", "BS", "NL"}

ASSUME Alphabet == Chars \subseteq Classes
ASSUME Lengths == SlugMaxLength \in Nat \ {0, 1} /\ PathMaxLength \in Nat /\ SegmentMaxBytes \in Nat

VARIABLE text

NoText == text = <<>>
Type(c) == Len(text) < MaxText /\ text' = Append(text, c)
Typing == \E c \in Chars : Type(c)
Texts == NoText /\ [][Typing]_text

(***************************************************************************)
(* Strings                                                                 *)
(***************************************************************************)
Invalid == <<"invalid">>   \* ValueError

\* str.strip(c)
Stripped(s, c) ==
    LET kept == {i \in DOMAIN s : s[i] # c}
    IN  IF kept = {} THEN <<>>
        ELSE SubSeq(s, CHOOSE i \in kept : \A j \in kept : i <= j, CHOOSE i \in kept : \A j \in kept : i >= j)

\* str.split("/") and "/".join
Split(s) ==
    FoldLeft(LAMBDA parts, c : IF c = "/" THEN Append(parts, <<>>)
                               ELSE [parts EXCEPT ![Len(parts)] = Append(@, c)],
             << <<>> >>, s)
Join(parts) == IF parts = <<>> THEN <<>> ELSE FoldLeft(LAMBDA s, part : s \o <<"/">> \o part, Head(parts), Tail(parts))

\* The bytes of a character in UTF-8: accented and wide ones take several.
Bytes(s) == FoldLeft(LAMBDA n, c : n + CASE c = "e'" -> 2 [] c = "W" -> 3 [] OTHER -> 1, 0, s)

(***************************************************************************)
(* Slugs.  "a" and "e" are lowercase ASCII letters or digits, "A" the      *)
(* capital of "a", "e'" is "e" with an accent, which NFKD takes apart, "W" *)
(* a letter with no ASCII form, and the others are themselves.             *)
(***************************************************************************)
Alnum == {"a", "e"}   \* [a-z0-9]

\* NFKD, encode("ascii", "ignore") and lower().
Ascii(s) ==
    FoldLeft(LAMBDA out, c : IF c = "W" THEN out
                             ELSE Append(out, IF c = "A" THEN "a" ELSE IF c = "e'" THEN "e" ELSE c),
             <<>>, s)

\* re.sub(r"[^a-z0-9]+", "-"): every run of other characters becomes one hyphen.
Hyphenated(s) ==
    FoldLeft(LAMBDA out, c : IF c \in Alnum THEN Append(out, c)
                             ELSE IF out # <<>> /\ Last(out) = "-" THEN out ELSE Append(out, "-"),
             <<>>, s)

\* Mutant: the cut may leave a hyphen at the end.
SlugFromName_CutLast(name) ==
    LET whole == Stripped(Hyphenated(Ascii(name)), "-")
        slug  == SubSeq(whole, 1, IF Len(whole) < SlugMaxLength THEN Len(whole) ELSE SlugMaxLength)
    IN  IF slug = <<>> THEN Invalid ELSE slug

SlugFromName(name) ==
    LET whole == Stripped(Hyphenated(Ascii(name)), "-")
        cut   == SubSeq(whole, 1, IF Len(whole) < SlugMaxLength THEN Len(whole) ELSE SlugMaxLength)
        slug  == Stripped(cut, "-")
    IN  IF slug = <<>> THEN Invalid ELSE slug

\* SLUG_RE up to its "$": a letter or digit at both ends, hyphens between.
SlugShape(s) ==
    /\ Len(s) \in 1 .. SlugMaxLength
    /\ \A i \in DOMAIN s : s[i] \in Alnum \cup {"-"}
    /\ Head(s) \in Alnum /\ Last(s) \in Alnum

\* "$" matches at the end of the string and before a newline that ends it.
SlugMatches(s) == SlugShape(s) \/ (s # <<>> /\ Last(s) = "NL" /\ SlugShape(Front(s)))

ValidateSlug(slug) == IF SlugMatches(slug) THEN slug ELSE Invalid

(***************************************************************************)
(* Paths                                                                   *)
(***************************************************************************)
HasAny(s, chars) == \E i \in DOMAIN s : s[i] \in chars

SegmentOK(segment) ==
    /\ segment \notin {<<>>, <<".">>, <<".", ".">>}
    /\ Bytes(segment) <= SegmentMaxBytes

\* Mutant: the slashes around a path stay.
ValidateSitePath_Unstripped(path) ==
    LET stripped == Stripped(path, "/")
    IN  IF \/ HasAny(path, {"BS", "NL"})
           \/ Len(stripped) > PathMaxLength
           \/ \E i \in DOMAIN Split(stripped) : ~SegmentOK(Split(stripped)[i])
        THEN Invalid ELSE path

\* validate_site_path without allow_root, which also takes the empty path.
ValidateSitePath(path) ==
    LET stripped == Stripped(path, "/")
        segments == Split(stripped)
    IN  IF \/ HasAny(path, {"BS", "NL"})
           \/ Len(stripped) > PathMaxLength
           \/ \E i \in DOMAIN segments : ~SegmentOK(segments[i])
        THEN Invalid ELSE Join(segments)

Slashes(path) == {i \in DOMAIN path : path[i] = "/"}
LastSlash(path) == CHOOSE i \in Slashes(path) : \A j \in Slashes(path) : j <= i

\* Mutant: the first slash parts a path.
PathParent_First(path) ==
    IF Slashes(path) = {} THEN <<>>
    ELSE SubSeq(path, 1, (CHOOSE i \in Slashes(path) : \A j \in Slashes(path) : i <= j) - 1)

\* path_parent and path_name: rpartition("/").
PathParent(path) == IF Slashes(path) = {} THEN <<>> ELSE SubSeq(path, 1, LastSlash(path) - 1)
PathName(path) == IF Slashes(path) = {} THEN path ELSE SubSeq(path, LastSlash(path) + 1, Len(path))

\* _below: the rows whose path begins with the folder and a slash.
BelowFolder(path, folder) == folder = <<>> \/ IsStrictPrefix(folder \o <<"/">>, path)

\* files_in_folder: of those, the ones with no slash after the folder's.
DirectlyIn(path, folder) ==
    LET start == IF folder = <<>> THEN 1 ELSE Len(folder) + 2
    IN  BelowFolder(path, folder) /\ ~HasAny(SubSeq(path, start, Len(path)), {"/"})

(***************************************************************************)
(* Properties                                                              *)
(***************************************************************************)

\* The letters and digits of a text as a slug spells them: no case, no accents, none without an
\* ASCII form.
Spelled(s) ==
    FoldLeft(LAMBDA out, c : IF c \in {"a", "A"} THEN Append(out, "a")
                             ELSE IF c \in {"e", "e'"} THEN Append(out, "e") ELSE out,
             <<>>, s)

\* A slug derived from a name is one the routes accept, however the name was
\* cut, and it is derived from itself.  It spells the name: its letters are
\* the first of the name's in their order, and all of them unless the slug
\* is as long as it may be, or one short of that where the cut fell on a
\* hyphen; no two hyphens stand together.  Only a name with nothing to spell
\* has no slug (slug_from_name, validate_slug).
SlugsAreSlugs ==
    LET slug == SlugFromName(text) IN
    IF slug = Invalid THEN Spelled(text) = <<>>
    ELSE /\ SlugShape(slug) /\ ValidateSlug(slug) = slug
         /\ SlugFromName(slug) = slug
         /\ IsPrefix(Spelled(slug), Spelled(text))
         /\ Spelled(slug) = Spelled(text) \/ Len(slug) >= SlugMaxLength - 1
         /\ \A i \in 1 .. Len(slug) - 1 : slug[i] \in Alnum \/ slug[i + 1] \in Alnum

Outside == <<Invalid>>

\* Where a file system arrives that walks a path from the site's folder: ""
\* and "." stay, ".." goes up, and from the folder itself out of it.
WalkOf(segments) ==
    FoldLeft(LAMBDA here, segment :
                 IF here = Outside THEN Outside
                 ELSE IF segment \in {<<>>, <<".">>} THEN here
                 ELSE IF segment = <<".", ".">> THEN (IF here = <<>> THEN Outside ELSE Front(here))
                 ELSE Append(here, segment),
             <<>>, segments)
Walk(path) == WalkOf(Split(path))

\* An accepted path has one canonical form, which is accepted as itself, and
\* the file system finds below the site's folder just the segments it names:
\* two rows of `files` are never the same file (validate_site_path).
PathsAreCanonical ==
    LET path == ValidateSitePath(text) IN
    path # Invalid =>
        /\ ValidateSitePath(path) = path
        /\ Walk(path) = Split(path) /\ Walk(text) = Walk(path)

\* What the tiers ask about a path agree: its parent and its name make it up,
\* the parent is a canonical path or the root, the path lies below exactly the
\* parents above it and directly in the nearest (path_parent and path_name,
\* the prefixes of db._below and of files_in_folder).
ParentsAreFolders ==
    LET path   == ValidateSitePath(text)
        parent == PathParent(path)
    IN  path # Invalid =>
        /\ path = IF parent = <<>> THEN PathName(path) ELSE parent \o <<"/">> \o PathName(path)
        /\ parent = <<>> \/ ValidateSitePath(parent) = parent
        /\ \A n \in 0 .. Len(path) :
               LET folder == SubSeq(path, 1, n) IN
               folder = <<>> \/ ValidateSitePath(folder) = folder =>
                   /\ DirectlyIn(path, folder) <=> folder = parent
                   /\ BelowFolder(path, folder) <=>
                          folder = parent \/ (parent # <<>> /\ BelowFolder(parent, folder))

\* "lowercase letters, digits and hyphens, 1..63 characters" (naming.py:47):
\* what validate_slug accepts has that shape.
AcceptedSlugsAreSlugs == ValidateSlug(text) # Invalid => SlugShape(text)
=============================================================================
