----------------------------- MODULE Includes ------------------------------
(***************************************************************************)
(* The expansion of @include lines (src/include.rs).  A file is a sequence *)
(* of lines:                                                               *)
(*                                                                         *)
(*   <<"text", s>>         a line the expansion copies                     *)
(*   <<"include", raw>>    an @include of the relative path raw            *)
(*   <<"hidden", raw>>     one behind "//"                                  *)
(*   <<"comment", raw>>    one in a comment that is closed in its line      *)
(*   <<"open">>            a line that begins with an unclosed comment     *)
(*   <<"close">>           a line that holds the end of a comment          *)
(*                                                                         *)
(* A path is a sequence of names, an absolute one begins with "/".         *)
(* disk maps the files' real paths to their lines, links other paths to    *)
(* the real ones they stand for.                                           *)
(***************************************************************************)
EXTENDS Integers, Sequences

CanonicalOf(path, links) == IF path \in DOMAIN links THEN links[path] ELSE path

\* Mutant of Under: any directory will do.
Anywhere(path, dir) == TRUE

Under(path, dir) == Len(dir) <= Len(path) /\ SubSeq(path, 1, Len(dir)) = dir
parent_dir(path) == SubSeq(path, 1, Len(path) - 1)

has_include_directive(lines) == \E i \in DOMAIN lines : lines[i][1] = "include"
validate_include_path(raw) == raw # <<>> /\ raw[1] # "/" /\ \A i \in DOMAIN raw : raw[i] # ".."

\* What one file gives: the lines written, the files included in their order,
\* and why the expansion stopped, "ok" when it did not.
Done(out, includes) == [out |-> out, includes |-> includes, error |-> "ok"]
Refused(why) == [out |-> <<>>, includes |-> <<>>, error |-> why]

\* What ends an open comment, a comment that is opened inside of it included.
EndsComment(line) == line[1] \in {"close", "comment"}

RECURSIVE expand(_, _, _, _, _, _, _)
expand(lines, dir, root, stack, commented, disk, links) ==
    IF lines = <<>> THEN Done(<<>>, <<>>)
    ELSE LET line == Head(lines)
             \* The rest of this file, after the lines and files so far.
             after(out, includes, comment) ==
                LET rest == expand(Tail(lines), dir, root, stack, comment, disk, links)
                IN IF rest.error # "ok" THEN rest
                   ELSE Done(out \o rest.out, includes \o rest.includes)
             joined == dir \o line[2]
             canonical == CanonicalOf(joined, links)
             inner == expand(disk[canonical], parent_dir(joined), root, Append(stack, canonical),
                             FALSE, disk, links)
         IN CASE commented -> after(<<line>>, <<>>, ~EndsComment(line))
              [] ~commented /\ line[1] # "include" -> after(<<line>>, <<>>, line[1] = "open")
              [] ~commented /\ line[1] = "include" ->
                    IF ~validate_include_path(line[2]) THEN Refused("invalid")
                    ELSE IF canonical \notin DOMAIN disk THEN Refused("not found")
                    ELSE IF ~Under(canonical, root) THEN Refused("escapes")
                    ELSE IF \E i \in DOMAIN stack : stack[i] = canonical THEN Refused("cycle")
                    ELSE IF inner.error # "ok" THEN inner
                    ELSE after(inner.out, <<joined>> \o inner.includes, FALSE)

\* From a text: nothing is being included yet.
resolve_includes(lines, base_dir, disk, links) ==
    IF ~has_include_directive(lines) THEN Done(lines, <<>>)
    ELSE expand(lines, base_dir, base_dir, <<>>, FALSE, disk, links)

\* From a file, which is itself being included.
resolve_includes_from_path(path, disk, links) ==
    LET real == CanonicalOf(path, links)
        lines == disk[real]
    IN IF real \notin DOMAIN disk THEN Refused("could not read")
       ELSE IF ~has_include_directive(lines) THEN Done(lines, <<>>)
       ELSE expand(lines, parent_dir(path), parent_dir(path), <<real>>, FALSE, disk, links)
============================================================================
