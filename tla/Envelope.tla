------------------------------- MODULE Envelope -------------------------------
(***************************************************************************)
(* What a caller is sent of an answer: values masked for the caller, then  *)
(* presented under their member paths.  How a number or a time is written  *)
(* is left out; a bucket is sent twice, under its path and under the path  *)
(* with the granularity added.                                             *)
(***************************************************************************)
EXTENDS SqlBuilder

CONSTANT Redacted   \* "***"

\* A NULL stays NULL.  A partial mask redacts what is too short to cut, and
\* a hash is a value like no other, the same for equal values.
ApplyMask(value, kind) ==
    CASE value = None \/ kind = None  -> value
      [] value # None /\ kind = "hash" -> -1 - value
      [] OTHER                        -> Redacted

MaskFor(path, ctx) == Member(path).mask[ctx.role]

\* Executor.execute: a row is a dict by the names of the columns, in which of
\* two columns with one name the last stands.
Fetched(q, row) == [path \in {NameOf(column) : column \in Outputs(q)} |-> row[ColumnOf(q, path)]]

MaskRow(q, ctx, row) ==
    [path \in DOMAIN row |-> ApplyMask(row[path], MaskFor(path, ctx))]

\* td_map: of the time dimensions with one path the last stands.
LastOf(q, path) ==
    q.timeDimensions[Max({i \in DOMAIN q.timeDimensions : q.timeDimensions[i].path = path})]

\* Mutant of PresentRow: every granularity of a path is a key.
PresentRowTwice(q, row) ==
    LET twice == {Bucket(q.timeDimensions[i]) : i \in Buckets(q)}
    IN  [key \in DOMAIN row \cup twice |-> row[NameOf(key)]]

\* _present_rows: the keys of a row are its paths and those of their buckets.
PresentRow(q, row) ==
    LET buckets == {LastOf(q, path) : path \in DOMAIN row \cap TimePaths(q)}
        twice   == {Bucket(td) : td \in {t \in buckets : t.granularity # None}}
    IN  [key \in DOMAIN row \cup twice |-> row[NameOf(key)]]

\* Mutant of SentRow: the rows are presented first, and masked by their paths.
SentRowMaskedLast(q, ctx, row) ==
    LET sent == PresentRow(q, Fetched(q, row))
    IN  [key \in DOMAIN sent |->
            IF Len(key) = 2 THEN ApplyMask(sent[key], MaskFor(key, ctx)) ELSE sent[key]]

\* build_envelope, for one row of an answer: masks, then presentation.
SentRow(q, ctx, row) == PresentRow(q, MaskRow(q, ctx, Fetched(q, row)))

\* build_annotation: the members a client is told the columns of.
Annotated(q) == ToSet(q.measures) \cup ToSet(q.dimensions) \cup TimePaths(q)

=============================================================================
