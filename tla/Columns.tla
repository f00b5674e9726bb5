------------------------------- MODULE Columns -------------------------------
(***************************************************************************)
(* From the rows of a batch to its columns: columns_from_map_values and    *)
(* rows_to_columns of src/protocol_helpers.c, the null strategies, the     *)
(* element type of a column, its estimated size, and the difference and    *)
(* the merge of two lists of columns under a template.  Which vector codec *)
(* a column takes is a function of its values and is left out: it decides  *)
(* how the values are written, not which.                                  *)
(***************************************************************************)
EXTENDS SequencesExt

-----------------------------------------------------------------------------
(* Values: size is the encoded_string_size of a string, fields the entries *)
(* of a map or the elements of an array.                                   *)

Scalar(kind, data, size) ==
    [kind |-> kind, data |-> data, size |-> size, fields |-> << >>]
Compound(kind, fields) ==
    [kind |-> kind, data |-> "", size |-> 0, fields |-> fields]

MapOf(entries) == Compound("Map", entries)
ArrayOf(items) == Compound("Array", items)
Null           == Scalar("Null", "", 0)

Entry(key, val) == [key |-> key, val |-> val]
KeysOf(map)     == [i \in DOMAIN map.fields |-> map.fields[i].key]

IsNull(v)  == v.kind = "Null"
NotNull(v) == v.kind # "Null"

-----------------------------------------------------------------------------
(* What a loop that takes some items gathers: those whose bit is set.      *)

SetBitsTo(mask, i) == Cardinality({j \in 1..i : mask[j]})

Masked(mask, items) ==
    [j \in 1..SetBitsTo(mask, Len(mask)) |->
        items[CHOOSE i \in DOMAIN mask : mask[i] /\ SetBitsTo(mask, i) = j]]

-----------------------------------------------------------------------------
(* One column.  A cell is a value and its presence bit.                    *)

Present(v) == [val |-> v, present |-> TRUE]
Missing    == [val |-> Null, present |-> FALSE]

\* Mutant: the inverted bitmap is written as it is.
null_strategy_uninverted(cells) ==
    LET bits  == [i \in DOMAIN cells |-> cells[i].present]
        nulls == Cardinality({i \in DOMAIN cells : IsNull(cells[i].val)})
    IN  IF nulls = 0 THEN [strategy |-> "AllPresentElided", presence |-> << >>]
        ELSE IF nulls <= Len(cells) \div 4
             THEN [strategy |-> "InvertedPresenceBitmap", presence |-> bits]
        ELSE [strategy |-> "PresenceBitmap", presence |-> bits]

\* The strategy follows the null values, the bitmap the presence bits: a
\* null that a map holds is counted by the one and present in the other.
column_null_strategy(cells) ==
    LET bits  == [i \in DOMAIN cells |-> cells[i].present]
        nulls == Cardinality({i \in DOMAIN cells : IsNull(cells[i].val)})
    IN  IF nulls = 0 THEN [strategy |-> "AllPresentElided", presence |-> << >>]
        ELSE IF nulls <= Len(cells) \div 4
             THEN [strategy |-> "InvertedPresenceBitmap",
                   presence |-> [i \in DOMAIN bits |-> ~bits[i]]]
        ELSE [strategy |-> "PresenceBitmap", presence |-> bits]

strip_nulls(cells) == Masked([i \in DOMAIN cells |-> NotNull(cells[i].val)],
                             [i \in DOMAIN cells |-> cells[i].val])

\* The element type infer_column_codec_and_values settles on.
ElementType(values) ==
    LET uniform == {k \in {"I64", "U64", "F64", "Bool", "String"} :
                       \A i \in DOMAIN values : values[i].kind = k}
    IN  IF values = << >> THEN "I64"
        ELSE IF uniform # {} THEN CHOOSE k \in uniform : TRUE
        ELSE "Value"

Column(field_id, cells) ==
    LET nulls  == column_null_strategy(cells)
        values == strip_nulls(cells)
    IN  [field_id |-> field_id, null_strategy |-> nulls.strategy,
         presence |-> nulls.presence, type |-> ElementType(values),
         values |-> values]

\* The value a column holds for row r, by the meaning of its bitmap.
CellAt(col, r) ==
    LET here == IF col.null_strategy = "PresenceBitmap"
                THEN col.presence ELSE [i \in DOMAIN col.presence |-> ~col.presence[i]]
    IN  IF col.null_strategy = "AllPresentElided" THEN col.values[r]
        ELSE IF here[r]
             THEN col.values[Cardinality({i \in 1..r : here[i]})]
        ELSE Null

-----------------------------------------------------------------------------
(* All columns of a batch. *)

AllMaps(values) == \A i \in DOMAIN values : values[i].kind = "Map"

\* The keys of all rows in the order of their first occurrence.
key_order(values) ==
    LET all == FlattenSeq([r \in DOMAIN values |-> KeysOf(values[r])])
        keys[i \in 0..Len(all)] ==
            IF i = 0 THEN << >>
            ELSE LET before == keys[i - 1]
                 IN  IF Contains(before, all[i]) THEN before
                                                 ELSE Append(before, all[i])
    IN  keys[Len(all)]

\* A row adds one cell per occurrence of the key, and a missing one if there
\* is none: a repeated key makes its column longer than the others.
CellsOfKey(row, key) ==
    LET here == [i \in DOMAIN row.fields |-> row.fields[i].key = key]
    IN  IF \A i \in DOMAIN here : ~here[i] THEN << Missing >>
        ELSE Masked(here, [i \in DOMAIN here |-> Present(row.fields[i].val)])

columns_from_map_values(values) ==
    IF values = << >> \/ ~AllMaps(values) THEN << >>
    ELSE LET keys == key_order(values)
         IN  [k \in DOMAIN keys |->
                 Column(k - 1, FlattenSeq([r \in DOMAIN values |->
                                              CellsOfKey(values[r], keys[k])]))]

\* An array is a row of its elements, any other value a row of one.
rows_from_values(values) ==
    [r \in DOMAIN values |-> IF values[r].kind = "Array" THEN values[r].fields
                                                         ELSE << values[r] >>]

rows_to_columns(rows) ==
    IF rows = << >> THEN << >>
    ELSE LET width == Max({Len(rows[r]) : r \in DOMAIN rows})
         IN  [c \in 1..width |->
                 Column(c - 1, [r \in DOMAIN rows |->
                     IF c <= Len(rows[r]) /\ NotNull(rows[r][c])
                     THEN Present(rows[r][c]) ELSE Missing])]

\* What encode_batch and encode_micro_batch make of their values.
BatchColumns(values) ==
    IF columns_from_map_values(values) # << >>
    THEN columns_from_map_values(values)
    ELSE rows_to_columns(rows_from_values(values))

has_uniform_micro_batch_shape(values) ==
    /\ values # << >> /\ AllMaps(values)
    /\ \A i \in DOMAIN values : KeysOf(values[i]) = KeysOf(values[1])

-----------------------------------------------------------------------------
(* Columns under a template. *)

\* For field ids below 128; a column of mixed values counts for nothing.
estimate_column_size(col) ==
    5 + CASE col.type = "Bool"            -> Len(col.values) \div 8 + 2
          [] col.type \in {"I64", "U64"}  -> Len(col.values) * 4
          [] col.type = "F64"             -> Len(col.values) * 8
          [] col.type = "String"          ->
                 FoldLeft(LAMBDA n, v : n + v.size, 0, col.values)
          [] OTHER                        -> 0

\* The part of a TemplateDescriptor that find_template_id compares.
descriptor(columns) ==
    [i \in DOMAIN columns |-> << columns[i].field_id, columns[i].null_strategy >>]

\* Mutant: columns are taken for equal when they hold as many values.
diff_counts_values(previous, current) ==
    [i \in DOMAIN current |->
        \/ i > Len(previous)
        \/ Len(previous[i].values) # Len(current[i].values)]

\* diff_template_columns: a column changed if its estimated size did.
changed_mask(previous, current) ==
    [i \in DOMAIN current |->
        \/ i > Len(previous)
        \/ estimate_column_size(previous[i]) # estimate_column_size(current[i])]

\* Mutant: the cursor over the changed columns starts one too far.
merge_cursor_stuck(previous, mask, changed) ==
    [i \in DOMAIN mask |-> IF mask[i] THEN changed[1] ELSE previous[i]]

\* merge_template_columns: a column that did not travel is the previous one
\* at its place, and an error if there is none.  As many columns travel as
\* the mask has bits, so its other error cannot happen.
CanMerge(previous, mask) ==
    \A i \in DOMAIN mask : mask[i] \/ i \in DOMAIN previous

merge_template_columns(previous, mask, changed) ==
    [i \in DOMAIN mask |-> IF mask[i] THEN changed[SetBitsTo(mask, i)]
                                      ELSE previous[i]]
=============================================================================
