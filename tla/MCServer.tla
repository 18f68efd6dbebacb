------------------------------ MODULE MCServer ------------------------------
(* One table and five batches: a CREATE TABLE with a CREATE SCHEMA; a      *)
(* SELECT and an INSERT; an INSERT whose second row fits only the replaced *)
(* table and is then too large; a CREATE OR REPLACE followed by statements *)
(* on the same table; and a CREATE TABLE in the schema, if it exists.      *)
EXTENDS Server

T     == <<PublicName, <<1>>>>
Extra == <<2>>
MCTablePaths == {T, <<Extra, <<1>>>>}

TextKey == [ty |-> "text", nullable |-> FALSE]
IntNull == [ty |-> "int", nullable |-> TRUE]

Create(path, schema)  == [kind |-> "create", path |-> path, schema |-> schema]
Replace(path, schema) == [kind |-> "replace", path |-> path, schema |-> schema]
Insert(path, rows)    == [kind |-> "insert", path |-> path, rows |-> rows]
SelectAll(path)       == [kind |-> "select", path |-> path]
Schema(dataset, ifNotExists) ==
    [kind |-> "schema", dataset |-> dataset, ifNotExists |-> ifNotExists]

Row(key, values)    == [key |-> key, values |-> values, oversized |-> FALSE]
BigRow(key, values) == [key |-> key, values |-> values, oversized |-> TRUE]

MCBatches ==
    {<<Create(T, <<TextKey>>), Schema(Extra, TRUE)>>,
     <<SelectAll(T), Insert(T, <<Row(<<1>>, <<"text">>)>>)>>,
     <<Insert(T, <<Row(<<2>>, <<"text">>), BigRow(<<3>>, <<"text", "int">>)>>)>>,
     <<Replace(T, <<TextKey, IntNull>>), Insert(T, <<Row(<<1>>, <<"text">>)>>), SelectAll(T)>>,
     <<Create(<<Extra, <<1>>>>, <<TextKey>>), Schema(Extra, FALSE)>>}
============================================================================
