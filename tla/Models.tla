------------------------------- MODULE Models -------------------------------
(***************************************************************************)
(* The Go struct types whose documents kiwidb writes: schema.PKey, the     *)
(* bootstrap tables' schema.TableSchema and schema.IndexSchema, and the    *)
(* User model of pkg/db's tests, as StructFields type tables.  Names are   *)
(* byte sequences (ASCII).                                                 *)
(***************************************************************************)
EXTENDS StructFields

NoTag == [skip |-> FALSE, name |-> <<>>, omitempty |-> FALSE]
Tag(n) == [NoTag EXCEPT !.name = n]
Skip == [NoTag EXCEPT !.skip = TRUE]

\* A named exported field, and an exported embedded struct.
Field(n, tag, t) == [name |-> n, exported |-> TRUE, anonymous |-> FALSE, tag |-> tag, typ |-> t]
Embedded(t, n) == [name |-> n, exported |-> TRUE, anonymous |-> TRUE, tag |-> NoTag, typ |-> t]

N_id == <<105, 100>>                                        \* "id"
N_PKey == <<80, 75, 101, 121>>                              \* "PKey"
N_constraint == <<99, 111, 110, 115, 116, 114, 97, 105, 110, 116>>
N_desc == <<100, 101, 115, 99>>
N_name == <<110, 97, 109, 101>>
N_owner == <<111, 119, 110, 101, 114>>

\* schema.PKey{ID SFID `msgp:"id"`}; schema.TableSchema{PKey; Name
\* `msgp:"name"`; Type `msgp:"-"`; IndexSchemas `msgp:"-"`};
\* schema.IndexSchema{PKey; Owner `msgp:"owner"`; IndexType `msgp:"type"`;
\* Paths `msgp:"paths"`}; pkg/db's User{schema.PKey; Name
\* `msgp:"constraint"`; Desc `msgp:"desc,omitempty"`}.
ModelTypes ==
    [PKey        |-> << Field(<<73, 68>>, Tag(N_id), "uint64") >>,
     TableSchema |-> << Embedded("PKey", N_PKey),
                        Field(<<78, 97, 109, 101>>, Tag(N_name), "string"),
                        Field(<<84, 121, 112, 101>>, Skip, "reflect.Type"),
                        Field(<<73, 83>>, Skip, "map") >>,
     IndexSchema |-> << Embedded("PKey", N_PKey),
                        Field(<<79>>, Tag(N_owner), "uint64"),
                        Field(<<84>>, Tag(<<116, 121, 112, 101>>), "int"),
                        Field(<<80>>, Tag(<<112, 97, 116, 104, 115>>), "[]KeyPath") >>,
     User        |-> << Embedded("PKey", N_PKey),
                        Field(<<78, 97, 109, 101>>, Tag(N_constraint), "string"),
                        Field(<<68, 101, 115, 99>>, [Tag(N_desc) EXCEPT !.omitempty = TRUE], "string") >>]

\* &User{PKey: PKey{ID: id}, Name: name, Desc: desc} as the entries the
\* struct encoder writes.
UserElems(id, name, desc) == StructElems(ModelTypes, "User", << <<id>>, name, desc >>)

\* schema.IndexType: Index, UniqueIndex.
Index == 0
UniqueIndex == 1

\* Indexes() of the models that declare indexes: index name -> IndexType.
ModelIndexes ==
    [TableSchema |-> N_name :> UniqueIndex,
     IndexSchema |-> N_owner :> Index,
     User        |-> N_constraint :> UniqueIndex]

=============================================================================
