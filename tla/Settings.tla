------------------------------ MODULE Settings ------------------------------
(***************************************************************************)
(* The properties of gd2fuse: the tables of Configuration.cpp and          *)
(* GoogleProvider.cpp, the lists that are built of them when they are      *)
(* asked for the first time, the registry of enumeration types that all    *)
(* lists share, and the chain  (global, provider), session  that the       *)
(* control directory shows.                                                *)
(***************************************************************************)
EXTENDS Naturals, Sequences, SequencesExt, TLC

Lists == {"global", "provider", "session"}

\* name, type and code of the enumeration of each property.
GlobalDefs ==
  <<<<"change_collision_strategy", "ENUM", "coll">>, <<"cache_max_size", "UINT", "">>,
    <<"read_only", "BOOL", "">>, <<"cache_prefetch_strategy", "ENUM", "cpst">>,
    <<"permission_new_file", "OINT", "">>, <<"permission_new_folder", "OINT", "">>,
    <<"permission_new_spec", "OINT", "">>, <<"erase_policy", "ENUM", "erpo">>,
    <<"sync", "BOOL", "">>, <<"limit_upload_max", "UINT", "">>,
    <<"limit_download_max", "UINT", "">>, <<"limit_upload_min", "UINT", "">>,
    <<"control_dir", "PATH", "">>>>

ProviderDefs ==
  <<<<"permission_new_gdoc", "OINT", "">>, <<"export_gdoc_documents", "ENUM", "gdde">>,
    <<"export_gdoc_spreadsheets", "ENUM", "gdds">>, <<"export_gdoc_drawings", "ENUM", "gddd">>,
    <<"export_gdoc_presentations", "ENUM", "gddp">>, <<"use-ssl-verify", "BOOL", "">>,
    <<"ssl-ca-path", "PATH", "">>>>

Defs(list) == CASE list = "global" -> GlobalDefs [] list = "provider" -> ProviderDefs
                [] list = "session" -> <<>>

GlobalEnums ==
  [coll |-> {"prefer_local", "prefer_remote"}, cpst |-> {"none", "eager", "lazy"},
   erpo |-> {"forever", "trash"}]

ProviderEnums ==
  [gdde |-> {"html", "plain_text", "rich_text", "openoffice_doc", "pdf", "ms_word"},
   gdds |-> {"csv", "openoffice_sheet", "pdf", "ms_excel"},
   gddd |-> {"jpeg", "png", "svg", "pdf"},
   gddp |-> {"plain_text", "pdf", "ms_powerpoint"}]

EnumsOf(list) == IF list = "global" THEN GlobalEnums ELSE ProviderEnums

-----------------------------------------------------------------------------
(* Building a list.  types is the registry, lists[l] the map from names to  *)
(* properties, <<>> before the list is built.                               *)

NoSettings == [types |-> <<>>, lists |-> [l \in Lists |-> <<>>], built |-> {}]

RegisterEnum_ByType(types, code, entries) ==
  IF types = <<>> THEN code :> entries ELSE types @@ (code :> types[CHOOSE c \in DOMAIN types : TRUE])

\* A code that is known keeps its entries.
RegisterEnum(types, code, entries) ==
  IF code \in DOMAIN types THEN types ELSE types @@ (code :> entries)

\* One turn of the loop in Impl's constructor.  The type of a property of an
\* enumeration is looked up in the registry, as the others are.
AddProperty(list, s, def) ==
  LET types == IF def[2] = "ENUM" THEN RegisterEnum(s.types, def[3], EnumsOf(list)[def[3]])
               ELSE s.types
      prop  == [type |-> def[2], entries |-> IF def[2] = "ENUM" THEN types[def[3]] ELSE {}]
  IN [s EXCEPT !.types = types,
               !.lists[list] = IF def[1] \in DOMAIN @ THEN @ ELSE @ @@ (def[1] :> prop)]

\* G2F_PROP_IMPL_LAZY
Built(s, list) ==
  IF list \in s.built THEN s
  ELSE LET filled == FoldLeft(LAMBDA r, def : AddProperty(list, r, def), s, Defs(list))
       IN [filled EXCEPT !.built = @ \cup {list}]

-----------------------------------------------------------------------------
(* ChainedPropertyIterator, twice: "inner" goes over the lists of the       *)
(* program and of the provider, "outer" over inner and the session's list.  *)

\* The map of a list goes from name to name; here, in the order of its table.
Names(s, list) ==
  LET all == [k \in DOMAIN Defs(list) |-> Defs(list)[k][1]]
  IN SelectSeq(all, LAMBDA name : name \in DOMAIN s.lists[list])

Iterator(s) ==
  [global |-> Names(s, "global"), provider |-> Names(s, "provider"),
   session |-> Names(s, "session"), inner |-> "upstream", outer |-> "upstream"]

\* hasNext of a chain, of those of its two parts.
HasNext(at, upstream, current) == (at = "upstream" /\ upstream) \/ current

InnerHasNext(it) == HasNext(it.inner, it.global # <<>>, it.provider # <<>>)
OuterHasNext(it) == HasNext(it.outer, InnerHasNext(it), it.session # <<>>)

\* next of a chain: the part at hand moves on, and the chain to its other part
\* when the first one has no more.
Switch(at, upstream) == IF at = "upstream" /\ ~upstream THEN "current" ELSE at

InnerNext(it) ==
  LET moved == IF it.inner = "upstream" THEN [it EXCEPT !.global = Tail(@)]
               ELSE [it EXCEPT !.provider = Tail(@)]
      name  == IF it.inner = "upstream" THEN Head(it.global) ELSE Head(it.provider)
  IN [it |-> [moved EXCEPT !.inner = Switch(@, moved.global # <<>>)], name |-> name]

OuterNext(it) ==
  LET step == IF it.outer = "upstream" THEN InnerNext(it)
              ELSE [it |-> [it EXCEPT !.session = Tail(@)], name |-> Head(it.session)]
  IN [step EXCEPT !.it.outer = Switch(@, InnerHasNext(step.it))]

\* PropRootNode's list of nodes: the loop over the iterator, which is over after
\* as many turns as there are properties.
PropNodes(s) ==
  LET Turn(r, k) == IF OuterHasNext(r.it)
                    THEN LET n == OuterNext(r.it) IN [it |-> n.it, nodes |-> Append(r.nodes, n.name)]
                    ELSE r
      size == Len(GlobalDefs) + Len(ProviderDefs)
  IN FoldLeft(Turn, [it |-> Iterator(s), nodes |-> <<>>], [k \in 1..size + 1 |-> k]).nodes

\* ChainedConfiguration::getProperty: the list that answers for a name.
Answering(s, name) ==
  CASE name \in DOMAIN s.lists.session  -> "session"
    [] name \notin DOMAIN s.lists.session /\ name \in DOMAIN s.lists.provider -> "provider"
    [] OTHER -> "global"
=============================================================================
