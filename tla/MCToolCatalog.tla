---------------------------- MODULE MCToolCatalog ----------------------------
(* Model-checking instances of ToolCatalog: two servers, one of them with an  *)
(* allow list, and listings that repeat, change, drop and misname a tool, one *)
(* of them with more usable tools than a server may have.                     *)
EXTENDS ToolCatalog, TLC

MCServers == <<"files", "web">>
MCNames == {"read", "write", "list", "bad"}
MCUsableNames == {"read", "write", "list"}
MCAllowed == [s \in {"files", "web"} |-> IF s = "web" THEN {"read", "list", "bad"} ELSE MCNames]
MCDigests == {"d1", "d2", "big"}
MCOversized == {"big"}

Def(name, digest) == [name |-> name, digest |-> digest]

MCListings == {<<>>,
               <<Def("read", "d1")>>,
               <<Def("bad", "d1"), Def("read", "d2"), Def("write", "d1"), Def("list", "d1")>>,
               <<Def("read", "d2"), Def("read", "d1"), Def("write", "big")>>}
=============================================================================
