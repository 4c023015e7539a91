--------------------------- MODULE MCPackageCache ---------------------------
(***************************************************************************)
(* An instance of PackageCache for TLC: "a" imports "b", both the same     *)
(* library, "b" a package "t.test" that the listings ignore; "c" has       *)
(* nothing but tests, listed as "c.test".                                  *)
(***************************************************************************)
EXTENDS PackageCache

MCPackages == {"a", "b", "c", "t.test"}

MCListing ==
    [p \in MCPackages |->
        CASE p = "a" -> <<"fmt", "t.test", "b", "a">>
          [] p = "b" -> <<"unsafe", "fmt", "t.test", "b">>
          [] p = "c" -> <<"c", "c.test">>
          [] p = "t.test" -> <<"t.test">>]

MCImports ==
    [p \in MCPackages |->
        CASE p = "a" -> <<"fmt", "b">>
          [] p = "b" -> <<"unsafe", "fmt", "t.test">>
          [] OTHER -> <<>>]

MCFaults ==
    {<<"list", "a">>, <<"list", "c">>, <<"error", "b">>, <<"import", "t.test">>,
     <<"no object", "b">>, <<"object", "fmt">>, <<"source", "b">>}
=============================================================================
