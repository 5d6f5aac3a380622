---------------------------- MODULE MCHttpServe ----------------------------
(* Two clients; a site with one asset, one file outside the root, and a    *)
(* handler that does something else on every path.                         *)
EXTENDS HttpServe

CONSTANTS c1, c2

MCRoot  == <<"www">>
MCFiles == {<<"www", "app.css">>, <<"secret">>}

Post(path, length, body) ==
  [method |-> "POST", path |-> path, words |-> 2, padding |-> 0, length |-> length, body |-> body]
Get(path) == [Post(path, 0, <<>>) EXCEPT !.method = "GET"]

MCMessages ==
  {Post(<<"ask">>, 1, <<1>>), Post(<<"number">>, 1, <<1, 2>>), Get(<<"app.css">>),
   Post(<<"app.css">>, 0, <<>>), Get(<<"..", "secret">>), Get(<<"tools">>),
   [Get(<<"ask">>) EXCEPT !.words = 1], [Get(<<"ask">>) EXCEPT !.padding = 2]}

MCHandler ==
  (<<"ask">> :> "ask") @@ (<<"tools">> :> "ask_with_tools") @@ (<<"number">> :> "number")
    @@ (<<"app.css">> :> "page") @@ (<<"..", "secret">> :> "json")

MCReads == [t \in {"Positive", "7"} |-> IF t = "7" THEN {"Int", "Float"} ELSE {}]
=============================================================================
