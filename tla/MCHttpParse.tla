---------------------------- MODULE MCHttpParse ----------------------------
(***************************************************************************)
(* Conversations of up to two messages, cut in every way into reads of up  *)
(* to seven bytes: with and without headers, equal names, empty, split and *)
(* continued values, a line without a colon, a body, a change of protocol  *)
(* and a connection that ends.  And every query of up to four characters.  *)
(***************************************************************************)
EXTENDS HttpParse

Header(name, value) == [name |-> name, colon |-> TRUE, value |-> value]
Get(url, headers, body) == [method |-> "GET", url |-> url, headers |-> headers, body |-> body]

Plain == Get(<<"/", "a">>, <<>>, <<>>)
Full == Get(<<"http://h", "/", "?", "a", "#", "a">>,
            <<Header(<<"n">>, <<"v", "w">>), Header(<<"m", "n">>, <<>>),
              Header(<<"N">>, <<Space, "w", Space, Eol, Space, "v">>)>>, <<>>)
Post == Get(<<"/">>, <<Header(<<"m">>, <<"v">>)>>, <<"b", "b">>)
Bare == Get(<<"/">>, <<[name |-> <<"m">>, colon |-> FALSE, value |-> <<>>],
                       Header(<<"n">>, <<"v">>)>>, <<>>)
Closing == Get(<<"/">>, <<Header(<<"Connection">>, <<"close">>)>>, <<>>)
Tunnel == [method |-> "CONNECT", url |-> <<"h:1">>, headers |-> <<Header(<<"n">>, <<"v">>)>>,
           body |-> <<"b", "b">>]
Refused == Get(<<"http://h:x", "/">>, <<Header(<<"n">>, <<"v">>)>>, <<>>)
Short == Get(<<"/">>, <<Header(<<"m">>, <<"v">>)>>, <<>>)
Broken == Get(<<"/">>, <<Header(<<"?">>, <<"v">>)>>, <<>>)

Queries == {Get(<<"/", "%", "a", "a", "?">> \o q, <<>>, <<>>) :
                q \in BoundedSeq({"a", "=", "&", "%", "+"}, 4)}

Tokens ==
    Methods \cup NameChars
    \cup {Version, Eol, Space, ":", "http://h", "http://h:x", "h:1", "http", "h", "/", "?", "#",
          "a", "=", "&", "%", "+", "v", "w", "b", "close", "NUL", "x0a", "xaa"}

AllConversations ==
    {<<Full>>, <<Plain, Full>>, <<Full, Plain>>, <<Post, Plain>>, <<Short, Post>>, <<Bare>>,
     <<Closing, Plain>>, <<Tunnel>>, <<Refused>>, <<Broken>>} \cup {<<m>> : m \in Queries}

(* TLC evaluates a definition like these two wherever it meets the constant, *)
(* but Tokens and AllConversations only once.                                *)
MCBytes == Tokens
MCConversations == AllConversations
=============================================================================
