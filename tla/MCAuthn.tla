------------------------------- MODULE MCAuthn -------------------------------
EXTENDS Authn
MCTexts == {<<>>, <<"a">>, <<":">>, <<"a", ":">>}
MCUsers == {None} \cup [name : MCTexts, password : {<<>>, <<"a">>, <<":", "a">>}]
MCTokens == {None, <<>>, <<" ">>, <<"a">>, <<" ", "a">>}
MCIDs == {"x", "y", "z"}
MCEntry ==
    [id : MCIDs, type : {"basic"}, user : MCUsers, token : {None}]
    \cup [id : MCIDs, type : {"bearer", "apikey"}, user : {None}, token : MCTokens]
MCHeader == ({headerValue(e) : e \in MCEntry} \ {None})
            \cup {<<"Bearer", " ">> \o t : t \in MCTokens \ {None}}
=============================================================================
