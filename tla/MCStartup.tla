----------------------------- MODULE MCStartup -----------------------------
(***************************************************************************)
(* Two models, two places to look for the configuration, three keys, and    *)
(* blocks of two bytes with secrets up to two blocks long.                 *)
(***************************************************************************)
EXTENDS StartupProperties

MCFiles == <<"vad", "whisper">>
MCPlaces == <<"env", "cwd">>
MCMachines == {"here", "there"}
MCKeyNames == {"main", "openai", "anthropic"}

MCTexts == {<<>>, <<1>>, <<1, 2>>, <<1, 2, 1>>, <<2, 2, 2, 2>>}

Key(by, secret) ==
    [plain |-> <<1>>, secret |-> secret, by |-> by, signing |-> "whole", salt |-> 1]
Half(key) == [key EXCEPT !.signing = "half"]

(* Keys of each length, none, and one of another machine in every place.   *)
File3(main, openai, anthropic, complete) ==
    [complete |-> complete,
     keys |-> [main |-> main, openai |-> openai, anthropic |-> anthropic]]

MCWritten ==
    {File3(Key("here", <<1, 2>>), Key("there", <<1, 2, 1>>), Key("here", <<2, 2, 2, 2>>), TRUE)}

MCContents ==
    MCWritten \cup
    {File3(Key("there", <<1, 2>>), Half(Key("here", <<1, 2, 1>>)), Key("nobody", <<>>), TRUE),
     File3(Key("here", <<>>), Key("nobody", <<>>), Key("here", <<1>>), FALSE)}
=============================================================================
