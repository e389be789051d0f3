----------------------------- MODULE MCResources -----------------------------
EXTENDS Resources

(* Lengths below Half, from Half and from Base on; objects alone and together,
   good ones before and after bad ones.                                    *)
Info(menu) == Apdu(ApplicationInfo, << 1, 0, 5, 0, 6, Len(menu) >> \o menu)

MCInputs ==
    [ResourceManager |->
        {<< Apdu(Profile, << 0, 1, 0, 65 >>), Apdu(ProfileChange, <<>>) >>,
         << Apdu(ProfileEnq, <<>>) >>},
     ApplicationInfo |->
        {<< Info(<<>>) >>, << Info(<<>>), Info(<< 66, 67 >>) >>,
         << Apdu(ApplicationInfo, << 1, 0, 5, 0, 6 >>) >>,
         << Apdu(ApplicationInfo, << 1, 0, 5, 0, 6, 2, 65 >>), Info(<< 65 >>) >>},
     HostControl |->
        {<< Apdu(HostTune, << 0, 1, 0, 2, 0, 3, 1, 4 >>),
            Apdu(Replace, << 7, 255, 254, 225, 35 >>), Apdu(ClearReplace, << 7 >>) >>,
         << Apdu(HostTune, << 0, 1 >>), Apdu(ClearReplace, <<>>), Apdu(Replace, << 7 >>) >>},
     DateTime |->
        {<< Apdu(DateTimeEnq, << 2 >>) >>, << Apdu(DateTimeEnq, <<>>) >>},
     Mmi |->
        {<< Apdu(DisplayControl, << 1, 1 >>), Apdu(DisplayControl, << 1, 2 >>),
            Apdu(DisplayControl, <<>>) >>,
         << Apdu(MmiEnq, << 1 >>), Apdu(MmiEnq, << 1, 4, 65 >>), Apdu(CloseMmi, << 1, 9 >>) >>}]

MCInterests ==
    {{<<0, "ApplicationInfo">>, <<1, "ApplicationInfo">>},
     {<<0, "DateTime">>, <<1, "DateTime">>},
     {<<0, "Mmi">>},
     {<<0, "HostControl">>, <<1, "ResourceManager">>}}

(* A text, and menus that are whole, cut in an item and cut in the header. *)
Shown(kind, texts, missing) == [kind |-> kind, texts |-> texts, missing |-> missing]
MCDialogues ==
    LET texts == << << 84 >>, <<>>, << 66 >>, << 73, 74 >> >>
    IN  {Shown("Text", << << 72, 73, 74, 75, 76, 77 >> >>, 0),
         Shown("Menu", texts, 0), Shown("Menu", texts, 1), Shown("List", texts, 12)}

(* An answer that fills a frame to the last byte, and one byte more.        *)
MCAnswers == {[i \in 1 .. k |-> 65] : k \in {0, 1, 26, 27}}

(* The clock of the day is set, forward and back, while seconds pass.       *)
MCWalls ==
    [second \in 0 .. 3 |->
        CASE second = 0 -> [days |-> 0, seconds |-> 0]
          [] second = 1 -> [days |-> 20088, seconds |-> 86399]
          [] second = 2 -> [days |-> 24948, seconds |-> 36610]
          [] second = 3 -> [days |-> 20088, seconds |-> 45296]]
=============================================================================
