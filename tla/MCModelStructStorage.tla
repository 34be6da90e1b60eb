----------------------- MODULE MCModelStructStorage -----------------------
(* Types that refer to each other in all the ways setup tells apart. *)
EXTENDS ModelStructStorage, TLC

\* User and Post refer to each other; Post embeds Base, whose index tags are wrong and
\* which has an Address without a key; Folder embeds Entry, which refers back to it, and
\* so does Draft with Memo, but Draft's key comes first; Bill has notes tagged INLINE and a
\* field of an excluded type; Cart has INLINE lines without a key.
MCType == {"User", "Post", "Base", "Address", "Folder", "Entry", "Draft", "Memo",
           "Bill", "Note", "Time", "Cart", "Line"}
MCEmbeds == [t \in MCType |-> CASE t = "Post"   -> <<"Base">>
                                [] t = "Folder" -> <<"Entry">>
                                [] t = "Draft"  -> <<"Memo">>
                                [] OTHER        -> <<>>]
MCRefs == [t \in MCType |-> CASE t = "User"  -> <<"Post">>
                              [] t = "Post"  -> <<"User">>
                              [] t = "Base"  -> <<"Address">>
                              [] t = "Entry" -> <<"Folder">>
                              [] t = "Memo"  -> <<"Draft">>
                              [] t = "Bill"  -> <<"Time", "Note">>
                              [] t = "Cart"  -> <<"Line">>
                              [] OTHER       -> <<>>]
MCSlices       == {<<"User", "Post">>, <<"Bill", "Note">>, <<"Cart", "Line">>}
MCInlineFields == {<<"Bill", "Note">>}
MCAnonymous    == {<<"Post", "Base">>}
MCKeyed        == MCType \ {"Address", "Time", "Line"}
\* The program asks for these; the others are met on the way.
MCAsked        == {"Post", "Base", "Folder", "Entry", "Draft", "Bill", "Time", "Cart"}
=============================================================================
