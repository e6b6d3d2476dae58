------------------------------ MODULE MCPopup ------------------------------
EXTENDS Popup
MCSizes == {<<72, 47>>, <<72, 9>>}
MCFlat  == {<<72, 7>>}     \* a header, a footer, a hint and no row between them
=============================================================================
