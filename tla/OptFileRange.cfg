\* Ranges that lack a part.
SPECIFICATION Spec
CONSTANT Lines <- RangeLines
INVARIANT ActionsReadWhatIsThere
