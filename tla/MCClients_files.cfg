\* One name, three versions of it, two requests per connection.
SPECIFICATION Spec
CONSTANTS
    Names = {f1}
    NoName = NoName
    Chunks <- Sizes
    MaxBacklog = 2
    MaxAsked = 2
INVARIANTS SavedIsWhole HelloFirst AnswersInOrder
